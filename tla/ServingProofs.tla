---------------------------- MODULE ServingProofs ----------------------------
(***************************************************************************)
(* Proofs about Serving: what a request is answered and measured with, who *)
(* owns which lock, and how far the sweeper's counter may drift, for any   *)
(* number of requests and showtimes.                                       *)
(***************************************************************************)
EXTENDS Serving, FiniteSetTheorems, SequenceTheorems, TLAPS

-----------------------------------------------------------------------------
(* The inductive invariant                                                 *)

Statuses == {0, 200, 201, 204, 400, 404, 405, 409, 410, 413, 415, 422, 429, 500, 503}

\* Before a head is written; while the operation cannot have been committed.
Headless == {"none", "throttle", "route", "handle", "call", "begin", "tx", "answer", "fail"}
Early == {"none", "throttle", "route", "handle", "call", "begin", "tx"}
Last == {"return", "ended"}

Labels == Handlers \cup {"/v1/", "unmatched"}

Sentinels ==
    {"store.ErrNotFound", "store.ErrSeatRaceLost", "store.ErrDuplicateBooking",
     "store.ErrHoldAlreadyBooked", "store.ErrScheduleConflict", "store.ErrBusy",
     "store.ErrConstraint", "ErrBusy", "ErrNotFound", "SeatsUnavailable",
     "ErrInvalidSelection", "ErrSalesClosed", "ErrAlreadyConfirmed", "ErrHoldExpired",
     "ErrIdempotencyKeyReused", "notFound", "unsupportedMediaType", "requestTooLarge",
     "invalidRequest"}

Reported == {"none", "no rows", "query_canceled", "connection", "lock_not_available",
             "seat_occupancy_live_uniq", "other_unique_violation"}

HttpRecord ==
    [at: Headless \cup {"body"} \cup Last, input: Inputs,
     pattern: Handlers \cup {"/v1/", ""}, err: SUBSET Sentinels, condition: Reported,
     status: Statuses, heads: 0 .. 1, wire: {"open", "complete", "cut"},
     left: BOOLEAN, panicked: BOOLEAN, committed: BOOLEAN, raceLost: BOOLEAN,
     measured: Seq(Labels \X Statuses)]

\* A head goes out once, and its status is the recorder's.
HeadOK(v) ==
    /\ v.at \in Headless => v.heads = 0
    /\ v.at = "body" => v.status \in Success
    /\ v.heads = 0 <=> v.status = 0
    /\ v.at = "return" /\ v.heads = 0 => v.left \/ v.panicked
    /\ v.at = "ended" /\ v.heads = 0 => v.left

\* A panic ends the handler; what it leaves half-written is cut off.
PanicOK(v) ==
    /\ v.panicked => v.at \in Last
    /\ v.panicked /\ v.at = "return" => v.status \in Success \cup {0}
    /\ v.panicked /\ v.at = "ended" /\ v.status \in Success => v.wire = "cut"

\* The pattern is the handler that runs, or none was found.
PatternOK(v) ==
    /\ v.at \in {"none", "throttle", "route"} => v.pattern = "/v1/"
    /\ v.at \in (Headless \cup {"body"}) \ {"none", "throttle", "route"} =>
         v.pattern = v.input.route
    /\ v.pattern \in Handlers => v.pattern = v.input.route

\* A success is not written before the COMMIT is acknowledged, and an error
\* after a COMMIT that was carried out is one that nothing is known about.
EffectOK(v) ==
    /\ v.at \in Early => ~v.committed
    /\ v.at \in {"begin", "tx"} => v.input.route \in Writes
    /\ v.at \in {"answer", "body"} /\ v.input.route \in Writes => v.committed
    /\ v.at = "fail" /\ v.committed => v.err = {}
    /\ v.at \in Last /\ v.status \in Success /\ v.input.route \in Writes => v.committed
    /\ v.at \in Last /\ v.committed => v.status \in Success \cup {0, 500}

\* A double claim stays in the error's chain until fail has seen it.
RaceOK(v) ==
    /\ v.at \notin {"fail"} \cup Last => v.condition = "none"
    /\ v.condition = "seat_occupancy_live_uniq" =>
         IF v.at = "fail" THEN "store.ErrSeatRaceLost" \in v.err
         ELSE v.raceLost \/ v.left

\* Nothing is measured before the deferred function runs.
MeasureOK(v) ==
    IF v.at = "ended"
    THEN v.measured = <<<<IF v.pattern = "" THEN "unmatched" ELSE v.pattern, v.status>>>>
    ELSE v.measured = <<>>

RequestOK(v) ==
    v \in HttpRecord /\ HeadOK(v) /\ PanicOK(v) /\ PatternOK(v) /\ EffectOK(v)
    /\ RaceOK(v) /\ MeasureOK(v)

HttpInv == http \in [Requests -> HttpRecord] /\ \A r \in Requests : RequestOK(http[r])

\* The locks p owns: one while it is in a transaction, and otherwise none.
Owned(p) == {s \in Showtimes : lock[s] = p}

OwnsOne(p) == \E s \in Showtimes : Owned(p) = {s}

LockInv ==
    /\ lock \in [Showtimes -> Requests \cup {Sweeper, None}]
    /\ \A r \in Requests : IF http[r].at = "tx" THEN OwnsOne(r) ELSE Owned(r) = {}
    /\ IF sweep.at \in {"reclaim", "commit"} THEN OwnsOne(Sweeper) ELSE Owned(Sweeper) = {}

SweepRecord ==
    [at: {"waiting", "list", "next", "begin", "reclaim", "commit", "observe", "done"},
     todo: Seq(Showtimes), freed: Nat, reclaimed: Nat]

\* What is or will be reported is what was released, what a refused COMMIT took
\* back, and what the open transaction has counted without having committed it;
\* and that is still there, because the loop has the lock of its showtime.
SweepInv ==
    /\ sweep \in SweepRecord /\ Len(sweep.todo) <= Batch
    /\ lapsed \in [Showtimes -> Nat] /\ IsFiniteSet(Due)
    /\ metric \in Nat /\ released \in Nat /\ undone \in Nat /\ faults \in Nat
    /\ stopping \in BOOLEAN
    /\ sweep.at \in {"begin", "reclaim", "commit"} => sweep.todo # <<>>
    /\ sweep.at \in {"reclaim", "commit"} => lock[Head(sweep.todo)] = Sweeper
    /\ sweep.at = "commit" => sweep.freed <= lapsed[Head(sweep.todo)]
    /\ sweep.at # "commit" => sweep.freed = 0
    /\ sweep.at = "waiting" => sweep.reclaimed = 0
    /\ ~stopping \/ sweep.at = "waiting" =>
         metric + sweep.reclaimed = released + undone + sweep.freed

ServingInv == HttpInv /\ LockInv /\ SweepInv
-----------------------------------------------------------------------------
(* Errors and their statuses                                               *)

LEMMA ClassifyKnown ==
    ASSUME NEW c \in Reported
    PROVE  Classify(c) \subseteq Sentinels
  BY DEF Classify, Reported, Sentinels

\* A broken connection tells nothing, and so the API answers 500 for it.
LEMMA NothingKnown ==
    ASSUME NEW route
    PROVE  ServiceError(route, "connection") = {}
  <1>1. Classify("connection") = {}
    BY DEF Classify
  <1>2. QED
    BY <1>1 DEF ServiceError, HoldError, FromStore

\* The double claim is still in the chain of what Hold makes of it.
LEMMA RaceInChain ==
    "store.ErrSeatRaceLost" \in ServiceError("createHold", "seat_occupancy_live_uniq")
  <1>1. Classify("seat_occupancy_live_uniq") = {"store.ErrSeatRaceLost"}
    BY DEF Classify
  <1>2. QED
    BY <1>1 DEF ServiceError, HoldError

LEMMA ErrorsKnown ==
    ASSUME NEW route, NEW c \in Reported
    PROVE  ServiceError(route, c) \in SUBSET Sentinels
  <1>1. Classify(c) \subseteq Sentinels
    BY ClassifyKnown
  <1>2. {"ErrBusy", "ErrNotFound", "SeatsUnavailable"} \subseteq Sentinels
    BY DEF Sentinels
  <1>3. FromStore(Classify(c)) \subseteq Sentinels /\ HoldError(Classify(c)) \subseteq Sentinels
    BY <1>1, <1>2 DEF FromStore, HoldError
  <1>4. QED
    BY <1>3 DEF ServiceError

LEMMA ConditionsKnown ==
    ASSUME NEW route, NEW c \in Conditions(route)
    PROVE  /\ c \in Reported \ {"none"}
           /\ c = "seat_occupancy_live_uniq" => route = "createHold"
  BY DEF Conditions, Reported

LEMMA RefusalsKnown ==
    ASSUME NEW route \in Handlers
    PROVE  /\ Refusals(route) \subseteq Sentinels
           /\ route \in Writes => TxRefusals(route) \subseteq Sentinels
  BY DEF Refusals, TxRefusals, Writes, Handlers, Sentinels

LEMMA ProblemIsNoSuccess ==
    ASSUME NEW err
    PROVE  ProblemFor(err) \in Statuses \ (Success \cup {0})
  BY DEF ProblemFor, Statuses, Success

LEMMA UnknownIs500 == ProblemFor({}) = 500
  BY DEF ProblemFor

LEMMA SuccessIs ==
    ASSUME NEW route
    PROVE  SuccessStatus(route) \in Success /\ SuccessStatus(route) \in Statuses \ {0}
  BY DEF SuccessStatus, Success, Statuses
-----------------------------------------------------------------------------
(* One request                                                             *)

\* A step that only moves on, before anything was written.
LEMMA MovesOn ==
    ASSUME NEW v, RequestOK(v), NEW at,
           \/ v.at = "throttle" /\ at = "route"
           \/ v.at = "handle" /\ at = "call"
           \/ v.at = "call" /\ at = "begin" /\ v.input.route \in Writes
           \/ v.at = "call" /\ at = "answer" /\ v.input.route \notin Writes
           \/ v.at = "begin" /\ at = "tx"
           \/ v.at = "body" /\ at = "return"
    PROVE  RequestOK([v EXCEPT !.at = at])
  <1>1. PICK w : w = [v EXCEPT !.at = at]
    OBVIOUS
  <1>2. v \in HttpRecord
    BY DEF RequestOK
  <1>3. w \in HttpRecord
    BY <1>1, <1>2 DEF HttpRecord, Headless, Last
  <1>4. /\ w.at = at /\ w.input = v.input /\ w.pattern = v.pattern /\ w.err = v.err
        /\ w.condition = v.condition /\ w.status = v.status /\ w.heads = v.heads
        /\ w.wire = v.wire /\ w.left = v.left /\ w.panicked = v.panicked
        /\ w.committed = v.committed /\ w.raceLost = v.raceLost /\ w.measured = v.measured
    BY <1>1, <1>2 DEF HttpRecord
  <1>5. HeadOK(w)
    BY <1>4 DEF RequestOK, HeadOK, Headless, Success
  <1>6. PanicOK(w)
    BY <1>4 DEF RequestOK, PanicOK, Last
  <1>7. PatternOK(w)
    BY <1>4 DEF RequestOK, PatternOK, Headless
  <1>8. EffectOK(w)
    BY <1>4 DEF RequestOK, EffectOK, HeadOK, Early, Last
  <1>9. RaceOK(w) /\ MeasureOK(w)
    BY <1>4 DEF RequestOK, RaceOK, MeasureOK, Last
  <1>10. QED
    BY <1>1, <1>3, <1>5, <1>6, <1>7, <1>8, <1>9 DEF RequestOK

\* The mux has found the handler.
LEMMA Routed ==
    ASSUME NEW v, RequestOK(v), v.at = "route", v.input.route \in Handlers
    PROVE  RequestOK([v EXCEPT !.at = "handle", !.pattern = v.input.route])
  <1>1. PICK w : w = [v EXCEPT !.at = "handle", !.pattern = v.input.route]
    OBVIOUS
  <1>2. v \in HttpRecord
    BY DEF RequestOK
  <1>3. w \in HttpRecord
    BY <1>1, <1>2 DEF HttpRecord, Headless
  <1>4. /\ w.at = "handle" /\ w.input = v.input /\ w.pattern = v.input.route
        /\ w.condition = v.condition /\ w.status = v.status /\ w.heads = v.heads
        /\ w.panicked = v.panicked /\ w.committed = v.committed /\ w.measured = v.measured
        /\ w.raceLost = v.raceLost /\ w.left = v.left
    BY <1>1, <1>2 DEF HttpRecord
  <1>5. HeadOK(w)
    BY <1>4 DEF RequestOK, HeadOK, Headless
  <1>6. PanicOK(w) /\ PatternOK(w)
    BY <1>4 DEF RequestOK, PanicOK, PatternOK, Last
  <1>7. EffectOK(w)
    BY <1>4 DEF RequestOK, EffectOK, Early, Last
  <1>8. RaceOK(w) /\ MeasureOK(w)
    BY <1>4 DEF RequestOK, RaceOK, MeasureOK, Last
  <1>9. QED
    BY <1>1, <1>3, <1>5, <1>6, <1>7, <1>8 DEF RequestOK

\* The first head of a request: a problem and nothing after it.
LEMMA HeadWritten ==
    ASSUME NEW v \in HttpRecord, NEW status \in Statuses, v.status = 0, v.heads = 0
    PROVE  LET w == Problem(v, status) IN
           /\ w \in HttpRecord
           /\ w.at = "return" /\ w.input = v.input /\ w.pattern = v.pattern
           /\ w.condition = v.condition /\ w.status = status /\ w.heads = 1
           /\ w.panicked = v.panicked /\ w.committed = v.committed /\ w.measured = v.measured
           /\ w.raceLost = v.raceLost /\ w.left = v.left /\ w.wire = v.wire
  <1>1. PICK w : w = Problem(v, status)
    OBVIOUS
  <1>2. PICK at \in {"return", "body"} :
          w = [[v EXCEPT !.status = status, !.heads = 1, !.at = at] EXCEPT !.at = "return"]
    <2>1. WriteHeader(v, status) = [v EXCEPT !.status = status, !.heads = 1,
                                             !.at = IF status = 204 THEN "return" ELSE "body"]
      BY SMT DEF WriteHeader
    <2>2. QED
      BY <1>1, <2>1 DEF Problem
  <1>3. w \in HttpRecord
    <2>0. 1 \in 0 .. 1 /\ at \in Headless \cup {"body"} \cup Last
      BY DEF Last
    <2>1. [v EXCEPT !.status = status, !.heads = 1, !.at = at] \in HttpRecord
      BY <2>0 DEF HttpRecord
    <2>2. QED
      BY <1>2, <2>1 DEF HttpRecord, Last
  <1>4. /\ w.at = "return" /\ w.input = v.input /\ w.pattern = v.pattern
        /\ w.condition = v.condition /\ w.status = status /\ w.heads = 1
        /\ w.panicked = v.panicked /\ w.committed = v.committed /\ w.measured = v.measured
        /\ w.raceLost = v.raceLost /\ w.left = v.left /\ w.wire = v.wire
    BY <1>2 DEF HttpRecord
  <1>5. QED
    BY <1>1, <1>3, <1>4

\* A problem is written before the handler, or by fail; v is the request with
\* the fields that were set on the way.
LEMMA ProblemWritten ==
    ASSUME NEW v \in HttpRecord, NEW status \in Statuses \ (Success \cup {0}),
           v.status = 0, v.heads = 0, v.measured = <<>>, ~v.panicked,
           v.pattern \in Handlers => v.pattern = v.input.route,
           v.committed => status = 500,
           v.condition = "seat_occupancy_live_uniq" => v.raceLost
    PROVE  RequestOK(Problem(v, status))
  <1>1. PICK w : w = Problem(v, status)
    OBVIOUS
  <1>3. w \in HttpRecord
    BY <1>1, HeadWritten
  <1>4. /\ w.at = "return" /\ w.input = v.input /\ w.pattern = v.pattern
        /\ w.condition = v.condition /\ w.status = status /\ w.heads = 1
        /\ w.panicked = v.panicked /\ w.committed = v.committed /\ w.measured = v.measured
        /\ w.raceLost = v.raceLost /\ w.left = v.left
    BY <1>1, HeadWritten
  <1>5. HeadOK(w)
    BY <1>4 DEF HeadOK, Headless
  <1>6. PanicOK(w) /\ PatternOK(w)
    BY <1>4 DEF PanicOK, PatternOK, Headless
  <1>7. EffectOK(w)
    BY <1>4 DEF EffectOK, Early, Last
  <1>8. RaceOK(w) /\ MeasureOK(w)
    BY <1>4 DEF RaceOK, MeasureOK, Last
  <1>9. QED
    BY <1>1, <1>3, <1>5, <1>6, <1>7, <1>8 DEF RequestOK

\* The handler returns an error: after its COMMIT was carried out, only one
\* that says nothing.
LEMMA Failed ==
    ASSUME NEW v, RequestOK(v), v.at \in {"handle", "call", "begin", "tx", "answer"},
           NEW err \in SUBSET Sentinels, NEW condition \in Reported, NEW committed \in BOOLEAN,
           committed => err = {},
           condition = "seat_occupancy_live_uniq" => "store.ErrSeatRaceLost" \in err
    PROVE  RequestOK([v EXCEPT !.at = "fail", !.err = err, !.condition = condition,
                               !.committed = committed])
  <1>1. PICK w : w = [v EXCEPT !.at = "fail", !.err = err, !.condition = condition,
                               !.committed = committed]
    OBVIOUS
  <1>2. v \in HttpRecord
    BY DEF RequestOK
  <1>3. w \in HttpRecord
    BY <1>1, <1>2 DEF HttpRecord, Headless
  <1>4. /\ w.at = "fail" /\ w.input = v.input /\ w.pattern = v.pattern /\ w.err = err
        /\ w.condition = condition /\ w.status = v.status /\ w.heads = v.heads
        /\ w.panicked = v.panicked /\ w.committed = committed /\ w.measured = v.measured
    BY <1>1, <1>2 DEF HttpRecord
  <1>5. HeadOK(w)
    BY <1>4 DEF RequestOK, HeadOK, Headless
  <1>6. PanicOK(w) /\ PatternOK(w)
    BY <1>4 DEF RequestOK, PanicOK, PatternOK, Headless, Last
  <1>7. EffectOK(w)
    BY <1>4 DEF EffectOK, Early, Last
  <1>8. RaceOK(w) /\ MeasureOK(w)
    BY <1>4 DEF RequestOK, RaceOK, MeasureOK
  <1>9. QED
    BY <1>1, <1>3, <1>5, <1>6, <1>7, <1>8 DEF RequestOK

\* COMMIT is acknowledged.
LEMMA Committed ==
    ASSUME NEW v, RequestOK(v), v.at = "tx"
    PROVE  RequestOK([v EXCEPT !.at = "answer", !.committed = TRUE])
  <1>1. PICK w : w = [v EXCEPT !.at = "answer", !.committed = TRUE]
    OBVIOUS
  <1>2. v \in HttpRecord
    BY DEF RequestOK
  <1>3. w \in HttpRecord
    BY <1>1, <1>2 DEF HttpRecord, Headless
  <1>4. /\ w.at = "answer" /\ w.input = v.input /\ w.pattern = v.pattern
        /\ w.condition = v.condition /\ w.status = v.status /\ w.heads = v.heads
        /\ w.panicked = v.panicked /\ w.committed = TRUE /\ w.measured = v.measured
    BY <1>1, <1>2 DEF HttpRecord
  <1>5. HeadOK(w)
    BY <1>4 DEF RequestOK, HeadOK, Headless
  <1>6. PanicOK(w) /\ PatternOK(w)
    BY <1>4 DEF RequestOK, PanicOK, PatternOK, Headless, Last
  <1>7. EffectOK(w)
    BY <1>4 DEF EffectOK, Early, Last
  <1>8. RaceOK(w) /\ MeasureOK(w)
    BY <1>4 DEF RequestOK, RaceOK, MeasureOK, Last
  <1>9. QED
    BY <1>1, <1>3, <1>5, <1>6, <1>7, <1>8 DEF RequestOK

\* The head of a success, for an operation that was committed if it writes.
LEMMA Answered ==
    ASSUME NEW v, RequestOK(v), v.at = "answer"
    PROVE  RequestOK(WriteHeader(v, SuccessStatus(v.input.route)))
  <1>0. v \in HttpRecord /\ v.status = 0 /\ v.heads = 0
    BY DEF RequestOK, HeadOK, Headless
  <1>s. PICK status \in Success : status = SuccessStatus(v.input.route) /\ status \in Statuses \ {0}
    BY SuccessIs
  <1>1. PICK at \in {"return", "body"} : at = IF status = 204 THEN "return" ELSE "body"
    OBVIOUS
  <1>2. PICK w : w = [v EXCEPT !.status = status, !.heads = 1, !.at = at]
    OBVIOUS
  <1>3. w = WriteHeader(v, SuccessStatus(v.input.route))
    BY <1>0, <1>s, <1>1, <1>2, SMT DEF WriteHeader
  <1>4. w \in HttpRecord
    <2>1. status \in Statuses /\ 1 \in 0 .. 1 /\ at \in Headless \cup {"body"} \cup Last
      BY <1>s DEF Last
    <2>2. QED
      BY <1>0, <1>2, <2>1 DEF HttpRecord
  <1>5. /\ w.at = at /\ w.input = v.input /\ w.pattern = v.pattern
        /\ w.condition = v.condition /\ w.status = status /\ w.heads = 1
        /\ w.panicked = v.panicked /\ w.committed = v.committed /\ w.measured = v.measured
    BY <1>0, <1>2 DEF HttpRecord
  <1>6. HeadOK(w)
    BY <1>s, <1>5 DEF HeadOK, Headless
  <1>7. PanicOK(w)
    BY <1>5 DEF RequestOK, PanicOK, Last
  <1>8. PatternOK(w)
    BY <1>5 DEF RequestOK, PatternOK, Headless
  <1>9. EffectOK(w)
    BY <1>5 DEF RequestOK, EffectOK, Early, Last
  <1>10. RaceOK(w) /\ MeasureOK(w)
    BY <1>5 DEF RequestOK, RaceOK, MeasureOK, Last
  <1>11. QED
    BY <1>3, <1>4, <1>6, <1>7, <1>8, <1>9, <1>10 DEF RequestOK

\* fail writes nothing for a client that has left.
LEMMA NobodyThere ==
    ASSUME NEW v, RequestOK(v), v.at = "fail", v.left
    PROVE  RequestOK([v EXCEPT !.at = "return"])
  <1>1. PICK w : w = [v EXCEPT !.at = "return"]
    OBVIOUS
  <1>2. v \in HttpRecord
    BY DEF RequestOK
  <1>3. w \in HttpRecord
    BY <1>1, <1>2 DEF HttpRecord, Last
  <1>4. /\ w.at = "return" /\ w.input = v.input /\ w.pattern = v.pattern /\ w.left
        /\ w.condition = v.condition /\ w.status = v.status /\ w.heads = v.heads
        /\ w.panicked = v.panicked /\ w.committed = v.committed /\ w.measured = v.measured
    BY <1>1, <1>2 DEF HttpRecord
  <1>5. HeadOK(w)
    BY <1>4 DEF RequestOK, HeadOK, Headless
  <1>6. PanicOK(w) /\ PatternOK(w)
    BY <1>4 DEF RequestOK, PanicOK, PatternOK, Headless, Last
  <1>7. EffectOK(w)
    BY <1>4 DEF RequestOK, EffectOK, HeadOK, Headless, Early, Last, Success
  <1>8. RaceOK(w) /\ MeasureOK(w)
    BY <1>4 DEF RequestOK, RaceOK, MeasureOK, Last
  <1>9. QED
    BY <1>1, <1>3, <1>5, <1>6, <1>7, <1>8 DEF RequestOK

\* The handler panics, wherever it is.
LEMMA Panicked ==
    ASSUME NEW v, RequestOK(v), v.at \in {"handle", "call", "tx", "answer", "body"}
    PROVE  RequestOK([v EXCEPT !.at = "return", !.panicked = TRUE])
  <1>1. PICK w : w = [v EXCEPT !.at = "return", !.panicked = TRUE]
    OBVIOUS
  <1>2. v \in HttpRecord
    BY DEF RequestOK
  <1>3. w \in HttpRecord
    BY <1>1, <1>2 DEF HttpRecord, Last
  <1>4. /\ w.at = "return" /\ w.input = v.input /\ w.pattern = v.pattern /\ w.left = v.left
        /\ w.condition = v.condition /\ w.status = v.status /\ w.heads = v.heads
        /\ w.panicked /\ w.committed = v.committed /\ w.measured = v.measured
    BY <1>1, <1>2 DEF HttpRecord
  <1>5. HeadOK(w)
    BY <1>4 DEF RequestOK, HeadOK, Headless
  <1>6. v.status \in Success \cup {0} /\ (v.status = 0 \/ v.at = "body")
    BY DEF RequestOK, HeadOK, Headless
  <1>7. PanicOK(w) /\ PatternOK(w)
    BY <1>4, <1>6 DEF RequestOK, PanicOK, PatternOK, Headless, Last
  <1>8. EffectOK(w)
    BY <1>4, <1>6 DEF RequestOK, EffectOK, Early, Last, Success
  <1>9. RaceOK(w) /\ MeasureOK(w)
    BY <1>4 DEF RequestOK, RaceOK, MeasureOK, Last
  <1>10. QED
    BY <1>1, <1>3, <1>5, <1>7, <1>8, <1>9 DEF RequestOK

\* What instrument's deferred function measures, once recover has had its turn.
LEMMA Measured ==
    ASSUME NEW v \in HttpRecord, v.measured = <<>>,
           v.heads = 0 <=> v.status = 0, v.heads = 0 => v.left,
           v.panicked /\ v.status \in Success => v.wire = "cut",
           v.pattern \in Handlers => v.pattern = v.input.route,
           v.status \in Success /\ v.input.route \in Writes => v.committed,
           v.committed => v.status \in Success \cup {0, 500},
           v.condition = "seat_occupancy_live_uniq" => v.raceLost \/ v.left
    PROVE  RequestOK([ObserveRequest(v, v.status) EXCEPT !.at = "ended"])
  <1>1. PICK label : label = IF v.pattern = "" THEN "unmatched" ELSE v.pattern
    OBVIOUS
  <1>2. PICK m : m = <<<<label, v.status>>>>
    OBVIOUS
  <1>3. m \in Seq(Labels \X Statuses)
    <2>1. label \in Labels /\ v.status \in Statuses
      BY <1>1 DEF Labels, HttpRecord
    <2>2. QED
      BY <1>2, <2>1
  <1>4. PICK w : w = [[v EXCEPT !.measured = m] EXCEPT !.at = "ended"]
    OBVIOUS
  <1>5. w = [ObserveRequest(v, v.status) EXCEPT !.at = "ended"]
    <2>1. Append(v.measured, <<label, v.status>>) = m
      BY <1>2
    <2>2. ObserveRequest(v, v.status) = [v EXCEPT !.measured = m]
      BY <1>1, <2>1 DEF ObserveRequest
    <2>3. QED
      BY <1>4, <2>2
  <1>6. w \in HttpRecord
    <2>1. [v EXCEPT !.measured = m] \in HttpRecord
      BY <1>3 DEF HttpRecord
    <2>2. QED
      BY <1>4, <2>1 DEF HttpRecord, Last
  <1>7. /\ w.at = "ended" /\ w.input = v.input /\ w.pattern = v.pattern /\ w.left = v.left
        /\ w.condition = v.condition /\ w.status = v.status /\ w.heads = v.heads
        /\ w.panicked = v.panicked /\ w.committed = v.committed /\ w.measured = m
        /\ w.raceLost = v.raceLost /\ w.wire = v.wire
    BY <1>4 DEF HttpRecord
  <1>8. HeadOK(w)
    BY <1>7 DEF HeadOK, Headless
  <1>9. PanicOK(w) /\ PatternOK(w)
    BY <1>7 DEF PanicOK, PatternOK, Headless, Last
  <1>10. EffectOK(w)
    BY <1>7 DEF EffectOK, Early, Last
  <1>11. RaceOK(w)
    BY <1>7 DEF RaceOK, Last
  <1>12. MeasureOK(w)
    BY <1>1, <1>2, <1>7 DEF MeasureOK
  <1>13. QED
    BY <1>5, <1>6, <1>8, <1>9, <1>10, <1>11, <1>12 DEF RequestOK

\* The deferred function of instrument as a whole.
LEMMA Returned ==
    ASSUME NEW v, RequestOK(v), v.at = "return"
    PROVE  RequestOK([ObserveRequest(Recovered(v), Recovered(v).status) EXCEPT !.at = "ended"])
  <1>0. v \in HttpRecord
    BY DEF RequestOK
  <1>1. PICK w : w = Recovered(v)
    OBVIOUS
  <1>2. CASE ~(v.panicked /\ v.status = 0)
    <2>1. PICK wire \in {"complete", "cut"} :
            w = [v EXCEPT !.wire = wire] /\ (v.panicked => wire = "cut")
      BY <1>1, <1>2 DEF Recovered
    <2>2. w \in HttpRecord
      BY <1>0, <2>1 DEF HttpRecord
    <2>3. /\ w.input = v.input /\ w.pattern = v.pattern /\ w.left = v.left
          /\ w.condition = v.condition /\ w.status = v.status /\ w.heads = v.heads
          /\ w.panicked = v.panicked /\ w.committed = v.committed /\ w.measured = v.measured
          /\ w.raceLost = v.raceLost /\ w.wire = wire
      BY <1>0, <2>1 DEF HttpRecord
    <2>4. /\ w.measured = <<>> /\ (w.heads = 0 <=> w.status = 0) /\ (w.heads = 0 => w.left)
          /\ (w.pattern \in Handlers => w.pattern = w.input.route)
      BY <1>2, <2>3 DEF RequestOK, HeadOK, PatternOK, MeasureOK
    <2>5. /\ (w.status \in Success /\ w.input.route \in Writes => w.committed)
          /\ (w.committed => w.status \in Success \cup {0, 500})
          /\ (w.condition = "seat_occupancy_live_uniq" => w.raceLost \/ w.left)
      BY <2>3 DEF RequestOK, EffectOK, RaceOK, Last
    <2>6. w.panicked /\ w.status \in Success => w.wire = "cut"
      BY <2>1, <2>3
    <2>7. QED
      BY <1>1, <2>2, <2>4, <2>5, <2>6, Measured
  <1>3. CASE v.panicked /\ v.status = 0
    <2>0. v.heads = 0 /\ 500 \in Statuses
      BY <1>3 DEF RequestOK, HeadOK, Statuses
    <2>1. PICK u : u = Problem(v, 500)
      OBVIOUS
    <2>2. /\ u \in HttpRecord /\ u.at = "return" /\ u.input = v.input /\ u.pattern = v.pattern
          /\ u.condition = v.condition /\ u.status = 500 /\ u.heads = 1
          /\ u.committed = v.committed /\ u.measured = v.measured
          /\ u.raceLost = v.raceLost /\ u.left = v.left
      BY <1>0, <1>3, <2>0, <2>1, HeadWritten
    <2>a. w = [u EXCEPT !.wire = "complete"]
      BY <1>1, <1>3, <2>1, Zenon DEF Recovered
    <2>b. w \in HttpRecord
      BY <2>2, <2>a DEF HttpRecord
    <2>3. /\ w.input = v.input /\ w.pattern = v.pattern /\ w.left = v.left
          /\ w.condition = v.condition /\ w.status = 500 /\ w.heads = 1
          /\ w.committed = v.committed /\ w.measured = v.measured
          /\ w.raceLost = v.raceLost
      BY <2>2, <2>a DEF HttpRecord
    <2>4. /\ w.measured = <<>> /\ (w.pattern \in Handlers => w.pattern = w.input.route)
      BY <2>3 DEF RequestOK, PatternOK, MeasureOK
    <2>5. w.condition = "seat_occupancy_live_uniq" => w.raceLost \/ w.left
      BY <2>3 DEF RequestOK, RaceOK, Last
    <2>6. w.status \notin Success /\ w.status = 500 /\ w.heads = 1
      BY <2>3 DEF Success
    <2>7. QED
      BY <1>1, <2>b, <2>4, <2>5, <2>6, Measured
  <1>4. QED
    BY <1>2, <1>3

\* The client leaves.
LEMMA Left ==
    ASSUME NEW v, RequestOK(v), v.at # "ended"
    PROVE  RequestOK([v EXCEPT !.left = TRUE])
  <1>1. PICK w : w = [v EXCEPT !.left = TRUE]
    OBVIOUS
  <1>2. v \in HttpRecord
    BY DEF RequestOK
  <1>3. w \in HttpRecord
    BY <1>1, <1>2 DEF HttpRecord
  <1>4. /\ w.at = v.at /\ w.input = v.input /\ w.pattern = v.pattern /\ w.left
        /\ w.condition = v.condition /\ w.status = v.status /\ w.heads = v.heads
        /\ w.panicked = v.panicked /\ w.committed = v.committed /\ w.measured = v.measured
        /\ w.raceLost = v.raceLost /\ w.err = v.err /\ w.wire = v.wire
    BY <1>1, <1>2 DEF HttpRecord
  <1>5. HeadOK(w) /\ PanicOK(w) /\ PatternOK(w)
    BY <1>4 DEF RequestOK, HeadOK, PanicOK, PatternOK
  <1>6. EffectOK(w) /\ RaceOK(w) /\ MeasureOK(w)
    BY <1>4 DEF RequestOK, EffectOK, RaceOK, MeasureOK
  <1>7. QED
    BY <1>1, <1>3, <1>5, <1>6 DEF RequestOK

\* A request arrives; and at first there is none.
LEMMA Arrived ==
    ASSUME NEW w, NEW input \in Inputs, NEW at \in {"none", "throttle"},
           (w = NewRequest(input) /\ at = "throttle") \/ w = [NewRequest(input) EXCEPT !.at = at]
    PROVE  RequestOK(w)
  <1>1. w = [at |-> at, input |-> input, pattern |-> "/v1/", err |-> {}, condition |-> "none",
             status |-> 0, heads |-> 0, wire |-> "open", left |-> FALSE, panicked |-> FALSE,
             committed |-> FALSE, raceLost |-> FALSE, measured |-> <<>>]
    BY DEF NewRequest
  <1>2. w \in HttpRecord
    <2>1. 0 \in Statuses /\ 0 \in 0 .. 1 /\ at \in Headless \cup {"body"} \cup Last
          /\ "none" \in Reported /\ <<>> \in Seq(Labels \X Statuses)
      BY DEF Statuses, Headless, Reported
    <2>2. QED
      BY <1>1, <2>1 DEF HttpRecord
  <1>3. HeadOK(w) /\ PanicOK(w) /\ MeasureOK(w)
    BY <1>1 DEF HeadOK, PanicOK, MeasureOK
  <1>4. PatternOK(w)
    BY <1>1 DEF PatternOK, Handlers, Writes
  <1>5. EffectOK(w) /\ RaceOK(w)
    BY <1>1 DEF EffectOK, RaceOK, Last
  <1>6. QED
    BY <1>2, <1>3, <1>4, <1>5 DEF RequestOK
-----------------------------------------------------------------------------
(* The requests                                                            *)

\* A step of one request leaves the others alone.
LEMMA OneGoes ==
    ASSUME HttpInv, NEW r \in Requests, NEW v, Goes(r, v), RequestOK(v)
    PROVE  HttpInv'
  <1>1. v \in HttpRecord
    BY DEF RequestOK
  <1>2. http' \in [Requests -> HttpRecord]
    BY <1>1 DEF Goes, HttpInv
  <1>3. \A q \in Requests : http'[q] = IF q = r THEN v ELSE http[q]
    BY DEF Goes, HttpInv
  <1>4. \A q \in Requests : RequestOK(http'[q])
    BY <1>3 DEF HttpInv
  <1>5. QED
    BY <1>2, <1>4 DEF HttpInv

LEMMA FailStep ==
    ASSUME HttpInv, NEW r \in Requests, NEW err \in SUBSET Sentinels, Fails(r, err),
           http[r].at \in {"handle", "call", "begin", "tx", "answer"},
           http[r].committed => err = {}
    PROVE  HttpInv'
  <1>1. PICK v : v = http[r]
    OBVIOUS
  <1>2. RequestOK(v) /\ v \in HttpRecord
    BY <1>1 DEF HttpInv
  <1>3. PICK condition \in Reported, committed \in BOOLEAN :
          condition = v.condition /\ condition = "none" /\ committed = v.committed
    BY <1>1, <1>2 DEF RequestOK, RaceOK, HttpRecord, Last
  <1>4. RequestOK([v EXCEPT !.at = "fail", !.err = err, !.condition = condition,
                            !.committed = committed])
    BY <1>1, <1>2, <1>3, Failed
  <1>5. [v EXCEPT !.at = "fail", !.err = err]
          = [v EXCEPT !.at = "fail", !.err = err, !.condition = condition, !.committed = committed]
    BY <1>2, <1>3 DEF HttpRecord
  <1>6. RequestOK([v EXCEPT !.at = "fail", !.err = err])
    BY <1>4, <1>5
  <1>7. QED
    BY <1>1, <1>6, OneGoes DEF Fails

LEMMA FailOnStep ==
    ASSUME HttpInv, NEW r \in Requests, NEW condition \in Reported, FailsOn(r, condition),
           http[r].at \in {"call", "begin", "tx"},
           condition = "seat_occupancy_live_uniq" => http[r].input.route = "createHold"
    PROVE  HttpInv'
  <1>1. PICK v : v = http[r]
    OBVIOUS
  <1>2. RequestOK(v) /\ v \in HttpRecord
    BY <1>1 DEF HttpInv
  <1>3. v.committed = FALSE
    BY <1>1, <1>2 DEF RequestOK, EffectOK, HttpRecord, Early
  <1>4. PICK err \in SUBSET Sentinels : err = ServiceError(v.input.route, condition)
    BY ErrorsKnown
  <1>5. condition = "seat_occupancy_live_uniq" => "store.ErrSeatRaceLost" \in err
    BY <1>1, <1>4, RaceInChain
  <1>6. RequestOK([v EXCEPT !.at = "fail", !.err = err, !.condition = condition,
                            !.committed = FALSE])
    BY <1>1, <1>2, <1>5, Failed
  <1>7. [v EXCEPT !.at = "fail", !.condition = condition, !.err = err]
          = [v EXCEPT !.at = "fail", !.err = err, !.condition = condition, !.committed = FALSE]
    BY <1>2, <1>3 DEF HttpRecord
  <1>8. Goes(r, [v EXCEPT !.at = "fail", !.condition = condition, !.err = err])
    BY <1>1, <1>4 DEF FailsOn
  <1>9. RequestOK([v EXCEPT !.at = "fail", !.condition = condition, !.err = err])
    BY <1>6, <1>7
  <1>10. QED
    BY <1>8, <1>9, OneGoes

\* throttle and route.
LEMMA EntryStep ==
    ASSUME HttpInv, NEW r \in Requests, Throttle(r) \/ Route(r)
    PROVE  HttpInv'
  <1>0. RequestOK(http[r]) /\ http[r] \in HttpRecord
    BY DEF HttpInv
  <1>1. {400, 404, 405, 429} \subseteq Statuses \ (Success \cup {0})
    BY DEF Statuses, Success
  <1>2. ASSUME http[r].at \in {"throttle", "route"}
        PROVE  /\ http[r].status = 0 /\ http[r].heads = 0 /\ http[r].measured = <<>>
               /\ ~http[r].panicked /\ ~http[r].committed /\ http[r].condition = "none"
               /\ http[r].pattern = "/v1/" /\ http[r].pattern \notin Handlers
    <2>1. http[r].status = 0 /\ http[r].heads = 0 /\ http[r].measured = <<>>
      BY <1>0, <1>2 DEF RequestOK, HeadOK, MeasureOK, Headless
    <2>2. ~http[r].panicked /\ ~http[r].committed /\ http[r].condition = "none"
      BY <1>0, <1>2 DEF RequestOK, PanicOK, EffectOK, RaceOK, Early, Last
    <2>3. http[r].pattern = "/v1/" /\ "/v1/" \notin Handlers
      BY <1>0, <1>2 DEF RequestOK, PatternOK, Handlers, Writes
    <2>4. QED
      BY <2>1, <2>2, <2>3
  <1>3. CASE Throttle(r)
    <2>1. http[r].at = "throttle"
      BY <1>3 DEF Throttle
    <2>2. ASSUME NEW status \in {400, 429} PROVE RequestOK(Problem(http[r], status))
      BY <1>0, <1>1, <1>2, <2>1, ProblemWritten
    <2>3. RequestOK([http[r] EXCEPT !.at = "route"])
      BY <1>0, <2>1, MovesOn
    <2>4. QED
      BY <1>3, <2>2, <2>3, OneGoes DEF Throttle
  <1>4. CASE Route(r)
    <2>1. http[r].at = "route"
      BY <1>4 DEF Route
    <2>a. PICK empty : empty = "" /\ empty \notin Handlers /\ empty \in Handlers \cup {"/v1/", ""}
      BY DEF Handlers, Writes
    <2>b. PICK v : v = [http[r] EXCEPT !.pattern = empty]
      OBVIOUS
    <2>2. ASSUME NEW status \in {404, 405} PROVE RequestOK(Problem(v, status))
      <3>1. v \in HttpRecord
        BY <1>0, <2>a, <2>b DEF HttpRecord
      <3>2. /\ v.status = http[r].status /\ v.heads = http[r].heads
            /\ v.measured = http[r].measured /\ v.panicked = http[r].panicked
            /\ v.committed = http[r].committed /\ v.condition = http[r].condition
            /\ v.pattern = empty
        BY <1>0, <2>b DEF HttpRecord
      <3>3. /\ http[r].status = 0 /\ http[r].heads = 0 /\ http[r].measured = <<>>
            /\ ~http[r].panicked /\ ~http[r].committed /\ http[r].condition = "none"
        BY <1>2, <2>1
      <3>4. /\ v.status = 0 /\ v.heads = 0 /\ v.measured = <<>> /\ ~v.panicked /\ ~v.committed
            /\ v.condition = "none"
        BY <3>2, <3>3
      <3>5. v.pattern \notin Handlers
        <4>1. v.pattern = empty
          BY <3>2
        <4>2. empty \notin Handlers
          BY <2>a
        <4>3. QED
          BY <4>1, <4>2
      <3>6. status \in Statuses \ (Success \cup {0})
        BY <1>1
      <3>7. QED
        BY <3>1, <3>4, <3>5, <3>6, ProblemWritten
    <2>3. http[r].input.route \in Handlers =>
            RequestOK([http[r] EXCEPT !.at = "handle", !.pattern = http[r].input.route])
      BY <1>0, <2>1, Routed
    <2>4. CASE http[r].input.route \in Handlers
      BY <1>4, <2>3, <2>4, OneGoes DEF Route
    <2>5. CASE http[r].input.route \notin Handlers
      <3>1. PICK status \in {404, 405} : Goes(r, Problem(v, status))
        BY <1>4, <2>5, <2>a, <2>b DEF Route
      <3>2. PICK w : Goes(r, w) /\ RequestOK(w)
        BY <2>2, <3>1
      <3>3. QED
        BY <3>2, OneGoes
    <2>6. QED
      BY <2>4, <2>5
  <1>5. QED
    BY <1>3, <1>4

\* The handler's checks and the service's calls outside a transaction.
LEMMA CallStep ==
    ASSUME HttpInv, NEW r \in Requests, Handle(r) \/ Read(r)
    PROVE  HttpInv'
  <1>0. RequestOK(http[r]) /\ http[r] \in HttpRecord
    BY DEF HttpInv
  <1>1. http[r].at \in {"handle", "call"} /\ ~http[r].committed /\ http[r].input.route \in Handlers
    <2>1. http[r].at \in {"handle", "call"}
      BY DEF Handle, Read
    <2>2. http[r].pattern = http[r].input.route /\ ~http[r].committed
      BY <1>0, <2>1 DEF RequestOK, PatternOK, EffectOK, Headless, Early
    <2>3. http[r].input \in Input
      BY <1>0, InputsAssumption DEF HttpRecord
    <2>4. http[r].input.route \in Handlers
      <3>1. "/v1/" \notin Handlers \cup Unmatched
        BY DEF Handlers, Writes, Unmatched
      <3>2. "" \notin Handlers \cup Unmatched
        BY DEF Handlers, Writes, Unmatched
      <3>3. http[r].input.route \in Handlers \cup Unmatched
        BY <2>3 DEF Input
      <3>4. http[r].pattern \in Handlers \cup {"/v1/", ""}
        BY <1>0 DEF HttpRecord
      <3>5. QED
        BY <2>2, <3>1, <3>2, <3>3, <3>4
    <2>5. QED
      BY <2>1, <2>2, <2>4
  <1>2. CASE Handle(r)
    <2>1. ASSUME NEW check PROVE {CheckProblem(check)} \in SUBSET Sentinels
      BY DEF CheckProblem, Sentinels
    <2>2. CASE Failing(http[r].input) # {}
      <3>1. PICK err \in SUBSET Sentinels : Fails(r, err)
        BY <1>2, <2>1, <2>2 DEF Handle
      <3>2. QED
        BY <1>1, <3>1, FailStep
    <2>3. CASE Failing(http[r].input) = {}
      <3>1. http[r].at = "handle" /\ Goes(r, [http[r] EXCEPT !.at = "call"])
        BY <1>2, <2>3 DEF Handle
      <3>2. RequestOK([http[r] EXCEPT !.at = "call"])
        BY <1>0, <3>1, MovesOn
      <3>3. QED
        BY <3>1, <3>2, OneGoes
    <2>4. QED
      BY <2>2, <2>3
  <1>3. CASE Read(r)
    <2>0. http[r].at = "call"
      BY <1>3 DEF Read
    <2>1. ASSUME NEW err \in Refusals(http[r].input.route), Fails(r, {err}) PROVE HttpInv'
      <3>1. {err} \in SUBSET Sentinels
        BY <1>1, RefusalsKnown
      <3>2. QED
        BY <1>1, <2>1, <3>1, FailStep
    <2>2. ASSUME NEW condition \in Conditions(http[r].input.route), FailsOn(r, condition)
          PROVE  HttpInv'
      <3>1. condition \in Reported /\ (condition = "seat_occupancy_live_uniq" =>
                                         http[r].input.route = "createHold")
        BY ConditionsKnown
      <3>2. QED
        BY <2>0, <2>2, <3>1, FailOnStep
    <2>3. ASSUME Goes(r, [http[r] EXCEPT !.at =
                            IF http[r].input.route \in Writes THEN "begin" ELSE "answer"])
          PROVE  HttpInv'
      <3>1. PICK at : at = IF http[r].input.route \in Writes THEN "begin" ELSE "answer"
        OBVIOUS
      <3>2. RequestOK([http[r] EXCEPT !.at = at])
        BY <1>0, <2>0, <3>1, MovesOn
      <3>3. Goes(r, [http[r] EXCEPT !.at = at])
        BY <2>3, <3>1
      <3>4. QED
        BY <3>2, <3>3, OneGoes
    <2>4. QED
      BY <1>3, <2>1, <2>2, <2>3 DEF Read
  <1>4. QED
    BY <1>2, <1>3

\* The transaction of a write.
LEMMA TxStep ==
    ASSUME HttpInv, NEW r \in Requests, Lock(r) \/ NoLock(r) \/ Rollback(r) \/ Commit(r)
    PROVE  HttpInv'
  <1>0. RequestOK(http[r]) /\ http[r] \in HttpRecord
    BY DEF HttpInv
  <1>1. /\ http[r].at \in {"begin", "tx"} /\ ~http[r].committed
        /\ http[r].input.route \in Writes /\ http[r].input.route \in Handlers
    BY <1>0 DEF Lock, NoLock, Rollback, Commit, RequestOK, EffectOK, Early, Handlers
  <1>2. {"lock_not_available", "connection", "query_canceled"} \subseteq Reported
    BY DEF Reported
  <1>3. CASE Lock(r)
    <2>1. http[r].at = "begin" /\ Goes(r, [http[r] EXCEPT !.at = "tx"])
      BY <1>3 DEF Lock
    <2>2. RequestOK([http[r] EXCEPT !.at = "tx"])
      BY <1>0, <2>1, MovesOn
    <2>3. QED
      BY <2>1, <2>2, OneGoes
  <1>4. CASE NoLock(r)
    <2>1. FailsOn(r, "lock_not_available") \/ FailsOn(r, "connection")
      BY <1>4 DEF NoLock
    <2>2. QED
      BY <1>1, <1>2, <2>1, FailOnStep
  <1>5. CASE Rollback(r)
    <2>1. ASSUME NEW err \in TxRefusals(http[r].input.route), Fails(r, {err}) PROVE HttpInv'
      <3>1. {err} \in SUBSET Sentinels
        BY <1>1, RefusalsKnown
      <3>2. QED
        BY <1>1, <2>1, <3>1, FailStep
    <2>2. ASSUME NEW condition \in Conditions(http[r].input.route), FailsOn(r, condition)
          PROVE  HttpInv'
      <3>1. condition \in Reported /\ (condition = "seat_occupancy_live_uniq" =>
                                         http[r].input.route = "createHold")
        BY ConditionsKnown
      <3>2. QED
        BY <1>1, <2>2, <3>1, FailOnStep
    <2>3. QED
      BY <1>5, <2>1, <2>2 DEF Rollback
  <1>6. CASE Commit(r)
    <2>0. http[r].at = "tx"
      BY <1>6 DEF Commit
    <2>1. CASE Goes(r, [http[r] EXCEPT !.at = "answer", !.committed = TRUE])
      BY <1>0, <2>0, <2>1, Committed, OneGoes
    <2>2. CASE Goes(r, [http[r] EXCEPT !.at = "fail", !.committed = TRUE,
                          !.err = ServiceError(http[r].input.route, "connection")])
      <3>1. PICK v : v = http[r]
        OBVIOUS
      <3>2. PICK err \in SUBSET Sentinels : err = {}
        OBVIOUS
      <3>3. PICK condition \in Reported : condition = v.condition /\ condition = "none"
        BY <1>0, <2>0, <3>1 DEF RequestOK, RaceOK, HttpRecord, Last
      <3>4. RequestOK([v EXCEPT !.at = "fail", !.err = err, !.condition = condition,
                                !.committed = TRUE])
        BY <1>0, <2>0, <3>1, <3>2, <3>3, Failed
      <3>5. [v EXCEPT !.at = "fail", !.committed = TRUE, !.err = err]
              = [v EXCEPT !.at = "fail", !.err = err, !.condition = condition, !.committed = TRUE]
        BY <1>0, <3>1, <3>3 DEF HttpRecord
      <3>6. Goes(r, [v EXCEPT !.at = "fail", !.committed = TRUE, !.err = err])
        BY <2>2, <3>1, <3>2, NothingKnown
      <3>7. RequestOK([v EXCEPT !.at = "fail", !.committed = TRUE, !.err = err])
        BY <3>4, <3>5
      <3>8. QED
        BY <3>6, <3>7, OneGoes
    <2>3. ASSUME NEW condition \in {"query_canceled", "connection"}, FailsOn(r, condition)
          PROVE  HttpInv'
      BY <1>1, <1>2, <2>3, FailOnStep
    <2>4. QED
      BY <1>6, <2>1, <2>2, <2>3 DEF Commit
  <1>7. QED
    BY <1>3, <1>4, <1>5, <1>6

\* The answer, or fail's problem.
LEMMA AnswerStep ==
    ASSUME HttpInv, NEW r \in Requests, Answer(r) \/ WriteBody(r) \/ Fail(r)
    PROVE  HttpInv'
  <1>0. RequestOK(http[r]) /\ http[r] \in HttpRecord
    BY DEF HttpInv
  <1>1. CASE Answer(r)
    <2>0. http[r].at = "answer"
      BY <1>1 DEF Answer
    <2>1. CASE Goes(r, WriteHeader(http[r], SuccessStatus(http[r].input.route)))
      BY <1>0, <2>0, <2>1, Answered, OneGoes
    <2>2. CASE Fails(r, {})
      <3>1. {} \in SUBSET Sentinels
        OBVIOUS
      <3>2. QED
        BY <2>0, <2>2, <3>1, FailStep
    <2>3. QED
      BY <1>1, <2>1, <2>2 DEF Answer
  <1>2. CASE WriteBody(r)
    <2>1. http[r].at = "body" /\ Goes(r, [http[r] EXCEPT !.at = "return"])
      BY <1>2 DEF WriteBody
    <2>2. RequestOK([http[r] EXCEPT !.at = "return"])
      BY <1>0, <2>1, MovesOn
    <2>3. QED
      BY <2>1, <2>2, OneGoes
  <1>3. CASE Fail(r)
    <2>0. http[r].at = "fail"
      BY <1>3 DEF Fail
    <2>1. CASE http[r].left
      <3>1. Goes(r, [http[r] EXCEPT !.at = "return"])
        BY <1>3, <2>1 DEF Fail
      <3>2. RequestOK([http[r] EXCEPT !.at = "return"])
        BY <1>0, <2>0, <2>1, NobodyThere
      <3>3. QED
        BY <3>1, <3>2, OneGoes
    <2>2. CASE ~http[r].left
      <3>1. PICK v : v = http[r]
        OBVIOUS
      <3>2. PICK status \in Statuses \ (Success \cup {0}) : status = ProblemFor(v.err)
        BY ProblemIsNoSuccess
      <3>3. PICK race \in BOOLEAN : race = ("store.ErrSeatRaceLost" \in v.err)
        <4>1. ("store.ErrSeatRaceLost" \in v.err) \in BOOLEAN
          OBVIOUS
        <4>2. QED
          BY <4>1, Zenon
      <3>4. PICK u : u = Problem(v, status)
        OBVIOUS
      <3>5. v \in HttpRecord /\ v.status = 0 /\ v.heads = 0
        BY <1>0, <2>0, <3>1 DEF RequestOK, HeadOK, Headless
      <3>6. PICK v2 : v2 = [v EXCEPT !.raceLost = race]
        OBVIOUS
      <3>7. [u EXCEPT !.raceLost = race] = Problem(v2, status)
        BY <3>4, <3>5, <3>6 DEF Problem, WriteHeader, HttpRecord
      <3>8. v2 \in HttpRecord
        BY <3>5, <3>6 DEF HttpRecord
      <3>9. /\ v2.status = 0 /\ v2.heads = 0 /\ v2.measured = v.measured
            /\ v2.panicked = v.panicked /\ v2.pattern = v.pattern /\ v2.input = v.input
            /\ v2.committed = v.committed /\ v2.condition = v.condition /\ v2.raceLost = race
        BY <3>5, <3>6 DEF HttpRecord
      <3>10. v.measured = <<>> /\ (v.pattern \in Handlers => v.pattern = v.input.route)
        BY <1>0, <2>0, <3>1 DEF RequestOK, MeasureOK, PatternOK
      <3>11. ~v.panicked /\ (v.committed => v.err = {})
        BY <1>0, <2>0, <3>1 DEF RequestOK, PanicOK, EffectOK, Last
      <3>12. v.condition = "seat_occupancy_live_uniq" => race
        BY <1>0, <2>0, <3>1, <3>3 DEF RequestOK, RaceOK
      <3>13. v.committed => status = 500
        BY <3>2, <3>11, UnknownIs500
      <3>14. RequestOK(Problem(v2, status))
        BY <3>8, <3>9, <3>10, <3>11, <3>12, <3>13, ProblemWritten
      <3>15. Goes(r, [u EXCEPT !.raceLost = race])
        BY <1>3, <2>2, <3>1, <3>2, <3>3, <3>4 DEF Fail
      <3>16. QED
        BY <3>7, <3>14, <3>15, OneGoes
    <2>3. QED
      BY <2>1, <2>2
  <1>4. QED
    BY <1>1, <1>2, <1>3

\* Every step of a request keeps what is true of the requests.
LEMMA HttpStep ==
    ASSUME HttpInv, NEW r \in Requests, Arrive(r) \/ Serve(r) \/ Panic(r) \/ Leave(r)
    PROVE  HttpInv'
  <1>0. RequestOK(http[r]) /\ http[r] \in HttpRecord
    BY DEF HttpInv
  <1>1. CASE Arrive(r)
    <2>1. PICK input \in Inputs : Goes(r, NewRequest(input))
      BY <1>1 DEF Arrive
    <2>2. RequestOK(NewRequest(input))
      BY Arrived
    <2>3. QED
      BY <2>1, <2>2, OneGoes
  <1>2. CASE Return(r)
    <2>1. PICK v : v = http[r]
      OBVIOUS
    <2>2. /\ v.at = "return"
          /\ Goes(r, [ObserveRequest(Recovered(v), Recovered(v).status) EXCEPT !.at = "ended"])
      BY <1>2, <2>1 DEF Return
    <2>3. RequestOK([ObserveRequest(Recovered(v), Recovered(v).status) EXCEPT !.at = "ended"])
      BY <1>0, <2>1, <2>2, Returned
    <2>4. QED
      BY <2>2, <2>3, OneGoes
  <1>3. CASE Panic(r)
    <2>1. /\ http[r].at \in {"handle", "call", "tx", "answer", "body"}
          /\ Goes(r, [http[r] EXCEPT !.at = "return", !.panicked = TRUE])
      BY <1>3 DEF Panic
    <2>2. RequestOK([http[r] EXCEPT !.at = "return", !.panicked = TRUE])
      BY <1>0, <2>1, Panicked
    <2>3. QED
      BY <2>1, <2>2, OneGoes
  <1>4. CASE Leave(r)
    <2>1. http[r].at # "ended" /\ Goes(r, [http[r] EXCEPT !.left = TRUE])
      BY <1>4 DEF Leave
    <2>2. RequestOK([http[r] EXCEPT !.left = TRUE])
      BY <1>0, <2>1, Left
    <2>3. QED
      BY <2>1, <2>2, OneGoes
  <1>5. QED
    BY <1>1, <1>2, <1>3, <1>4, EntryStep, CallStep, TxStep, AnswerStep DEF Serve
-----------------------------------------------------------------------------
(* The locks                                                               *)

Owners == Requests \cup {Sweeper}

LEMMA OwnersAreReal == None \notin Owners /\ Sweeper \notin Requests
  BY InputsAssumption, SweepAssumption, OwnersAssumption DEF Owners

\* COMMIT, ROLLBACK or the end of a session gives back what p owns, and only that.
LEMMA EndTxFrees ==
    ASSUME LockInv, NEW p \in Owners, EndTx(p)
    PROVE  /\ lock' \in [Showtimes -> Requests \cup {Sweeper, None}]
           /\ Owned(p)' = {}
           /\ \A q \in Owners \ {p} : Owned(q)' = Owned(q)
  <1>0. \A s \in Showtimes : lock'[s] = IF lock[s] = p THEN None ELSE lock[s]
    BY DEF EndTx
  <1>1. lock' \in [Showtimes -> Requests \cup {Sweeper, None}]
    BY DEF EndTx, LockInv
  <1>2. Owned(p)' = {}
    BY <1>0, OwnersAreReal DEF Owned
  <1>3. ASSUME NEW q \in Owners \ {p} PROVE Owned(q)' = Owned(q)
    <2>1. \A s \in Showtimes : lock'[s] = q <=> lock[s] = q
      BY <1>0, OwnersAreReal
    <2>2. QED
      BY <2>1 DEF Owned
  <1>4. QED
    BY <1>1, <1>2, <1>3

\* A lock that is free goes to p, who has no other.
LEMMA LockTakes ==
    ASSUME LockInv, NEW p \in Owners, NEW s \in Showtimes, LockShowtime(p, s), Owned(p) = {}
    PROVE  /\ lock' \in [Showtimes -> Requests \cup {Sweeper, None}]
           /\ OwnsOne(p)'
           /\ \A q \in Owners \ {p} : Owned(q)' = Owned(q)
  <1>0. /\ \A x \in Showtimes : lock'[x] = IF x = s THEN p ELSE lock[x]
        /\ lock[s] = None
    BY DEF LockShowtime, LockInv
  <1>1. lock' \in [Showtimes -> Requests \cup {Sweeper, None}]
    BY DEF LockShowtime, LockInv, Owners
  <1>2. Owned(p)' = {s}
    <2>1. \A x \in Showtimes : lock'[x] = p <=> x = s
      BY <1>0 DEF Owned
    <2>2. QED
      BY <2>1 DEF Owned
  <1>3. ASSUME NEW q \in Owners \ {p} PROVE Owned(q)' = Owned(q)
    <2>1. \A x \in Showtimes : lock'[x] = q <=> lock[x] = q
      BY <1>0, OwnersAreReal
    <2>2. QED
      BY <2>1 DEF Owned
  <1>4. QED
    BY <1>1, <1>2, <1>3 DEF OwnsOne

\* Who takes part in a step: everybody else is where he was and owns what he
\* owned.
LEMMA OthersOwn ==
    ASSUME LockInv, NEW p \in Owners, NEW inTx \in BOOLEAN,
           lock' \in [Showtimes -> Requests \cup {Sweeper, None}],
           \A q \in Owners \ {p} : Owned(q)' = Owned(q),
           \A r \in Requests \ {p} : http'[r].at = http[r].at,
           p # Sweeper => sweep'.at = sweep.at /\ inTx = (http'[p].at = "tx"),
           p = Sweeper => inTx = (sweep'.at \in {"reclaim", "commit"}),
           IF inTx THEN OwnsOne(p)' ELSE Owned(p)' = {}
    PROVE  LockInv'
  <1>1. ASSUME NEW r \in Requests
        PROVE  IF http'[r].at = "tx" THEN OwnsOne(r)' ELSE Owned(r)' = {}
    <2>1. CASE r = p
      <3>1. p # Sweeper
        BY <2>1, OwnersAreReal
      <3>2. inTx <=> http'[r].at = "tx"
        BY <2>1, <3>1
      <3>3. QED
        BY <2>1, <3>2
    <2>2. CASE r # p
      <3>1. Owned(r)' = Owned(r) /\ http'[r].at = http[r].at
        BY <2>2 DEF Owners
      <3>2. IF http[r].at = "tx" THEN OwnsOne(r) ELSE Owned(r) = {}
        BY DEF LockInv
      <3>3. QED
        BY <3>1, <3>2 DEF OwnsOne
    <2>3. QED
      BY <2>1, <2>2
  <1>2. IF sweep'.at \in {"reclaim", "commit"} THEN OwnsOne(Sweeper)' ELSE Owned(Sweeper)' = {}
    <2>1. CASE p = Sweeper
      <3>1. inTx <=> sweep'.at \in {"reclaim", "commit"}
        BY <2>1
      <3>2. QED
        BY <2>1, <3>1
    <2>2. CASE p # Sweeper
      <3>1. Owned(Sweeper)' = Owned(Sweeper) /\ sweep'.at = sweep.at
        BY <2>2 DEF Owners
      <3>2. IF sweep.at \in {"reclaim", "commit"} THEN OwnsOne(Sweeper) ELSE Owned(Sweeper) = {}
        BY DEF LockInv
      <3>3. QED
        BY <3>1, <3>2 DEF OwnsOne
    <2>3. QED
      BY <2>1, <2>2
  <1>3. QED
    BY <1>1, <1>2 DEF LockInv

\* A step of a request moves that request only.
LEMMA OneMoves ==
    ASSUME HttpInv, NEW r \in Requests, Arrive(r) \/ Serve(r) \/ Panic(r) \/ Leave(r)
    PROVE  \E v : http' = [http EXCEPT ![r] = v]
  <1>1. CASE Throttle(r) \/ Route(r) \/ Handle(r) \/ Arrive(r) \/ Leave(r) \/ Panic(r)
    BY <1>1 DEF Throttle, Route, Handle, Arrive, Leave, Panic, Fails, Goes
  <1>2. CASE Read(r) \/ Lock(r) \/ NoLock(r)
    BY <1>2 DEF Read, Lock, NoLock, Fails, FailsOn, Goes
  <1>3. CASE Rollback(r) \/ Commit(r)
    BY <1>3 DEF Rollback, Commit, Fails, FailsOn, Goes
  <1>4. CASE Answer(r) \/ WriteBody(r) \/ Fail(r) \/ Return(r)
    BY <1>4 DEF Answer, WriteBody, Fail, Return, Fails, Goes
  <1>5. QED
    BY <1>1, <1>2, <1>3, <1>4 DEF Serve

\* After a problem nothing is left but to return.
LEMMA ProblemReturns ==
    ASSUME NEW v \in HttpRecord, NEW status
    PROVE  /\ Problem(v, status).at = "return"
           /\ \A race : [Problem(v, status) EXCEPT !.raceLost = race].at = "return"
  <1>1. PICK w : w = WriteHeader(v, status)
    OBVIOUS
  <1>2. DOMAIN w = DOMAIN v /\ "at" \in DOMAIN v /\ "raceLost" \in DOMAIN v
    BY <1>1 DEF WriteHeader, HttpRecord
  <1>3. Problem(v, status) = [w EXCEPT !.at = "return"]
    BY <1>1 DEF Problem
  <1>4. QED
    BY <1>2, <1>3

\* Where the step leads, outside the transaction.
LEMMA QuietMoves ==
    ASSUME HttpInv, NEW r \in Requests,
           \/ Arrive(r) \/ Throttle(r) \/ Route(r) \/ Handle(r) \/ Read(r) \/ NoLock(r)
           \/ Answer(r) \/ WriteBody(r) \/ Fail(r) \/ Return(r) \/ Leave(r)
    PROVE  lock' = lock /\ lapsed' = lapsed /\ (http'[r].at = "tx" <=> http[r].at = "tx")
  <1>0. http \in [Requests -> HttpRecord] /\ http[r] \in HttpRecord
    BY DEF HttpInv
  <1>1. CASE Arrive(r)
    BY <1>0, <1>1 DEF Arrive, Goes, NewRequest, shared
  <1>2. CASE Throttle(r)
    <2>1. PICK v : Goes(r, v) /\ v.at \in {"return", "route"}
      <3>1. [http[r] EXCEPT !.at = "route"].at = "route"
        BY <1>0 DEF HttpRecord
      <3>2. Problem(http[r], 400).at = "return" /\ Problem(http[r], 429).at = "return"
        BY <1>0, ProblemReturns
      <3>3. \/ Goes(r, Problem(http[r], 400)) \/ Goes(r, Problem(http[r], 429))
            \/ Goes(r, [http[r] EXCEPT !.at = "route"])
        BY <1>2 DEF Throttle
      <3>4. PICK u, v, w : /\ u = Problem(http[r], 400) /\ v = Problem(http[r], 429)
                           /\ w = [http[r] EXCEPT !.at = "route"]
        OBVIOUS
      <3>5. Goes(r, u) \/ Goes(r, v) \/ Goes(r, w)
        BY <3>3, <3>4
      <3>6. u.at = "return" /\ v.at = "return" /\ w.at = "route"
        BY <3>1, <3>2, <3>4
      <3>7. QED
        BY <3>5, <3>6
    <2>2. QED
      BY <1>0, <1>2, <2>1 DEF Throttle, Goes, shared
  <1>3. CASE Route(r)
    <2>1. PICK v : Goes(r, v) /\ v.at \in {"return", "handle"}
      <3>1. CASE http[r].input.route \in Handlers
        <4>1. PICK v : v = [http[r] EXCEPT !.at = "handle", !.pattern = http[r].input.route]
          OBVIOUS
        <4>2. v.at = "handle"
          BY <1>0, <4>1 DEF HttpRecord
        <4>3. QED
          BY <1>3, <3>1, <4>1, <4>2 DEF Route
      <3>2. CASE http[r].input.route \notin Handlers
        <4>1. PICK u \in HttpRecord : \E status : Goes(r, Problem(u, status))
          <5>1. PICK empty \in {""} :
                  \E status : Goes(r, Problem([http[r] EXCEPT !.pattern = empty], status))
            BY <1>3, <3>2 DEF Route
          <5>2. [http[r] EXCEPT !.pattern = empty] \in HttpRecord
            BY <1>0 DEF HttpRecord
          <5>3. QED
            BY <5>1, <5>2
        <4>2. PICK status : Goes(r, Problem(u, status))
          BY <4>1
        <4>3. Problem(u, status).at = "return"
          BY ProblemReturns
        <4>4. QED
          BY <4>2, <4>3
      <3>3. QED
        BY <3>1, <3>2
    <2>2. QED
      BY <1>0, <1>3, <2>1 DEF Route, Goes, shared
  <1>4. CASE Handle(r) \/ NoLock(r)
    BY <1>0, <1>4 DEF Handle, NoLock, Goes, Fails, FailsOn, HttpRecord, shared
  <1>5. CASE Read(r)
    BY <1>0, <1>5 DEF Read, Goes, Fails, FailsOn, HttpRecord, shared
  <1>6. CASE Answer(r) \/ WriteBody(r)
    <2>1. \A a, b, c : [http[r] EXCEPT !.status = a, !.heads = b, !.at = c].at = c
      BY <1>0 DEF HttpRecord
    <2>2. \A e : [http[r] EXCEPT !.at = "fail", !.err = e].at = "fail"
      BY <1>0 DEF HttpRecord
    <2>3. [http[r] EXCEPT !.at = "return"].at = "return"
      BY <1>0 DEF HttpRecord
    <2>4. WriteHeader(http[r], SuccessStatus(http[r].input.route)).at \in {"return", "body"}
      BY <2>1 DEF WriteHeader
    <2>5. \E v : Goes(r, v) /\ v.at \in {"return", "body", "fail"}
      BY <1>6, <2>2, <2>3, <2>4 DEF Answer, WriteBody, Fails
    <2>6. QED
      BY <1>0, <1>6, <2>5 DEF Answer, WriteBody, Goes, shared
  <1>7. CASE Fail(r)
    <2>1. PICK v : Goes(r, v) /\ v.at = "return"
      <3>1. CASE http[r].left
        <4>1. [http[r] EXCEPT !.at = "return"].at = "return"
          BY <1>0 DEF HttpRecord
        <4>2. QED
          BY <1>7, <3>1, <4>1 DEF Fail
      <3>2. CASE ~http[r].left
        BY <1>0, <1>7, <3>2, ProblemReturns DEF Fail
      <3>3. QED
        BY <3>1, <3>2
    <2>2. QED
      BY <1>0, <1>7, <2>1 DEF Fail, Goes, shared
  <1>8. CASE Return(r)
    <2>1. PICK v : http' = [http EXCEPT ![r] = [v EXCEPT !.at = "ended"]]
                   /\ [v EXCEPT !.at = "ended"] \in HttpRecord
      <3>1. PICK v : http' = [http EXCEPT ![r] = [v EXCEPT !.at = "ended"]]
        BY <1>8 DEF Return, Goes
      <3>2. http'[r] = [v EXCEPT !.at = "ended"]
        BY <1>0, <3>1
      <3>3. http' \in [Requests -> HttpRecord]
        BY <1>8, HttpStep DEF Serve, HttpInv
      <3>4. QED
        BY <3>1, <3>2, <3>3
    <2>2. http'[r].at = "ended"
      BY <1>0, <2>1 DEF HttpRecord
    <2>3. QED
      BY <1>8, <2>2 DEF Return, shared
  <1>9. CASE Leave(r)
    BY <1>0, <1>9 DEF Leave, Goes, HttpRecord, shared
  <1>10. QED
    BY <1>1, <1>2, <1>3, <1>4, <1>5, <1>6, <1>7, <1>8, <1>9

\* A transaction ends where its lock is given back.
LEMMA TxEnds ==
    ASSUME HttpInv, NEW r \in Requests, Rollback(r) \/ Commit(r) \/ Panic(r)
    PROVE  EndTx(r) /\ http'[r].at # "tx" /\ (lapsed' = lapsed \/ lapsed' \in Reclaimed(r))
  <1>0. http \in [Requests -> HttpRecord] /\ http[r] \in HttpRecord
    BY DEF HttpInv
  <1>1. CASE Rollback(r)
    BY <1>0, <1>1 DEF Rollback, Goes, Fails, FailsOn, HttpRecord
  <1>2. CASE Commit(r)
    <2>1. \E v : Goes(r, v) /\ v.at \in {"answer", "fail"}
      <3>1. [http[r] EXCEPT !.at = "answer", !.committed = TRUE].at = "answer"
        BY <1>0 DEF HttpRecord
      <3>2. \A e : [http[r] EXCEPT !.at = "fail", !.committed = TRUE, !.err = e].at = "fail"
        BY <1>0 DEF HttpRecord
      <3>3. \A c, e : [http[r] EXCEPT !.at = "fail", !.condition = c, !.err = e].at = "fail"
        BY <1>0 DEF HttpRecord
      <3>4. PICK e : e = ServiceError(http[r].input.route, "connection")
        OBVIOUS
      <3>5. \/ Goes(r, [http[r] EXCEPT !.at = "answer", !.committed = TRUE])
            \/ Goes(r, [http[r] EXCEPT !.at = "fail", !.committed = TRUE, !.err = e])
            \/ \E c : FailsOn(r, c)
        BY <1>2, <3>4 DEF Commit
      <3>6. CASE Goes(r, [http[r] EXCEPT !.at = "answer", !.committed = TRUE])
        BY <3>1, <3>6
      <3>7. CASE Goes(r, [http[r] EXCEPT !.at = "fail", !.committed = TRUE, !.err = e])
        BY <3>2, <3>7
      <3>8. CASE \E c : FailsOn(r, c)
        BY <3>3, <3>8 DEF FailsOn
      <3>9. QED
        BY <3>5, <3>6, <3>7, <3>8
    <2>2. http'[r].at # "tx"
      BY <1>0, <2>1 DEF Goes
    <2>3. lapsed' = lapsed \/ lapsed' \in Reclaimed(r)
      BY <1>2 DEF Commit
    <2>4. QED
      BY <1>2, <2>2, <2>3 DEF Commit
  <1>3. CASE Panic(r)
    BY <1>0, <1>3 DEF Panic, Goes, HttpRecord
  <1>4. QED
    BY <1>1, <1>2, <1>3

\* A step of a request keeps every lock with its owner.
LEMMA HttpLocks ==
    ASSUME HttpInv, LockInv, UNCHANGED sweepVars,
           NEW r \in Requests, Arrive(r) \/ Serve(r) \/ Panic(r) \/ Leave(r)
    PROVE  LockInv'
  <1>0. sweep' = sweep /\ r \in Owners /\ r # Sweeper /\ http \in [Requests -> HttpRecord]
    BY OwnersAreReal DEF sweepVars, Owners, HttpInv
  <1>1. \A q \in Requests \ {r} : http'[q].at = http[q].at
    BY <1>0, OneMoves
  <1>2. CASE lock' = lock /\ lapsed' = lapsed /\ (http'[r].at = "tx" <=> http[r].at = "tx")
    <2>1. lock' \in [Showtimes -> Requests \cup {Sweeper, None}]
      BY <1>2 DEF LockInv
    <2>2. \A q \in Owners : Owned(q)' = Owned(q) /\ (OwnsOne(q)' <=> OwnsOne(q))
      BY <1>2 DEF Owned, OwnsOne
    <2>3. IF http'[r].at = "tx" THEN OwnsOne(r)' ELSE Owned(r)' = {}
      BY <1>0, <1>2, <2>2 DEF LockInv
    <2>4. PICK inTx \in BOOLEAN : inTx = (http'[r].at = "tx")
      OBVIOUS
    <2>5. QED
      BY <1>0, <1>1, <1>2, <2>1, <2>2, <2>3, <2>4, OthersOwn
  <1>3. CASE Lock(r)
    <2>1. PICK s \in Showtimes : LockShowtime(r, s)
      BY <1>3 DEF Lock
    <2>2. Owned(r) = {}
      BY <1>3 DEF Lock, LockInv
    <2>3. http'[r].at = "tx"
      BY <1>0, <1>3 DEF Lock, Goes, HttpRecord
    <2>4. /\ lock' \in [Showtimes -> Requests \cup {Sweeper, None}]
          /\ OwnsOne(r)' /\ \A q \in Owners \ {r} : Owned(q)' = Owned(q)
      BY <1>0, <2>1, <2>2, LockTakes
    <2>5. QED
      BY <1>0, <1>1, <1>3, <2>3, <2>4, OthersOwn DEF Lock
  <1>4. CASE Rollback(r) \/ Commit(r) \/ Panic(r)
    <2>1. EndTx(r) /\ http'[r].at # "tx"
      BY <1>4, TxEnds
    <2>2. /\ lock' \in [Showtimes -> Requests \cup {Sweeper, None}]
          /\ Owned(r)' = {} /\ \A q \in Owners \ {r} : Owned(q)' = Owned(q)
      BY <1>0, <2>1, EndTxFrees
    <2>3. QED
      BY <1>0, <1>1, <2>1, <2>2, OthersOwn
  <1>5. QED
    BY <1>2, <1>3, <1>4, QuietMoves DEF Serve
-----------------------------------------------------------------------------
(* The sweep loop                                                          *)

SweepPlaces == {"waiting", "list", "next", "begin", "reclaim", "commit", "observe", "done"}

\* In the order of their ids, a finite set of showtimes has a first, a second,
\* ... and a last one: ListShowtimes' CHOOSE finds what it looks for.
LEMMA Ranked ==
    ASSUME NEW D \in SUBSET Nat, IsFiniteSet(D), NEW i \in 1 .. Cardinality(D)
    PROVE  \E s \in D : Cardinality({x \in D : x < s}) = i - 1
  <1> DEFINE Below(s) == {x \in D : x < s}
             rank == [s \in D |-> Cardinality(Below(s))]
  <1>0. PICK n \in Nat : n = Cardinality(D)
    BY FS_CardinalityType
  <1>1. ASSUME NEW s \in D
        PROVE  IsFiniteSet(Below(s)) /\ Cardinality(Below(s)) \in 0 .. n - 1
    <2>1. Below(s) \in SUBSET D /\ Below(s) # D
      OBVIOUS
    <2>2. IsFiniteSet(Below(s)) /\ Cardinality(Below(s)) <= n /\ Cardinality(Below(s)) # n
      BY <1>0, <2>1, FS_Subset
    <2>3. Cardinality(Below(s)) \in Nat
      BY <2>2, FS_CardinalityType
    <2>4. QED
      BY <2>2, <2>3
  <1>2. ASSUME NEW s \in D, NEW t \in D, s < t
        PROVE  Cardinality(Below(s)) # Cardinality(Below(t))
    <2>0. \A x \in D : x < s => x < t
      BY <1>2
    <2>1. Below(s) \in SUBSET Below(t)
      BY <2>0
    <2>2. s \in Below(t) /\ s \notin Below(s)
      BY <1>2
    <2>3. QED
      BY <1>1, <2>1, <2>2, FS_Subset
  <1>3. rank \in [D -> 0 .. n - 1]
    BY <1>1
  <1>4. ASSUME NEW s \in D, NEW t \in D, rank[s] = rank[t]
        PROVE  s = t
    <2>1. s < t \/ t < s \/ s = t
      OBVIOUS
    <2>2. Cardinality(Below(s)) = Cardinality(Below(t))
      BY <1>4
    <2>3. QED
      BY <1>2, <2>1, <2>2
  <1>5. rank \in Injection(D, 0 .. n - 1)
    BY <1>3, <1>4 DEF Injection, IsInjective
  <1>6. IsFiniteSet(0 .. n - 1) /\ Cardinality(0 .. n - 1) = n
    BY FS_Interval
  <1>7. rank \in Surjection(D, 0 .. n - 1)
    BY <1>0, <1>5, <1>6, FS_Injection
  <1>8. i - 1 \in 0 .. n - 1
    BY <1>0
  <1>9. QED
    BY <1>7, <1>8 DEF Surjection

LEMMA Listed ==
    ASSUME NEW S, NEW n \in Nat, NEW f \in [1 .. n -> S]
    PROVE  f \in Seq(S) /\ Len(f) = n
  <1>1. f \in Seq(S)
    BY SeqDef
  <1>2. DOMAIN f = 1 .. Len(f) /\ Len(f) \in Nat
    BY <1>1, LenProperties
  <1>3. QED
    BY <1>1, <1>2

\* The list is one of showtimes, and no longer than a batch.
LEMMA ListIsBatch ==
    ASSUME SweepInv, ListShowtimes
    PROVE  \/ \E list \in Seq(Showtimes) :
                /\ Len(list) <= Batch
                /\ Turns([sweep EXCEPT !.at = "next", !.todo = list])
                /\ UNCHANGED <<metric, faults>>
           \/ Turns([sweep EXCEPT !.at = "observe"]) /\ Fault /\ UNCHANGED metric
  <1> DEFINE n == IF Cardinality(Due) < Batch THEN Cardinality(Due) ELSE Batch
             list == [i \in 1 .. n |-> CHOOSE s \in Due : Cardinality({x \in Due : x < s}) = i - 1]
  <1>0. Due \subseteq Showtimes /\ IsFiniteSet(Due) /\ Due \in SUBSET Nat /\ Batch \in Nat
    BY SweepAssumption, ShowtimesAssumption DEF SweepInv, Due
  <1>1. n \in Nat /\ n <= Batch /\ n <= Cardinality(Due) /\ Cardinality(Due) \in Nat
    BY <1>0, FS_CardinalityType
  <1>2. ASSUME NEW i \in 1 .. n
        PROVE  (CHOOSE s \in Due : Cardinality({x \in Due : x < s}) = i - 1) \in Showtimes
    <2>0. i \in 1 .. Cardinality(Due)
      BY <1>1
    <2>1. \E s \in Due : Cardinality({x \in Due : x < s}) = i - 1
      BY <1>0, <2>0, Ranked
    <2>2. QED
      BY <1>0, <2>1
  <1>3. list \in [1 .. n -> Showtimes]
    BY <1>2
  <1>4. list \in Seq(Showtimes) /\ Len(list) = n
    BY <1>1, <1>3, Listed
  <1>5. \/ Turns([sweep EXCEPT !.at = "next", !.todo = list]) /\ UNCHANGED <<metric, faults>>
        \/ Turns([sweep EXCEPT !.at = "observe"]) /\ Fault /\ UNCHANGED metric
    BY DEF ListShowtimes
  <1>6. Len(list) <= Batch
    BY <1>1, <1>4
  <1> HIDE DEF list
  <1>7. QED
    BY <1>4, <1>5, <1>6

\* After the transaction of the showtime in front.
LEMMA VisitedIs ==
    ASSUME SweepInv, NEW at \in SweepPlaces, sweep.todo # <<>>
    PROVE  /\ Visited(at) \in SweepRecord /\ Visited(at).at = at /\ Visited(at).freed = 0
           /\ Visited(at).reclaimed = sweep.reclaimed /\ Len(Visited(at).todo) <= Batch
  <1>1. sweep \in SweepRecord /\ Len(sweep.todo) <= Batch /\ Batch \in Nat
    BY SweepAssumption DEF SweepInv
  <1>2. PICK rest : rest = Tail(sweep.todo)
    OBVIOUS
  <1>3. rest \in Seq(Showtimes) /\ Len(rest) <= Batch
    BY <1>1, <1>2 DEF SweepRecord
  <1>4. Visited(at) = [sweep EXCEPT !.at = at, !.todo = rest, !.freed = 0]
    BY <1>1, <1>2 DEF Visited, SweepRecord
  <1>5. /\ Visited(at).at = at /\ Visited(at).freed = 0 /\ Visited(at).todo = rest
        /\ Visited(at).reclaimed = sweep.reclaimed
    BY <1>1, <1>4 DEF SweepRecord
  <1>6. Visited(at) \in SweepRecord
    <2>1. 0 \in Nat
      OBVIOUS
    <2>2. QED
      BY <1>1, <1>3, <1>4, <2>1 DEF SweepRecord, SweepPlaces
  <1>7. QED
    BY <1>3, <1>5, <1>6

\* What is to be shown of a step of the loop that leads to w.
LEMMA SweepGoes ==
    ASSUME SweepInv, NEW w \in SweepRecord,
           sweep' = w, stopping' = stopping, Len(w.todo) <= Batch,
           lapsed' \in [Showtimes -> Nat], Due' \subseteq Due,
           metric' \in Nat, released' \in Nat, undone' \in Nat, faults' \in Nat,
           w.at \in {"begin", "reclaim", "commit"} => w.todo # <<>>,
           w.at \in {"reclaim", "commit"} => lock'[Head(w.todo)] = Sweeper,
           w.at = "commit" => w.freed <= lapsed'[Head(w.todo)],
           w.at # "commit" => w.freed = 0,
           w.at = "waiting" => w.reclaimed = 0 /\ ~stopping,
           ~stopping => metric' + w.reclaimed = released' + undone' + w.freed
    PROVE  SweepInv'
  <1>1. IsFiniteSet(Due)'
    BY FS_Subset DEF SweepInv
  <1>2. stopping' \in BOOLEAN
    BY DEF SweepInv
  <1>3. ~stopping' \/ sweep'.at = "waiting" =>
          metric' + sweep'.reclaimed = released' + undone' + sweep'.freed
    OBVIOUS
  <1>4. QED
    BY <1>1, <1>2, <1>3 DEF SweepInv

\* The counters before the step.
LEMMA Counters ==
    ASSUME SweepInv
    PROVE  /\ sweep \in SweepRecord /\ Len(sweep.todo) <= Batch /\ lapsed \in [Showtimes -> Nat]
           /\ metric \in Nat /\ released \in Nat /\ undone \in Nat /\ faults \in Nat
           /\ sweep.reclaimed \in Nat /\ sweep.freed \in Nat /\ Batch \in Nat
           /\ sweep.at # "commit" => sweep.freed = 0
           /\ ~stopping => metric + sweep.reclaimed = released + undone + sweep.freed
  <1>1. sweep \in SweepRecord
    BY DEF SweepInv
  <1>2. sweep.reclaimed \in Nat /\ sweep.freed \in Nat
    BY <1>1 DEF SweepRecord
  <1>3. QED
    BY <1>1, <1>2, SweepAssumption DEF SweepInv

\* A step that neither commits nor enters a transaction: what is reported and
\* what is still to be reported stay what they are together.
LEMMA LoopGoes ==
    ASSUME SweepInv, NEW w \in SweepRecord, sweep.at # "commit",
           sweep' = w, UNCHANGED <<lapsed, released, undone, stopping>>,
           metric' \in Nat, faults' \in Nat, Len(w.todo) <= Batch, w.freed = 0,
           w.at \notin {"reclaim", "commit"},
           w.at = "begin" => w.todo # <<>>,
           w.at = "waiting" => w.reclaimed = 0 /\ ~stopping,
           ~stopping => metric' + w.reclaimed = metric + sweep.reclaimed
    PROVE  SweepInv'
  <1>1. /\ lapsed' \in [Showtimes -> Nat] /\ released' \in Nat /\ undone' \in Nat
        /\ sweep.freed = 0
        /\ ~stopping => metric + sweep.reclaimed = released + undone + sweep.freed
    BY Counters
  <1>2. Due' = Due
    BY DEF Due
  <1>3. w.reclaimed \in Nat
    BY DEF SweepRecord
  <1>4. ~stopping => metric' + w.reclaimed = released' + undone' + w.freed
    BY <1>1, <1>3, Counters
  <1>5. QED
    BY <1>1, <1>2, <1>4, SweepGoes

LEMMA FaultIs ==
    ASSUME SweepInv, Fault \/ UNCHANGED faults
    PROVE  faults' \in Nat
  BY DEF SweepInv, Fault

\* The steps of the loop outside a transaction.
LEMMA LoopStep ==
    ASSUME SweepInv, Wake \/ ListShowtimes \/ NextShowtime \/ SweepNoLock \/ ObserveSweep
    PROVE  SweepInv'
  <1>0. /\ sweep \in SweepRecord /\ Len(sweep.todo) <= Batch
        /\ sweep.at # "commit" => sweep.freed = 0
        /\ metric \in Nat /\ faults \in Nat
    BY Counters
  <1>1. CASE Wake
    <2>1. PICK at \in SweepPlaces : at = IF stopping THEN "done" ELSE "list"
      BY DEF SweepPlaces
    <2>2. PICK w : w = [sweep EXCEPT !.at = at]
      OBVIOUS
    <2>3. /\ sweep.at = "waiting" /\ sweep' = w
          /\ UNCHANGED <<lapsed, released, undone, stopping, metric, faults>>
      BY <1>1, <2>1, <2>2 DEF Wake, Turns, shared
    <2>4. /\ w \in SweepRecord /\ w.at = at /\ w.todo = sweep.todo /\ w.freed = sweep.freed
          /\ w.reclaimed = sweep.reclaimed
      BY <1>0, <2>2 DEF SweepRecord, SweepPlaces
    <2>5. w.at \in {"done", "list"}
      BY <2>1, <2>4
    <2>6. QED
      BY <1>0, <2>3, <2>4, <2>5, LoopGoes
  <1>2. CASE ListShowtimes
    <2>0. sweep.at = "list"
      BY <1>2 DEF ListShowtimes
    <2>1. ASSUME NEW list \in Seq(Showtimes), Len(list) <= Batch,
                 Turns([sweep EXCEPT !.at = "next", !.todo = list]), UNCHANGED <<metric, faults>>
          PROVE  SweepInv'
      <3>1. PICK w : w = [sweep EXCEPT !.at = "next", !.todo = list]
        OBVIOUS
      <3>2. sweep' = w /\ UNCHANGED <<lapsed, released, undone, stopping, metric, faults>>
        BY <2>1, <3>1 DEF Turns, shared
      <3>3. /\ w \in SweepRecord /\ w.at = "next" /\ w.todo = list /\ w.freed = sweep.freed
            /\ w.reclaimed = sweep.reclaimed
        BY <1>0, <2>1, <3>1 DEF SweepRecord
      <3>4. QED
        BY <1>0, <2>0, <2>1, <3>2, <3>3, LoopGoes
    <2>2. CASE Turns([sweep EXCEPT !.at = "observe"]) /\ Fault /\ UNCHANGED metric
      <3>1. PICK w : w = [sweep EXCEPT !.at = "observe"]
        OBVIOUS
      <3>2. sweep' = w /\ UNCHANGED <<lapsed, released, undone, stopping, metric>>
        BY <2>2, <3>1 DEF Turns, shared
      <3>3. /\ w \in SweepRecord /\ w.at = "observe" /\ w.todo = sweep.todo
            /\ w.freed = sweep.freed /\ w.reclaimed = sweep.reclaimed
        BY <1>0, <3>1 DEF SweepRecord
      <3>4. faults' \in Nat
        BY <2>2, FaultIs
      <3>5. QED
        BY <1>0, <2>0, <3>2, <3>3, <3>4, LoopGoes
    <2>3. QED
      BY <1>2, <2>1, <2>2, ListIsBatch
  <1>3. CASE NextShowtime
    <2>1. PICK at \in SweepPlaces : at = IF sweep.todo = <<>> THEN "observe" ELSE "begin"
      BY DEF SweepPlaces
    <2>2. PICK w : w = [sweep EXCEPT !.at = at]
      OBVIOUS
    <2>3. /\ sweep.at = "next" /\ sweep' = w
          /\ UNCHANGED <<lapsed, released, undone, stopping, metric, faults>>
      BY <1>3, <2>1, <2>2 DEF NextShowtime, Turns, shared
    <2>4. /\ w \in SweepRecord /\ w.at = at /\ w.todo = sweep.todo /\ w.freed = sweep.freed
          /\ w.reclaimed = sweep.reclaimed
      BY <1>0, <2>2 DEF SweepRecord, SweepPlaces
    <2>5. w.at \in {"observe", "begin"} /\ (w.at = "begin" => w.todo # <<>>)
      BY <2>1, <2>4
    <2>6. QED
      BY <1>0, <2>3, <2>4, <2>5, LoopGoes
  <1>4. CASE SweepNoLock
    <2>0. sweep.at = "begin" /\ sweep.todo # <<>>
      BY <1>4 DEF SweepNoLock, SweepInv
    <2>1. PICK at \in {"next", "observe"} : Turns(Visited(at)) /\ (UNCHANGED faults \/ Fault)
      BY <1>4 DEF SweepNoLock
    <2>2. PICK w : w = Visited(at)
      OBVIOUS
    <2>3. sweep' = w /\ UNCHANGED <<lapsed, released, undone, stopping, metric>>
      BY <1>4, <2>1, <2>2 DEF SweepNoLock, Turns, shared
    <2>4. /\ w \in SweepRecord /\ w.at = at /\ w.freed = 0
          /\ w.reclaimed = sweep.reclaimed /\ Len(w.todo) <= Batch
      BY <2>0, <2>2, VisitedIs DEF SweepPlaces
    <2>5. faults' \in Nat
      BY <2>1, FaultIs
    <2>6. QED
      BY <1>0, <2>0, <2>3, <2>4, <2>5, LoopGoes
  <1>5. CASE ObserveSweep
    <2>1. PICK at \in SweepPlaces : at = IF stopping THEN "done" ELSE "waiting"
      BY DEF SweepPlaces
    <2>2. PICK w : w = [sweep EXCEPT !.at = at, !.todo = <<>>, !.reclaimed = 0]
      OBVIOUS
    <2>3. /\ sweep.at = "observe" /\ sweep' = w
          /\ UNCHANGED <<lapsed, released, undone, stopping, faults>>
      BY <1>5, <2>1, <2>2 DEF ObserveSweep, Turns, shared
    <2>4. /\ w \in SweepRecord /\ w.at = at /\ w.todo = <<>> /\ w.freed = sweep.freed
          /\ w.reclaimed = 0
      <3>1. <<>> \in Seq(Showtimes) /\ 0 \in Nat
        OBVIOUS
      <3>2. QED
        BY <1>0, <2>2, <3>1 DEF SweepRecord, SweepPlaces
    <2>5. /\ w.at \in {"done", "waiting"} /\ (w.at = "waiting" => ~stopping)
          /\ Len(w.todo) = 0
      BY <2>1, <2>4
    <2>6. metric' = IF stopping THEN metric ELSE metric + sweep.reclaimed
      BY <1>5 DEF ObserveSweep
    <2>7. /\ metric' \in Nat /\ Len(w.todo) <= Batch
          /\ ~stopping => metric' + w.reclaimed = metric + sweep.reclaimed
      BY <2>4, <2>5, <2>6, Counters
    <2>8. QED
      BY <1>0, <2>3, <2>4, <2>5, <2>7, LoopGoes
  <1>6. QED
    BY <1>1, <1>2, <1>3, <1>4, <1>5

\* The showtime in front of a list that is not empty.
LEMMA HeadIs ==
    ASSUME SweepInv, sweep.todo # <<>>
    PROVE  Head(sweep.todo) \in Showtimes
  <1>1. sweep.todo \in Seq(Showtimes)
    BY Counters DEF SweepRecord
  <1>2. QED
    BY <1>1

\* The steps of the loop's transaction.
LEMMA SweepTxStep ==
    ASSUME SweepInv, LockInv, SweepLock \/ Reclaim \/ ReclaimFails \/ SweepCommit
    PROVE  SweepInv'
  <1>0. /\ sweep \in SweepRecord /\ Len(sweep.todo) <= Batch /\ sweep.todo # <<>>
        /\ sweep.at # "commit" => sweep.freed = 0
    BY Counters DEF SweepInv, SweepLock, Reclaim, ReclaimFails, SweepCommit
  <1>s. PICK s \in Showtimes : s = Head(sweep.todo)
    BY <1>0, HeadIs
  <1>1. CASE SweepLock
    <2>1. PICK w : w = [sweep EXCEPT !.at = "reclaim"]
      OBVIOUS
    <2>2. /\ sweep.at = "begin" /\ sweep' = w /\ LockShowtime(Sweeper, s)
          /\ UNCHANGED <<lapsed, metric, released, undone, faults, stopping>>
      BY <1>1, <1>s, <2>1 DEF SweepLock
    <2>3. /\ w \in SweepRecord /\ w.at = "reclaim" /\ w.todo = sweep.todo
          /\ w.freed = sweep.freed /\ w.reclaimed = sweep.reclaimed
      BY <1>0, <2>1 DEF SweepRecord
    <2>4. lock'[Head(w.todo)] = Sweeper
      BY <1>s, <2>2, <2>3 DEF LockShowtime, LockInv
    <2>5. Due' = Due
      BY <2>2 DEF Due
    <2>6. QED
      BY <1>0, <2>2, <2>3, <2>4, <2>5, Counters, SweepGoes
  <1>2. CASE Reclaim
    <2>1. PICK n \in Nat : n = lapsed[s]
      BY Counters
    <2>2. PICK k \in Nat : k = sweep.reclaimed + n
      BY Counters
    <2>3. PICK w : w = [sweep EXCEPT !.at = "commit", !.freed = n, !.reclaimed = k]
      OBVIOUS
    <2>4. /\ sweep.at = "reclaim" /\ sweep' = w
          /\ UNCHANGED <<lock, lapsed, released, undone, stopping, metric, faults>>
      BY <1>0, <1>2, <1>s, <2>1, <2>2, <2>3 DEF Reclaim, Turns, shared
    <2>5. /\ w \in SweepRecord /\ w.at = "commit" /\ w.todo = sweep.todo /\ w.freed = n
          /\ w.reclaimed = k
      BY <1>0, <2>3 DEF SweepRecord
    <2>6. lock'[Head(w.todo)] = Sweeper /\ w.freed <= lapsed'[Head(w.todo)]
      BY <1>s, <2>1, <2>4, <2>5 DEF SweepInv
    <2>7. ~stopping => metric' + w.reclaimed = released' + undone' + w.freed
      <3>1. PICK m \in Nat, c \in Nat, d \in Nat, u \in Nat :
              m = metric /\ c = sweep.reclaimed /\ d = released /\ u = undone
        BY Counters
      <3>2. ~stopping => m + c = d + u
        BY <1>0, <2>4, <3>1, Counters
      <3>3. ~stopping => m + k = d + u + n
        <4>1. k = c + n
          BY <2>2, <3>1
        <4>2. QED
          BY <3>2, <4>1
      <3>4. QED
        BY <2>4, <2>5, <3>1, <3>3
    <2>8. Due' = Due
      BY <2>4 DEF Due
    <2>9. QED
      BY <1>0, <2>4, <2>5, <2>6, <2>7, <2>8, Counters, SweepGoes
  <1>3. CASE ReclaimFails
    <2>1. PICK at \in {"next", "observe"} : sweep' = Visited(at)
      BY <1>3 DEF ReclaimFails
    <2>2. sweep.at = "reclaim" /\ Fault /\ UNCHANGED <<lapsed, metric, released, undone, stopping>>
      BY <1>3 DEF ReclaimFails
    <2>3. PICK w : w = Visited(at)
      OBVIOUS
    <2>4. /\ w \in SweepRecord /\ w.at = at /\ w.freed = 0
          /\ w.reclaimed = sweep.reclaimed /\ Len(w.todo) <= Batch
      BY <1>0, <2>3, VisitedIs DEF SweepPlaces
    <2>5. faults' \in Nat
      BY <2>2, FaultIs
    <2>6. QED
      BY <2>1, <2>2, <2>3, <2>4, <2>5, Counters, LoopGoes
  <1>4. CASE SweepCommit
    <2>1. PICK n \in Nat : n = sweep.freed
      BY Counters
    <2>2. sweep.at = "commit" /\ UNCHANGED <<metric, stopping>> /\ n <= lapsed[s]
      BY <1>4, <1>s, <2>1 DEF SweepCommit, SweepInv
    <2>3. PICK at \in {"next", "observe"} : sweep' = Visited(at)
      BY <1>4 DEF SweepCommit
    <2>4. PICK w : w = Visited(at)
      OBVIOUS
    <2>5. /\ w \in SweepRecord /\ w.at = at /\ w.freed = 0
          /\ w.reclaimed = sweep.reclaimed /\ Len(w.todo) <= Batch
      BY <1>0, <2>4, VisitedIs DEF SweepPlaces
    <2>6. faults' \in Nat
      BY <1>4, FaultIs DEF SweepCommit
    <2>7. \/ lapsed' = [lapsed EXCEPT ![s] = @ - n] /\ released' = released + n /\ undone' = undone
          \/ lapsed' = lapsed /\ released' = released /\ undone' = undone + n
      BY <1>4, <1>s, <2>1 DEF SweepCommit, Release
    <2>8. lapsed' \in [Showtimes -> Nat] /\ \A t \in Showtimes : lapsed'[t] <= lapsed[t]
      <3>1. lapsed[s] - n \in Nat /\ lapsed[s] - n <= lapsed[s]
        BY <2>2, Counters
      <3>2. lapsed \in [Showtimes -> Nat]
        BY Counters
      <3>3. CASE lapsed' = [lapsed EXCEPT ![s] = @ - n]
        BY <3>1, <3>2, <3>3
      <3>4. CASE lapsed' = lapsed
        BY <3>2, <3>4
      <3>5. QED
        BY <2>7, <3>3, <3>4
    <2>9. Due' \subseteq Due
      BY <2>8, Counters DEF Due
    <2>10. released' \in Nat /\ undone' \in Nat /\ released' + undone' = released + undone + n
      BY <2>7, Counters
    <2>11. ~stopping => metric' + w.reclaimed = released' + undone' + w.freed
      BY <2>1, <2>2, <2>5, <2>10, Counters
    <2>12. metric' \in Nat /\ sweep' = w /\ w.at \in {"next", "observe"}
      BY <2>2, <2>3, <2>4, <2>5, Counters
    <2>13. QED
      BY <2>2, <2>5, <2>6, <2>8, <2>9, <2>10, <2>11, <2>12, SweepGoes
  <1>5. QED
    BY <1>1, <1>2, <1>3, <1>4

\* A request takes claims only of the showtime that it has locked: those that
\* the loop has reclaimed and not yet committed are out of its reach.
LEMMA RequestTakes ==
    ASSUME HttpInv, LockInv, SweepInv, UNCHANGED sweepVars,
           NEW r \in Requests, Arrive(r) \/ Serve(r) \/ Panic(r) \/ Leave(r)
    PROVE  SweepInv'
  <1>0. /\ UNCHANGED <<sweep, metric, released, undone, faults, stopping>>
        /\ r # Sweeper /\ Sweeper # None
    BY OwnersAreReal, SweepAssumption DEF sweepVars, Owners
  <1>1. /\ lapsed' \in [Showtimes -> Nat]
        /\ \A s \in Showtimes : lapsed'[s] <= lapsed[s]
        /\ \A s \in Showtimes : lock[s] = Sweeper => lock'[s] = Sweeper /\ lapsed'[s] = lapsed[s]
    <2>1. CASE lock' = lock /\ lapsed' = lapsed
      BY <2>1, Counters
    <2>2. CASE Lock(r)
      <3>1. PICK s \in Showtimes : lock[s] = None /\ lock' = [lock EXCEPT ![s] = r]
        BY <2>2 DEF Lock, LockShowtime
      <3>2. \A t \in Showtimes : lock[t] = Sweeper => lock'[t] = Sweeper
        BY <1>0, <3>1 DEF LockInv
      <3>3. lapsed' = lapsed
        BY <2>2 DEF Lock
      <3>4. QED
        BY <3>2, <3>3, Counters
    <2>3. CASE Rollback(r) \/ Commit(r) \/ Panic(r)
      <3>1. EndTx(r) /\ (lapsed' = lapsed \/ lapsed' \in Reclaimed(r))
        BY <2>3, TxEnds
      <3>2. \A t \in Showtimes : lock[t] = Sweeper => lock'[t] = Sweeper
        BY <1>0, <3>1 DEF EndTx
      <3>3. CASE lapsed' = lapsed
        BY <3>2, <3>3, Counters
      <3>4. CASE lapsed' \in Reclaimed(r)
        <4>1. PICK s \in Showtimes : lock[s] = r /\ \E n \in 0 .. lapsed[s] :
                                       lapsed' = [lapsed EXCEPT ![s] = n]
          BY <3>4 DEF Reclaimed
        <4>2. PICK n \in 0 .. lapsed[s] : lapsed' = [lapsed EXCEPT ![s] = n]
          BY <4>1
        <4>3. n \in Nat /\ n <= lapsed[s]
          BY <4>2, Counters
        <4>4. QED
          BY <1>0, <3>2, <4>1, <4>2, <4>3, Counters
      <3>5. QED
        BY <3>1, <3>3, <3>4
    <2>4. QED
      BY <2>1, <2>2, <2>3, QuietMoves DEF Serve
  <1>2. Due' \subseteq Due
    BY <1>1, Counters DEF Due
  <1>3. IsFiniteSet(Due)'
    BY <1>2, FS_Subset DEF SweepInv
  <1>4. /\ sweep.at \in {"reclaim", "commit"} => lock'[Head(sweep.todo)] = Sweeper
        /\ sweep.at = "commit" => sweep.freed <= lapsed'[Head(sweep.todo)]
    <2>1. sweep.at \in {"reclaim", "commit"} =>
            Head(sweep.todo) \in Showtimes /\ lock[Head(sweep.todo)] = Sweeper
      BY HeadIs DEF SweepInv
    <2>2. sweep.at = "commit" => sweep.freed <= lapsed[Head(sweep.todo)]
      BY DEF SweepInv
    <2>3. QED
      BY <1>1, <2>1, <2>2
  <1>5. QED
    BY <1>0, <1>1, <1>3, <1>4 DEF SweepInv

\* Nobody steps into a transaction or out of one.
LEMMA SweepQuiet ==
    ASSUME LockInv, UNCHANGED http, lock' = lock,
           sweep'.at \in {"reclaim", "commit"} <=> sweep.at \in {"reclaim", "commit"}
    PROVE  LockInv'
  <1>1. \A p : Owned(p)' = Owned(p) /\ (OwnsOne(p)' <=> OwnsOne(p))
    BY DEF Owned, OwnsOne
  <1>2. QED
    BY <1>1 DEF LockInv

\* The loop, too, has a lock only while it is in a transaction.
LEMMA SweepLocks ==
    ASSUME SweepInv, LockInv, UNCHANGED http, Sweep
    PROVE  LockInv'
  <1>0. sweep \in SweepRecord /\ Sweeper \in Owners /\ \A r \in Requests : r # Sweeper
    BY OwnersAreReal DEF SweepInv, Owners
  <1>1. CASE Wake \/ NextShowtime \/ ObserveSweep
    <2>1. lock' = lock
      BY <1>1 DEF Wake, NextShowtime, ObserveSweep, Turns, shared
    <2>2. sweep.at \notin {"reclaim", "commit"} /\ sweep'.at \notin {"reclaim", "commit"}
      BY <1>0, <1>1 DEF Wake, NextShowtime, ObserveSweep, Turns, SweepRecord
    <2>3. QED
      BY <2>1, <2>2, SweepQuiet
  <1>2. CASE ListShowtimes
    <2>0. sweep.at = "list"
      BY <1>2 DEF ListShowtimes
    <2>1. lock' = lock /\ sweep'.at \notin {"reclaim", "commit"}
      <3>1. ASSUME NEW list, Turns([sweep EXCEPT !.at = "next", !.todo = list])
            PROVE  lock' = lock /\ sweep'.at = "next"
        BY <1>0, <3>1 DEF Turns, SweepRecord, shared
      <3>2. ASSUME Turns([sweep EXCEPT !.at = "observe"])
            PROVE  lock' = lock /\ sweep'.at = "observe"
        BY <1>0, <3>2 DEF Turns, SweepRecord, shared
      <3>3. QED
        BY <1>2, <3>1, <3>2, ListIsBatch
    <2>2. QED
      BY <2>0, <2>1, SweepQuiet
  <1>3. CASE SweepNoLock
    <2>1. sweep.at = "begin" /\ sweep.todo # <<>>
      BY <1>3 DEF SweepNoLock, SweepInv
    <2>2. PICK at \in {"next", "observe"} : Turns(Visited(at))
      BY <1>3 DEF SweepNoLock
    <2>3. Visited(at).at = at
      BY <2>1, VisitedIs DEF SweepPlaces
    <2>4. lock' = lock /\ sweep'.at = at
      BY <2>2, <2>3 DEF Turns, shared
    <2>5. QED
      BY <2>1, <2>4, SweepQuiet
  <1>4. CASE Reclaim
    <2>1. sweep.at = "reclaim" /\ lock' = lock
      BY <1>4 DEF Reclaim, Turns, shared
    <2>2. sweep'.at = "commit"
      BY <1>0, <1>4 DEF Reclaim, Turns, SweepRecord
    <2>3. QED
      BY <2>1, <2>2, SweepQuiet
  <1>5. CASE SweepLock
    <2>1. sweep.at = "begin" /\ sweep.todo # <<>>
      BY <1>5 DEF SweepLock, SweepInv
    <2>2. PICK s \in Showtimes : LockShowtime(Sweeper, s)
      BY <1>0, <1>5, <2>1 DEF SweepLock, SweepRecord
    <2>3. Owned(Sweeper) = {}
      BY <2>1 DEF LockInv
    <2>4. sweep'.at = "reclaim"
      BY <1>0, <1>5 DEF SweepLock, SweepRecord
    <2>5. /\ lock' \in [Showtimes -> Requests \cup {Sweeper, None}]
          /\ OwnsOne(Sweeper)' /\ \A q \in Owners \ {Sweeper} : Owned(q)' = Owned(q)
      BY <1>0, <2>2, <2>3, LockTakes
    <2>6. PICK inTx \in BOOLEAN : inTx = (sweep'.at \in {"reclaim", "commit"})
      <3>1. (sweep'.at \in {"reclaim", "commit"}) \in BOOLEAN
        OBVIOUS
      <3>2. QED
        BY <3>1, Zenon
    <2>7. QED
      BY <1>0, <2>4, <2>5, <2>6, OthersOwn
  <1>6. CASE ReclaimFails \/ SweepCommit
    <2>1. sweep.at \in {"reclaim", "commit"} /\ sweep.todo # <<>> /\ EndTx(Sweeper)
      BY <1>6 DEF ReclaimFails, SweepCommit, SweepInv
    <2>2. PICK at \in {"next", "observe"} : sweep' = Visited(at)
      BY <1>6 DEF ReclaimFails, SweepCommit
    <2>3. sweep'.at = at
      BY <2>1, <2>2, VisitedIs DEF SweepPlaces
    <2>4. /\ lock' \in [Showtimes -> Requests \cup {Sweeper, None}]
          /\ Owned(Sweeper)' = {} /\ \A q \in Owners \ {Sweeper} : Owned(q)' = Owned(q)
      BY <1>0, <2>1, EndTxFrees
    <2>5. PICK inTx \in BOOLEAN : inTx = (sweep'.at \in {"reclaim", "commit"})
      <3>1. (sweep'.at \in {"reclaim", "commit"}) \in BOOLEAN
        OBVIOUS
      <3>2. QED
        BY <3>1, Zenon
    <2>6. QED
      BY <1>0, <2>3, <2>4, <2>5, OthersOwn
  <1>7. QED
    BY <1>1, <1>2, <1>3, <1>4, <1>5, <1>6 DEF Sweep
-----------------------------------------------------------------------------
(* The invariant is one of the specification                               *)

LEMMA InitServing == Init => ServingInv
  <1> SUFFICES ASSUME Init PROVE ServingInv
    OBVIOUS
  <1>1. HttpInv
    <2>1. PICK input \in Inputs : input = CHOOSE i \in Inputs : TRUE
      BY InputsAssumption
    <2>2. PICK w : w = [NewRequest(input) EXCEPT !.at = "none"]
      OBVIOUS
    <2>3. RequestOK(w)
      BY <2>2, Arrived
    <2>4. w \in HttpRecord
      BY <2>3 DEF RequestOK
    <2>5. http = [r \in Requests |-> w]
      BY <2>1, <2>2 DEF Init, InitHttp
    <2>6. QED
      BY <2>3, <2>4, <2>5 DEF HttpInv
  <1>2. LockInv
    <2>1. lock = [s \in Showtimes |-> None]
      BY DEF Init, InitShared
    <2>2. \A p \in Owners : Owned(p) = {}
      BY <2>1, OwnersAreReal DEF Owned
    <2>3. \A r \in Requests : http[r].at # "tx"
      BY DEF Init, InitHttp, NewRequest
    <2>4. sweep.at = "waiting"
      BY DEF Init, InitSweep
    <2>5. QED
      BY <2>1, <2>2, <2>3, <2>4 DEF LockInv, Owners
  <1>3. SweepInv
    <2>1. /\ sweep = [at |-> "waiting", todo |-> <<>>, freed |-> 0, reclaimed |-> 0]
          /\ metric = 0 /\ released = 0 /\ undone = 0 /\ faults = 0 /\ stopping = FALSE
          /\ lapsed = [s \in Showtimes |-> 0]
      BY DEF Init, InitSweep, InitShared
    <2>2. <<>> \in Seq(Showtimes) /\ Len(<<>>) = 0 /\ Batch \in Nat
      BY SweepAssumption
    <2>3. /\ sweep \in SweepRecord /\ sweep.todo = <<>> /\ sweep.freed = 0 /\ sweep.reclaimed = 0
          /\ sweep.at = "waiting"
      BY <2>1, <2>2 DEF SweepRecord
    <2>4. Due = {} /\ lapsed \in [Showtimes -> Nat]
      BY <2>1 DEF Due
    <2>5. IsFiniteSet(Due)
      BY <2>4, FS_EmptySet
    <2>6. stopping \in BOOLEAN
      BY <2>1
    <2>7. metric + sweep.reclaimed = released + undone + sweep.freed
      BY <2>1, <2>3
    <2>8. Len(sweep.todo) <= Batch
      BY <2>2, <2>3
    <2>9. QED
      BY <2>1, <2>3, <2>4, <2>5, <2>6, <2>7, <2>8 DEF SweepInv
  <1>4. QED
    BY <1>1, <1>2, <1>3 DEF ServingInv

\* Claims lapse, and the loop is told to stop, at any moment.
LEMMA AroundStep ==
    ASSUME ServingInv, UNCHANGED http, Stop \/ \E s \in Showtimes : Lapse(s)
    PROVE  LockInv' /\ SweepInv'
  <1>0. LockInv /\ SweepInv
    BY DEF ServingInv
  <1>1. /\ lock' = lock /\ sweep' = sweep
        /\ UNCHANGED <<metric, released, undone, faults>>
    BY DEF Stop, Lapse, shared
  <1>2. LockInv'
    BY <1>0, <1>1, SweepQuiet
  <1>3. /\ lapsed' \in [Showtimes -> Nat] /\ IsFiniteSet(Due)'
        /\ \A s \in Showtimes : lapsed[s] <= lapsed'[s]
    <2>1. CASE Stop
      <3>1. lapsed' = lapsed
        BY <2>1 DEF Stop, shared
      <3>2. Due' = Due
        BY <3>1 DEF Due
      <3>3. QED
        BY <1>0, <3>1, <3>2 DEF SweepInv
    <2>2. CASE \E s \in Showtimes : Lapse(s)
      <3>1. PICK s \in Showtimes : lapsed' = [lapsed EXCEPT ![s] = @ + 1]
        BY <2>2 DEF Lapse
      <3>2. lapsed \in [Showtimes -> Nat] /\ IsFiniteSet(Due)
        BY <1>0 DEF SweepInv
      <3>3. IsFiniteSet(Due \cup {s})
        BY <3>2, FS_AddElement
      <3>4. Due' \subseteq Due \cup {s}
        BY <3>1, <3>2 DEF Due
      <3>5. IsFiniteSet(Due)'
        BY <3>3, <3>4, FS_Subset
      <3>6. QED
        BY <3>1, <3>2, <3>5
    <2>3. QED
      BY <2>1, <2>2
  <1>4. stopping' \in BOOLEAN /\ (~stopping' => ~stopping)
    BY <1>0 DEF Stop, Lapse, SweepInv
  <1>5. sweep.at = "commit" => sweep.freed <= lapsed'[Head(sweep.todo)]
    <2>1. sweep.at = "commit" =>
            Head(sweep.todo) \in Showtimes /\ sweep.freed <= lapsed[Head(sweep.todo)]
      BY <1>0, HeadIs DEF SweepInv
    <2>2. QED
      BY <1>0, <1>3, <2>1, Counters
  <1>6. SweepInv'
    BY <1>0, <1>1, <1>3, <1>4, <1>5 DEF SweepInv
  <1>7. QED
    BY <1>2, <1>6

LEMMA NextServing == ServingInv /\ [Next]_vars => ServingInv'
  <1> SUFFICES ASSUME ServingInv, [Next]_vars PROVE ServingInv'
    OBVIOUS
  <1>0. HttpInv /\ LockInv /\ SweepInv
    BY DEF ServingInv
  <1>1. ASSUME NEW r \in Requests, Arrive(r) \/ Serve(r) \/ Panic(r) \/ Leave(r),
               UNCHANGED sweepVars
        PROVE  ServingInv'
    <2>1. HttpInv'
      BY <1>0, <1>1, HttpStep
    <2>2. LockInv'
      BY <1>0, <1>1, HttpLocks
    <2>3. SweepInv'
      BY <1>0, <1>1, RequestTakes
    <2>4. QED
      BY <2>1, <2>2, <2>3 DEF ServingInv
  <1>2. ASSUME Sweep \/ Stop \/ \E s \in Showtimes : Lapse(s), UNCHANGED http
        PROVE  ServingInv'
    <2>1. HttpInv'
      BY <1>0, <1>2 DEF HttpInv
    <2>2. CASE Sweep
      <3>1. SweepInv'
        BY <1>0, <2>2, LoopStep, SweepTxStep DEF Sweep
      <3>2. LockInv'
        BY <1>0, <1>2, <2>2, SweepLocks
      <3>3. QED
        BY <2>1, <3>1, <3>2 DEF ServingInv
    <2>3. CASE Stop \/ \E s \in Showtimes : Lapse(s)
      BY <1>2, <2>1, <2>3, AroundStep DEF ServingInv
    <2>4. QED
      BY <1>2, <2>2, <2>3
  <1>3. CASE UNCHANGED vars
    <2>1. UNCHANGED <<http, lock, lapsed, sweep, metric, released, undone, faults, stopping>>
      BY <1>3 DEF vars, shared, sweepVars
    <2>2. HttpInv'
      BY <1>0, <2>1 DEF HttpInv
    <2>3. LockInv'
      BY <1>0, <2>1, SweepQuiet
    <2>4. SweepInv'
      BY <1>0, <2>1 DEF SweepInv, Due
    <2>5. QED
      BY <2>2, <2>3, <2>4 DEF ServingInv
  <1>4. QED
    BY <1>1, <1>2, <1>3 DEF Next

LEMMA ServingInvariance == Spec => []ServingInv
  <1>1. Init => ServingInv
    BY InitServing
  <1>2. ServingInv /\ [Next]_vars => ServingInv'
    BY NextServing
  <1>3. QED
    BY <1>1, <1>2, PTL DEF Spec
-----------------------------------------------------------------------------
(* Theorems                                                                *)

\* TypeOK, whatever requests are sent and however the loop fares: among all
\* who compete for the advisory locks of InShowtimeTx (tx.go), exactly those in
\* a transaction own one, and it is one; every COMMIT, ROLLBACK, panic and
\* broken connection gives it back.
THEOREM LocksFollowTransactions == Spec => []TypeOK
  <1>1. ServingInv => TypeOK
    <2> SUFFICES ASSUME HttpInv, LockInv, SweepInv PROVE TypeOK
      BY DEF ServingInv
    <2>1. HttpTypeOK
      <3>1. ASSUME NEW r \in Requests
            PROVE  /\ http[r].at \in Headless \cup {"body"} \cup Last
                   /\ http[r].input \in Inputs /\ http[r].status \in Statuses
                   /\ http[r].wire \in {"open", "complete", "cut"}
        BY DEF HttpInv, HttpRecord
      <3>2. QED
        BY <3>1 DEF HttpTypeOK, Headless, Last, Statuses, Success
    <2>2. SweepTypeOK
      BY Counters DEF SweepInv, SweepTypeOK, SweepRecord
    <2>3. ASSUME NEW p \in Owners
          PROVE  /\ OwnsOne(p) => Cardinality({s \in Showtimes : lock[s] = p}) = 1
                 /\ Owned(p) = {} => Cardinality({s \in Showtimes : lock[s] = p}) = 0
      BY FS_Singleton, FS_EmptySet DEF OwnsOne, Owned
    <2>4. ASSUME NEW p \in Requests \cup {Sweeper}
          PROVE  Cardinality({s \in Showtimes : lock[s] = p}) =
                   IF p = Sweeper THEN (IF sweep.at \in {"reclaim", "commit"} THEN 1 ELSE 0)
                   ELSE IF http[p].at = "tx" THEN 1 ELSE 0
      <3>1. CASE p = Sweeper
        BY <2>3, <3>1 DEF LockInv, Owners
      <3>2. CASE p # Sweeper
        BY <2>3, <3>2 DEF LockInv, Owners
      <3>3. QED
        BY <3>1, <3>2
    <2>5. lapsed \in [Showtimes -> Nat]
      BY DEF SweepInv
    <2>6. QED
      BY <2>1, <2>2, <2>4, <2>5 DEF TypeOK
  <1>2. QED
    BY <1>1, ServingInvariance, PTL

\* Whatever breaks around COMMIT, a complete success is an operation that was
\* carried out, and an operation that was carried out is never answered with a
\* refusal other than 500: fail, problemFor and classify (problem.go, errors.go)
\* make a 4xx or a 503 of nothing that happened after COMMIT.
THEOREM StatusIsTheEffect == Spec => []StatusTellsEffect
  <1>1. ServingInv => StatusTellsEffect
    BY DEF ServingInv, HttpInv, RequestOK, EffectOK, StatusTellsEffect, Ended, Last
  <1>2. QED
    BY <1>1, ServingInvariance, PTL

\* The recorder (middleware.go) sends one head per request and one to every
\* client that stays; and a body that a panic broke off is never complete.
THEOREM AnsweredWhole == Spec => []OneWholeAnswer
  <1>1. ServingInv => OneWholeAnswer
    <2> SUFFICES ASSUME HttpInv, NEW r \in Requests, Ended(r)
                 PROVE  /\ http[r].heads <= 1
                        /\ http[r].heads = 0 => http[r].left
                        /\ http[r].panicked /\ http[r].status \in Success => http[r].wire = "cut"
      BY DEF ServingInv, OneWholeAnswer
    <2>1. http[r].heads \in 0 .. 1
      BY DEF HttpInv, HttpRecord
    <2>2. HeadOK(http[r]) /\ PanicOK(http[r]) /\ http[r].at = "ended"
      BY DEF HttpInv, RequestOK, Ended
    <2>3. http[r].heads = 0 => http[r].left
      BY <2>2 DEF HeadOK
    <2>4. http[r].panicked /\ http[r].status \in Success => http[r].wire = "cut"
      BY <2>2 DEF PanicOK
    <2>5. QED
      BY <2>1, <2>3, <2>4
  <1>2. QED
    BY <1>1, ServingInvariance, PTL

\* The deferred function of instrument (middleware.go) measures every request
\* once, with the status that went out and a label of the fixed set that is the
\* handler's only if the handler ran.
THEOREM ObservedOnce == Spec => []MeasuredOnce
  <1>1. ServingInv => MeasuredOnce
    <2> SUFFICES ASSUME HttpInv, NEW r \in Requests, Ended(r)
                 PROVE  \E label \in Handlers \cup {"/v1/", "unmatched"} :
                            /\ http[r].measured = <<<<label, http[r].status>>>>
                            /\ label \in Handlers => label = http[r].input.route
      BY DEF ServingInv, MeasuredOnce
    <2>1. PICK label : label = IF http[r].pattern = "" THEN "unmatched" ELSE http[r].pattern
      OBVIOUS
    <2>2. http[r].measured = <<<<label, http[r].status>>>>
      BY <2>1 DEF HttpInv, RequestOK, MeasureOK, Ended
    <2>3. http[r].pattern \in Handlers \cup {"/v1/", ""}
      BY DEF HttpInv, HttpRecord
    <2>4. label \in Handlers \cup {"/v1/", "unmatched"}
      BY <2>1, <2>3
    <2>5. http[r].pattern \in Handlers => http[r].pattern = http[r].input.route
      BY DEF HttpInv, RequestOK, PatternOK
    <2>6. label \in Handlers => label = http[r].pattern
      BY <2>1 DEF Handlers, Writes
    <2>7. QED
      BY <2>2, <2>4, <2>5, <2>6
  <1>2. QED
    BY <1>1, ServingInvariance, PTL

\* No double claim that seat_occupancy_live_uniq caught goes uncounted on its
\* way from classify (errors.go) through Hold to fail (problem.go).
THEOREM RacesAreCounted == Spec => []RaceIsCounted
  <1>1. ServingInv => RaceIsCounted
    BY DEF ServingInv, HttpInv, RequestOK, RaceOK, RaceIsCounted, Ended
  <1>2. QED
    BY <1>1, ServingInvariance, PTL

\* However often its statements fail, a sweep loop (sweep.go) that is not being
\* stopped has reported every claim it released, and beyond those exactly the
\* claims of the transactions whose COMMIT was refused.
THEOREM DriftIsExplained == Spec => []CounterDrift
  <1>1. ServingInv => CounterDrift
    <2> SUFFICES ASSUME SweepInv, sweep.at = "waiting" PROVE metric = released + undone
      BY DEF ServingInv, CounterDrift
    <2>1. sweep.reclaimed = 0 /\ sweep.freed = 0
      BY DEF SweepInv
    <2>2. metric + sweep.reclaimed = released + undone + sweep.freed
      BY DEF SweepInv
    <2>3. QED
      BY <2>1, <2>2, Counters
  <1>2. QED
    BY <1>1, ServingInvariance, PTL
=============================================================================

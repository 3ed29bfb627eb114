# CineBook: TLA+ models, model checking and proofs

CineBook sells cinema seats. A Go service (any number of replicas) exposes an
HTTP API over one Postgres database; a browser client uses it. This directory
holds TLA+ models of its concurrent parts, TLC runs that check them on small
instances and TLAPS proofs for every instance. `PROJECT.json` lists every run,
mutant, theorem, hazard and finding, and maps each definition to the source
lines it stands for.

## 1. The system

| Component | State | Operations | Talks to |
| --- | --- | --- | --- |
| Seat writes (`internal/booking` hold.go, confirm.go, sweep.go) | none of its own: rows of `holds`, `seat_occupancy`, `bookings` | `Hold`, `Confirm`, `Release`, `Sweep` | store transactions; called by HTTP handlers and by the sweep loop |
| Showtime transactions (`internal/store/tx.go`, errors.go) | open transactions, advisory locks | `InShowtimeTx`, `InTx`, timeouts, error classification | Postgres |
| Schema and queries (`internal/store/migrations`, `queries`) | tables, partial unique index, view `live_seat_occupancy` | the SQL statements | - |
| Lock-free reads (GetHold, GetBooking, SeatMap, catalogue) | none | several snapshots of committed rows | Postgres |
| Ids (`booking/ids.go`) | none | random tokens and references, their parsers | - |
| HTTP API (`internal/httpapi`) | the recorded status of each request | request checks, handlers, problem mapping, panic recovery | booking service |
| Rate limiter (`httpapi/ratelimit.go`) | map of token buckets behind a mutex | `allow`, `level`, `sweep` | throttle middleware |
| Sweep loop (`cmd/cinebook-api/sweep.go`, `booking/sweep.go`) | counters | wake, list, one transaction per showtime, observe | store transactions |
| Process (`cmd/cinebook-api`, `obs/health.go`) | draining flag, sweeper goroutine, listener | start, serve, drain, shut down, probes | everything above |
| Store opening (`store/store.go`) | pool, migration session lock | `New`, `Migrate`, `Ping` | Postgres |
| Configuration (`internal/config`) | none | read and check the environment; each layer fills in its defaults | every layer |
| Metrics (`obs/metrics.go`) | counters, histograms | observe | HTTP API, sweep loop |
| Browser client (`internal/web/static/js`) | selected seats, hold countdown, remembered keys | refresh, hold, confirm, release | HTTP API |

What is hard here:

* **Interleaving.** Every seat write looks first and writes later. Only the
  per-showtime advisory lock separates the two, and confirms of different
  showtimes share a key space without sharing a lock.
* **Time.** Expiry is judged by Postgres' `now()`, which is the time of the
  `BEGIN` and stands still while the transaction waits for its lock.
* **Failure.** A statement may time out, a connection or a replica may die
  between any two statements, and the acknowledgement of a `COMMIT` may be lost.
  A handler may panic after it has written a head, a client may leave, a replica
  may die while it migrates the database the others wait for.
* **Repetition.** Clients repeat confirms, with the same key or another.
* **Ordering in memory.** The throttle reads the clock before its mutex.

What makes it correct: a seat of a showtime belongs to at most one hold or sale;
a live hold is honoured until its expiry; a confirmed hold and its booking come
together and are final; a key, a reference and a hold name one booking; every
answer is true, and its status tells whether the operation took place; every
request ends; a customer's requests stay within the configured budget; a replica
serves only a migrated database, with the settings it was given.

## 2. Modules

| Module | What it is |
| --- | --- |
| `Booking` | The write path: state, one action per statement group of each operation, the properties, the mutants |
| `SeatLedger` | The abstract promise about seats: grant, reclaim when overdue, return, sell |
| `BookingInv` | The two inductive invariants of `Booking`: `Inv` about seats and locks, `SalesInv` about sales |
| `BookingProofs` | TLAPS proofs about `Booking`: types, exclusivity, live holds, finality |
| `SalesProofs` | TLAPS proofs about the sales of `Booking`, and that it implements `SeatLedger` |
| `MCBooking` | Constants and symmetry for TLC |
| `Reads`, `MCReads`, `ReadsProofs` | `GetHold`, `GetBooking` and `SeatMap`, composed with `Booking`; TLC constants; proofs |
| `RateLimiter`, `MCRateLimiter`, `RateLimiterProofs` | The throttle, its TLC constants, its proofs |
| `ShowtimeTx` | The locks and lapsed claims that requests and sweep loop share, as `InShowtimeTx` shows them |
| `HttpApi` | A request on its way through the middleware, a handler and the service |
| `SweepLoop` | The sweep loop and its counter |
| `Serving`, `MCServing`, `ServingProofs` | `HttpApi` and `SweepLoop` together: a replica at work; TLC constants; proofs |
| `Config` | The environment, its checks and the defaults of the layers, as operators |
| `Migrations` | `Store.Migrate` on several replicas under the session lock |
| `Lifecycle`, `MCLifecycle`, `LifecycleProofs` | One replica from start to exit (extends `Config` and `Migrations`), its TLC constants, its proofs |
| `HoldView`, `HoldViewProofs` | The hold page of the browser client, its proofs |
| `SeatMapView`, `MCSeatMapView`, `SeatMapViewProofs` | The seat map page, its TLC symmetry, its proofs |

### Booking

A process (a request's goroutine in `Clients`, a replica's sweep loop in
`Sweepers`) goes through the labels of `pc`:

    idle -> begun -> body -> claim  -> commit -> idle       (Hold)
                          -> insert <-> recheck, -> commit  (Confirm)
                          -> commit                         (Release, Sweep, replayed Confirm)
    next -> begun -> body -> commit -> next                 (Sweep, per showtime)

| Action | Code |
| --- | --- |
| `StartHold`, `StartConfirm`, `StartRelease`, `StartSweep` | argument checks and lookups before the transaction, then `BEGIN`, which freezes `tx[p].now` |
| `LockShowtime` | `pg_advisory_xact_lock` in `InShowtimeTx` |
| `HoldBody` | `GetShowtime`, `CountSeatsInShowtime`, `ReclaimExpiredSeats`, `FindSeatConflicts`, `CreateHold` and their refusals |
| `ClaimSeats` | the insert that the partial unique index may reject |
| `ReplayConfirm`, `ConfirmBody` | the body of `Confirm` up to `insertBooking` |
| `CreateBooking`, `RecheckKey` | `insertBooking`: `ON CONFLICT DO NOTHING`, the second look at the key, the bounded retry |
| `ReleaseBody`, `SweepNext`, `SweepBody` | `Release`, one turn of the loop in `Sweep` |
| `Commit` | the writes become visible and the lock free; the acknowledgement may be lost |
| `LockTimeout`, `Abort` | `lock_timeout`; statement timeout, lost connection, cancelled request, crash of the replica. A failed recheck is not reported as busy: its error is swallowed (confirm.go:150), and what fails then is the next insert |
| `Tick` | the database clock |

`holds`, `occ` and `bookings` are committed rows; uncommitted writes live in
`tx[p]` and reach the tables only in `Commit`. Every statement group between two
labels reads committed rows that no other process can change while the lock is
held, or whose change does not matter to it: holds, occupancy rows and the
showtime of one showtime are only written under its lock. Bookings are the
exception - confirms of different showtimes write them concurrently - and so
the look at the key, the insert and the second look are separate steps, and an
insert waits for another's unfinished conflicting insert (`InsertBlocked`).

A seat row's `showtime_id` and `expires_at` are copies of its hold's that
nothing updates, so a row is a pair of hold and seat. Seat lists that pass
`normalizeSeats` are sets afterwards. Tokens are fresh (128 random bits);
references may collide. A client may confirm or release a token whose
acknowledgement was lost, which a real client could not know: the model allows
more behaviours than the code there.

### SeatLedger

State: the clock, the slots granted to each hold, when they fall due, and which
holds are sold. `RefinesLedger` maps a hold's unreleased rows to its grant and
its `expires_at` to its due time: each `COMMIT` is one `Grant`, `Reclaim`,
`Return` or `Sell`, each clock tick a `Pass`, everything else a stutter. A
ledger sale is of what the hold still has; it is not bound by the due time,
which is exactly the freedom the finding about `Confirm` shows the code to need.

### RateLimiter

`Throttle` reads the clock, `Allow` is the critical section (sweep for a new
key, refill, pay or refuse). Tokens are counted in fractions (`Cost` of them are
one token, `Rate` come in per tick) where the code uses floating point; rounding
of the latter is not modelled. `born`, `spent`, `due`, `last` and `active` are
history variables: the last two say when each customer last came, and how many had
come within a refill before the last sweep, which is what the size of the map is
compared with.

### Reads

`Reads` extends `Booking` with readers whose steps leave the tables alone: one
step per statement, each over the rows committed at that moment, and every
writer's step may come between. `GetShowtime` reads columns nothing writes and
is no step of its own. The result of a read stays in `read[r]` until the next.

### Lifecycle

`phase` is where `run` stands: `start`, `configured`, `opened`, `migrated`, `serving`,
`draining`, `shutdown`, `reaping` (waiting for the sweep loop), `closing` (the
deferred `st.Close`), `exited`. Requests, probes and the sweep loop compete for
the `MaxConns` connections of the pool; what they do with one is `Booking`'s
subject. `Store.Ping` is two steps, the look at the statistics (`Ping`) and the
pool's own ping (`PoolPing`), because the code does them one after the other.
The drain delay and the shutdown timeout may end at any moment. Requests come on
new connections only. An outage of the database, once begun, lasts.

### Config, Migrations

`Config` has no state. A raw value is unset, malformed, or the number it parses
to. `Accepts` is what the loaders take, `Read` and `Errors` are the two results
of `Load`, `Effective` is what the three `applyDefaults` make of it.
`Milliseconds` and `TtlSeconds` are the conversions on the way to Postgres. The
latter ends in `int32(...)` of a float: a lifetime beyond an int32 of seconds, which
the checks accept, comes out as whatever the machine makes of it (the least int32 on
amd64, the largest on arm64), so `TtlSeconds` is the set of what Postgres may be told.
`Lifecycle!Load` gives up if `Errors` is not empty.

`Migrations` has the schema's version, the owner of the migration lock, and where
each replica's `Migrate` is. goose is external: it lists under the lock, applies
what is missing one version at a time, and unlocks however it ends. A replica may
fail or be cancelled at any point, may fail at the unlock (the lock then stays
with its session until the process exits), or be killed. In `Lifecycle` the
replica `Self` takes these steps as part of `run`, the others at any time.

### HttpApi, SweepLoop, Serving

`http[r]` is the request a goroutine serves; `at` is where it is:

    throttle -> route -> handle -> call -> answer -> body -> return -> ended
                                     |-> begin -> tx -> answer
    any of them -> fail -> return          handle..body -> return   (a panic)

| Action | Code |
| --- | --- |
| `Arrive` | main's mux hands over a request of `/v1/`; `instrument` wraps it |
| `Throttle` | `throttle`; the limiter's verdict is a choice here, `RateLimiter` makes it |
| `Route` | `route`, `unmatchedWriter` |
| `Handle` | the checks of the handler, in their order (`Checks`); the first that fails answers |
| `Read`, `Lock`, `NoLock`, `Rollback`, `Commit` | the service call: what it finds is a choice here, `Booking` makes it |
| `Answer`, `WriteBody` | `writeJSON`: encode, then head, then body |
| `Fail` | `fail`: nothing for a client that left, else `problemFor` and the count of a lost race |
| `Panic`, `Return` | a panic anywhere in the handler; the deferred function of `instrument` |
| `Leave` | the client disconnects and the request's context is cancelled |

An error is the set of sentinels in its chain, which is all that `errors.Is` and
`errors.As` see; `Classify`, `FromStore`, `HoldError` and `ProblemFor` are the
functions of those names.

`SweepLoop` goes from `waiting` through `list` and, for each showtime, `begin`,
`reclaim` and `commit` to `observe`. `lapsed[s]` is how many claims on seats of
showtime `s` have lapsed and are unreleased; a reclaim takes all it finds, adds their
number to the count before its `COMMIT`, and gives the claims back if that is refused
(`undone` remembers how many, for `CounterDrift`). `Serving` lets both run: they meet
at the locks, and a write may release any number of the claims the sweeper was about
to reclaim.

### HoldView, SeatMapView

One page in one tab; a handler is one step up to its `await` and another one
after it, and timers fire between. A call may be served with its answer lost, or
fail without effect; a call whose page was left may still arrive (`strays`).
`HoldView` has a second tab acting on the same hold (`OtherTab`) and a server
clock known only up to `Slack` (`noteServerClock`). `SeatMapView` has several
refreshes in flight, answered in any order. Buttons are modelled as the
`disabled` attribute the code last painted (`off`), not as the condition it
means: whether the two agree is the point. Idempotency keys are left out of
`HoldView`, since the service replays a confirmed hold whatever the key
(`ReplayConfirm`).

## 3. Runs

| Run | Instance | Shows |
| --- | --- | --- |
| `Contention` | 2 clients, sweeper, 1 showtime, 2 seats, 2 holds, clock 0..2, TTL 1 | exclusivity, index never fires, live holds whole, booked iff confirmed, no hold called expired before it is over, sales final, refinement of `SeatLedger` |
| `Idempotency` | 2 clients, 4 showtimes (2 on sale, 1 closed, 1 unknown), odd seat lists, 2 keys, 2 references, 2 attempts, clock at 0, fairness | one booking per key, reference and hold; truthful answers; only legal selections granted; bounded retries; every request ends |
| `Serving` | 1 request after another (14 kinds: the writes, a read with and one without a row to find, no route, wrong method, failed checks), 2 showtimes, batch 2, 2 lapsed claims, 1 fault of the sweep, fairness | status tells effect; one whole answer; measured once; races counted; counter drift; the sweeper catches up |
| `Reading` | 1 client, sweeper, 1 reader, 2 seats, 2 holds, clock 0..2 | reads of what was paid for are whole; sold stays sold |
| `Throttling` | 2 requests, 3 customers, clock 0..4, sweep threshold from 1 | budget, map bound, honest `Retry-After` |
| `Stopping` | 2 requests, 1 probe, sweep loop, 2 connections, 2 replicas, 2 migrations, 41 environments, fairness | clean graceful exit, order of the shutdown, and that it ends; migrations do not race, only a migrated database is served, settings take effect, the start does not hang |
| `Countdown` | 1 page and a second tab, expiry 3, clock 0..4, wait 2, slack 1, fairness | one call at a time, Confirm is never stuck, the countdown ends |
| `Choosing` | 2 seats, 2 refreshes in flight, clock 0..2, wait 1 | selection, single hold, wait, no stuck button, no repaint under a hold |
| `PartialBooking`, `BusyPool`, `LostConfirm`, `CoolDown` | - | findings, see below |

Bounds. Two holds and two seats are the least with which one hold can lose part
of its seats to another; three clock readings let a hold be made, expire and be
confirmed by a transaction that began before; with two clients one is always
able to overtake the other, and the sweeper is the third party. Two showtimes
are needed for confirms without a common lock, two references and two attempts
for a collision that is retried with success and one that is not; expiry plays
no part in that race, so its clock stands still, and what answers say of expiry is
checked in `Contention`. In `Serving` a request meets
another only at the locks, where the sweep loop is the other: one goroutine that
serves any number of requests in turn, and a batch of two showtimes, so that there
is one to go on with when the other is busy. Two claims may lapse in one showtime or
in both, so that a refused `COMMIT` takes back more than one. The limit of a batch is
not reached there: it would take a third showtime (`QuietDrains` says what it costs,
and the proofs hold for every batch). Two migrations make the order matter. The units of `Config` are scaled (a
millisecond is 2 ticks, a second 8, the largest integer 500), so that durations
below either unit exist, and one beyond the largest integer of each is tried. The throttle's threshold starts
at 1 instead of 1024 so that sweeps happen with three keys. Two connections are
the least of which a probe can see one free and lose it. On the pages, a wait of
two steps within a lifetime of three lets a second refusal arrive during the
first one's wait; two refreshes can overtake each other.

Symmetry permutes clients, holds, keys and references, none of which the models
order; showtimes and seats are numbers, since the sweeper orders showtimes. The
runs of liveness properties use no symmetry.

Fairness (`FairSpec`) is weak fairness of each process' own steps: Postgres
executes what it is sent, and `lock_timeout` bounds every wait. Starting
operations, the clock and failures have none in `Booking`. `LockTimeout` belongs to a
process' own steps, because the timer runs whether or not anybody else moves.

`Lifecycle`: `run` and the sweep loop go on by themselves, and a request gives
its connection back, since Postgres ends every statement (reads outside a
transaction have no `statement_timeout`, so this is trust in Postgres and not in
the setting); clients and the signal have no fairness. `st.Migrate` has strong
fairness: its wait for the migration lock has no timeout, and Postgres serves the
queue of an advisory lock in order, so a replica that waits gets its turn. The
other replicas go on once they have the lock, and exit when a migration fails.
`Serving`: a request and the sweep loop go on by themselves; nobody has to send
a request, leave or panic, and `QuietDrains` assumes of each showtime that in the end
no request locks it, since a busy showtime is skipped by design. Other showtimes may
stay busy for ever, except where the earlier ones are as many as a batch: these come
first in every list, and busy ones keep their place in it. `HoldView`: time passes and the interval keeps
calling `tick`; no answer has to arrive.

Every property has a mutant: a plausible slip in one definition (a dropped
predicate, `<` for `<=`, a missing rollback, an off-by-one) under which TLC
finds it violated.

## 4. Findings

* **A booking may cover part of its hold** (`PartialBooking`, confirm.go:79). A
  confirm begins just before `expires_at` and waits for the lock; a rival hold
  that began after `expires_at` gets it first, reclaims one of the two seats and
  commits. The confirm still sees the old `now()`: it finds one unreleased row,
  confirms one, and books it. The total is that of the seats sold
  (`BookedIffConfirmed`), but the customer asked for two.
  The comment at confirm.go:73 takes the row count for the answer to "was it
  still live"; it is the answer for the moment the transaction began. No seat is
  sold twice by it: exclusivity does not depend on it, as the proofs show.
* **A busy pool can read as an outage** (`BusyPool`, store.go:87). `Ping` looks
  at the pool's statistics and then joins its queue; the connection it saw may be
  gone by then, and the probe waits until its timeout.
* **"The seats are back on sale"** (`LostConfirm`, hold.js:65). The countdown
  ends the page even if a confirm is out or its answer was lost, and takes away
  the button that would replay it. The customer has a booking and is told to
  choose again. Loading the page anew shows the booking.
* **The announced wait is not enforced** (`CoolDown`, hold.js:86). On a 503 the
  Confirm button is painted before `coolUntil` is set and not again after, so it
  is enabled all through the wait. The seat map page paints it afterwards
  (`WaitIsHonoured` in `Choosing`).

Three smaller observations have a property in their module, which TLC refutes,
and no run of their own: `GetHold` may answer `held` with no seats and a total of
zero when a release commits between its two statements (`HeldReadsAreWhole`); the
seat map page says someone else took the seats of the customer's own hold if that
hold's answer was lost (`SomeoneElseTookIt`); and a request that read the clock
before a sweep of the throttle's map finds a missing bucket, hence a whole burst,
where the dropped one would have refused it (`DroppingLosesNothing`, against the
comment "dropping it loses nothing" at ratelimit.go:65). What the customer gains is
at most one burst, and only if the sweep's own reading is so much later that it found
the bucket full; `WithinBudget` is about one life of a bucket and holds.

Further observations, met while modelling the API and the process:

* A double claim that the index caught is not counted if its client has left
  (problem.go:134 returns first), although the interface says `SeatRaceLost` "is
  called when the unique index caught a double claim" (api.go:37).
  `RaceIsCounted` makes the exception explicit.
* A request for which `fail` writes nothing is measured with status 0, and
  net/http completes it as an empty 200 if the connection can still be written.
  `StatusTellsEffect` is about statuses the handler wrote.
* A throttled request is measured under the outer mux's pattern `/v1/`, because
  the API's own mux has not seen it: "the matched pattern, or unmatched" (api.go:34)
  holds, but not per route.
* The sweeper's counter runs ahead of the seats released by exactly the rows of the
  transactions whose `COMMIT` was refused, all of a showtime at once, and never
  behind (`CounterDrift`).
* A lock timeout below 1 ms is sent as `0ms`, which is no timeout, and a lifetime
  below 1 s makes holds that are born lapsed. A timeout of more than 2^31 - 1 ms is
  one that Postgres refuses, and with it every transaction; a lifetime of more than
  2^31 - 1 s does not fit the int32 of hold.go:69 and may become a negative one.
  `config.Load` accepts all of them. `SettingsTakeEffect` states the exact exception.
* The write timeout is 30 s whatever the lock and statement timeouts are set to,
  while the comment at main.go:24 has it "well past" them.

## 5. Proofs

Every invariant and every action property that a passing run checks is also
proved, for every value of the constants. All safety proofs have the same shape:
an inductive invariant whose conjuncts have names, one lemma per action, and a
last step that combines them. TLC has checked each inductive invariant on the
instance of the run it belongs to (`Honest` over the readings of that run).

### The write path

`BookingProofs` and `SalesProofs` hold for any number of processes, showtimes,
seats, holds, customers, keys and references, any TTL and any limits.

| Theorem | States |
| --- | --- |
| `TypeCorrect`, `SeatExclusivity`, `IndexNeverFires`, `HoldHonoured` | `[]TypeOK`, `[]OneUnreleasedRow`, `[]NoSeatRaceLost`, `[]LiveHoldIsWhole` |
| `SaleIsFinal` | `SoldForever`, an action property |
| `SaleAndBookingTogether`, `BookingsStayUnique`, `OnlyLegalHolds`, `AnswersStayTrue` | `[]BookedIffConfirmed`, `[]BookingsAreUnique`, `[]HoldsAreLegal`, `[]AnswersAreTrue` |
| `WritePathIsLedger` | `RefinesLedger`: `Booking` implements `SeatLedger` |

Exclusivity is not inductive by itself: a hold that commits would break it if
what it read before the claim had changed. `BookingInv!Inv` therefore says of
every process how its private view relates to the tables: whoever is past
`LockShowtime` owns its showtime's lock (`LockOK`); the rows it is about to
release are still claimed and of its showtime (`FreedOK`), those it is about to
sell still its hold's (`SoldOK`); and every row that occupies a seat it is about
to claim is one it releases itself (`CheckedOK`). A commit of one process keeps
the others' views because two processes with views of the same showtime would
own the same lock. The reclaim predicate and the live view are complementary at
every instant, which is what makes the index unreachable.

`BookingInv!SalesInv` stands on top of it and says what a process is about to
sell. `PaidOK`: a confirm that has passed its checks sells every unreleased row
of its hold, and there is one, because the two counts it compares agree.
`ReplayOK`: what a replay found is still there. `WantOK`: what a hold is about to
claim passed the checks of `HoldBody`. `ReturnOK`: a release gives back
everything its hold has. `InsertOK` and `InsertsDiffer`: a booking that is
inserted and not committed conflicts with no committed one and with no other
such insert. The last two are where the lock does not help, since confirms of
different showtimes run side by side: a step of one process keeps them for the
others because an insert waits for a conflicting one (`InsertBlocked`), and
whoever commits had already excluded the conflict when it inserted. That a
confirm may sell a part of the hold (first finding) is no obstacle: the total is
that of the rows it sells. That a hold is never called expired too early
(`AnswersAreTrue`) is lemma `RefusedIsOver`: a hold that has time left is whole
(`LiveHoldIsWhole`), and a confirm's own clock is never ahead of the database's.

The refinement has one lemma per kind of commit: a hold's is a `Grant` together
with the reclaim of lapsed rows, a sweep's a `Reclaim`, a release's a `Return`, a
confirm's a `Sell`; a replay commits nothing. `Tick` is `Pass`, and every other
step leaves the mapped state alone.

### Reads

`ReadsProofs` adds readers to the above. `PaidReadsStayWhole` (`PaidReadsAreWhole`) and
`SoldStaysSold` (`SoldNeverReturns`, an action property) rest on `ReadInv`: the hold a first statement
found is still there and of the same showtime (`FoundOK`), what it saw confirmed
is still confirmed and, once all is read, the seats are those sold under the hold
(`ConfirmedOK`), and what a map showed sold is sold (`MapOK`). Writers keep it
because sales are final; a reader's second statement completes it because
confirmed holds have exactly their sold rows (`BookedIffConfirmed`).

### A replica at work

`ServingProofs` holds for any number of requests, showtimes and any batch:
`StatusIsTheEffect`, `AnsweredWhole`, `ObservedOnce`, `RacesAreCounted`
(`StatusTellsEffect`, `OneWholeAnswer`, `MeasuredOnce`, `RaceIsCounted`),
`LocksFollowTransactions` (`TypeOK`) and `DriftIsExplained` (`CounterDrift`). Each
property speaks of requests that have ended; the inductive `RequestOK` says what
must be so at every label before that. `HeadOK`: there is a head exactly when
there is a status. `PanicOK`: a panic ends the handler and cuts what it had half
written. `PatternOK`: the pattern is the route's, or none was found. `EffectOK`:
nothing is committed early, a success is only written after an acknowledged
`COMMIT`, and an error after a `COMMIT` that was carried out has an empty chain,
which `problemFor` can only turn into a 500. `RaceOK`: the lost race is in the
error's chain until `fail` has seen it; lemma `RaceInChain` follows it through
`Classify` and `HoldError`. `MeasureOK`: nothing is measured before the
deferred function runs. `LockInv` relates locks to labels. `SweepInv` balances
the books: the counter as it will be reported is what was released, what was undone
and what the open transaction has reclaimed, and the last is still there to be
released when it commits, because the sweeper owns the lock of that showtime and a
request takes claims only under it (lemma `RequestTakes`). Lemma `Ranked` shows that
`ListShowtimes`, whose order is a `CHOOSE`, has a value for every set of lapsed
showtimes.

### The throttle

`RateLimiterProofs` proves `BudgetHolds`, `MapStaysBounded` and
`RetryAfterIsHonest` for any rate, burst, threshold and number of customers. The
budget is inductive together with the types (`TypeOK`, which no run checks on its
own). The bound of the map is not, since between two sweeps it only grows:
`Threshold` adds that it stays within `sweepAt`, that `sweepAt` was taken from the
buckets the last sweep could not drop, and that a bucket's `seen` is no later than
its customer's last request. Lemma `SparedAreActive` then says that a bucket that is
not full belongs to a customer who came less than a refill ago. `RetryIsHonest` is not inductive either: it speaks of the readings that
requests hold now, and a refusal of somebody else with a later reading advances
`seen`. `Honest` states it for every later reading. Its two lemmas are that
`Retry-After` is rounded up far enough (`WaitIsLongEnough`) and that a refusal
changes nothing for anybody who comes later (`RefusalIsNeutral`).

### The process

`LifecycleProofs` proves `StoreAlwaysClosesLast` and `AlwaysUnreadyBeforeRefused`
for any number of requests, probes and connections.
Their common inductive invariant `Exits` says how far `run` must have come for
each effect to be visible: the pool is closed only in `closing`, which the sweep
loop never enters running; the listener is closed only after `draining` was set;
a request is cut off only by a closed pool. `MigrationsNeverRace` and
`OnlyMigratedIsServed` hold for any number of replicas and migrations; they rest
on `MigratedInvariant`: a replica that lists or applies owns the lock, what it has
seen is the schema (nobody else can have changed it), and a replica past
`Migrate` has seen the last version, which nothing takes back.
`SettingsAreInEffect` holds for every environment: `Loaded` says that only an
environment without errors gets as far as a pool, and lemmas about `Config` do
the rest (`AcceptedIsRead`: what is accepted is read as it was set;
`LayersApply`: a layer's default replaces zeros only; `ToldInUnits` and
`DefaultsAreTellable`: a duration of at least one unit and at most an int32 of them
reaches Postgres as set, and the defaults are such).

### The pages

`HoldViewProofs` (`OneAction`, `ConfirmRecovers`) and `SeatMapViewProofs`
(`SelectionIsFree`, `OneHold`, `WaitHonoured`, `HoldRecovers`, and the action
property `Undisturbed`) hold for any lifetime, wait, slack and number of seats
and refreshes. What has to be added to the properties is in `ViewInv` that the
`disabled` attribute agrees with `busy` and that only the page that made a call
waits for it, and in `MapInv` that a hold is out exactly while `holding` is set
and that a wait that is not over has its timer.

### Assumptions, and what is only model-checked

Assumptions used are the named `ASSUME`s of the modules; TLC evaluates them in
every run. Four of them say what the program is given: there is some kind of
request (`Inputs # {}`), a millisecond is not longer than a second, the defaults fit
an int32 of the units Postgres is told them in (`UnitsAssumption`), and an
environment maps every setting to nothing, to what does not parse or to a number
(`EnvironmentsAssumption`).

Only model-checked: the liveness properties `RequestAnswered`, `QuietDrains`,
`ShutsDown`, `StartsUp` and `CountdownEnds`, since fairness and `ENABLED` are
outside the prover's reach. The properties of the four findings are refuted, so
there is nothing to prove.

## 6. Plan

Done: the write path and its ledger, the reads, the throttle, the API, the sweep
loop, configuration and migrations, the replica's lifecycle, the two pages with
state, and proofs of all their safety properties. What could be added:

1. Abstract specifications for the throttle (a budget) and for the migrations (an
   atomic upgrade), with proofs that the detailed modules implement them, as for
   `SeatLedger`.
2. A bound for the finding about partial bookings: how few seats a confirm may
   sell, and that it takes a rival hold for it, as a theorem of `Booking`.
3. The catalogue queries, whose rows are constants of the models so far.

## 7. Not modelled

* Text formats: tokens, references, JSON, problem bodies, seat labels, header
  values. A parse succeeds or fails.
* The catalogue (`ListMovies`, `ListShowtimes`, `GetShowtime`): writes to
  `showtimes` and `seats` happen outside the program, so its rows are constants
  of the models; only its errors are modelled (`HttpApi`). The constraint on
  overlapping showtimes guards those writes.
* Logging, latencies, the pool's statistics, static files, DOM helpers.
* The load generator, a test tool that drives the service from outside, and the
  seed data.
* The path-cleaning redirect of `route`: main's mux has redirected such a request
  before it gets there.
* The server's connection timeouts (main.go:26). They have no common clock with
  the lock and statement timeouts in the models; to the service a request they
  cut off is a client that left.

------------------------------ MODULE SweepLoop ------------------------------
(***************************************************************************)
(* The sweep loop of a replica: sweep (cmd/cinebook-api/sweep.go) with     *)
(* Service.Sweep (internal/booking/sweep.go), one transaction per          *)
(* showtime, and the counter the loop reports to.  Module Booking has the  *)
(* rows a reclaim changes; here they are counted.                          *)
(***************************************************************************)
EXTENDS ShowtimeTx, Sequences, FiniteSets

CONSTANTS
    Sweeper,     \* the loop, as the owner of a lock
    Batch,       \* how many showtimes one sweep visits at most
    MaxLapses,   \* bound: how many claims lapse
    MaxFaults    \* bound: how often the database fails the sweep

ASSUME SweepAssumption ==
    {Batch, MaxLapses, MaxFaults} \subseteq Nat /\ Sweeper # None

VARIABLES
    sweep,       \* where the loop is, what it has still to visit, how many claims
                 \* its open transaction has reclaimed, what it counted
    metric,      \* cinebook_sweeper_reclaimed_seats_total
    released,    \* how many claims the sweeper did release
    undone,      \* how many it had reclaimed in transactions whose COMMIT was refused
    lapses,      \* how many claims have lapsed
    faults,      \* how often the database has failed the sweep
    stopping     \* the loop's context is done

sweepVars == <<sweep, metric, released, undone, lapses, faults, stopping>>

InitSweep ==
    /\ sweep = [at |-> "waiting", todo |-> <<>>, freed |-> 0, reclaimed |-> 0]
    /\ metric = 0 /\ released = 0 /\ undone = 0 /\ lapses = 0 /\ faults = 0 /\ stopping = FALSE

-----------------------------------------------------------------------------
\* The clock passes the expiry of a claim that nobody confirmed; the claims of a
\* hold lapse in as many steps.  A transaction that began before does not see it
\* (now() is the time of its BEGIN): that is a lapse after its statements.
Lapse(s) ==
    /\ lapses < MaxLapses
    /\ lapsed' = [lapsed EXCEPT ![s] = @ + 1]
    /\ lapses' = lapses + 1
    /\ UNCHANGED <<lock, sweep, metric, released, undone, faults, stopping>>

Stop ==
    /\ ~stopping
    /\ stopping' = TRUE
    /\ UNCHANGED <<shared, sweep, metric, released, undone, lapses, faults>>

\* A step of the loop that leaves the database alone.
Turns(v) ==
    /\ sweep' = v
    /\ UNCHANGED <<shared, released, undone, lapses, stopping>>

\* A statement of the sweep fails: the database's fault, or the loop's context
\* is done.
Fault == IF stopping THEN UNCHANGED faults ELSE faults < MaxFaults /\ faults' = faults + 1

\* select: the context, or the interval with its jitter.
Wake ==
    /\ sweep.at = "waiting"
    /\ Turns([sweep EXCEPT !.at = IF stopping THEN "done" ELSE "list"])
    /\ UNCHANGED <<metric, faults>>

Due == {s \in Showtimes : lapsed[s] > 0}

\* ListShowtimesWithExpiredSeats: ascending, at most Batch of them.
ListShowtimes ==
    LET n    == IF Cardinality(Due) < Batch THEN Cardinality(Due) ELSE Batch
        list == [i \in 1 .. n |-> CHOOSE s \in Due : Cardinality({x \in Due : x < s}) = i - 1]
    IN  /\ sweep.at = "list"
        /\ \/ Turns([sweep EXCEPT !.at = "next", !.todo = list]) /\ UNCHANGED <<metric, faults>>
           \/ Turns([sweep EXCEPT !.at = "observe"]) /\ Fault /\ UNCHANGED metric

\* The loop over the list: the next transaction, or its end.
NextShowtime ==
    /\ sweep.at = "next"
    /\ Turns([sweep EXCEPT !.at = IF sweep.todo = <<>> THEN "observe" ELSE "begin"])
    /\ UNCHANGED <<metric, faults>>

\* The transaction of Head(todo) is over; busy goes on with the next showtime,
\* any other error ends the sweep.
Visited(at) == [sweep EXCEPT !.at = at, !.todo = Tail(@), !.freed = 0]

SweepLock ==
    /\ sweep.at = "begin"
    /\ LockShowtime(Sweeper, Head(sweep.todo))
    /\ sweep' = [sweep EXCEPT !.at = "reclaim"]
    /\ UNCHANGED <<lapsed, metric, released, undone, lapses, faults, stopping>>

\* Mutant: a busy showtime ends the sweep.
BadSweepNoLock ==
    /\ sweep.at = "begin"
    /\ \/ lock[Head(sweep.todo)] # None /\ Turns(Visited("observe")) /\ UNCHANGED faults
       \/ Turns(Visited("observe")) /\ Fault
    /\ UNCHANGED metric

\* lock_timeout while another transaction has the showtime; or an error.
SweepNoLock ==
    /\ sweep.at = "begin"
    /\ \/ lock[Head(sweep.todo)] # None /\ Turns(Visited("next")) /\ UNCHANGED faults
       \/ Turns(Visited("observe")) /\ Fault
    /\ UNCHANGED metric

\* Mutant: reclaimed is a running total that outlives the sweep.
BadReclaim ==
    LET n == lapsed[Head(sweep.todo)] IN
    /\ sweep.at = "reclaim"
    /\ Turns([sweep EXCEPT !.at = "commit", !.freed = n, !.reclaimed = metric + @ + n])
    /\ UNCHANGED <<metric, faults>>

\* ReclaimExpiredSeatsForShowtime updates n rows (none, if requests have been
\* faster since the list was read), by which reclaimed is increased before COMMIT.
Reclaim ==
    LET n == lapsed[Head(sweep.todo)] IN
    /\ sweep.at = "reclaim"
    /\ Turns([sweep EXCEPT !.at = "commit", !.freed = n, !.reclaimed = @ + n])
    /\ UNCHANGED <<metric, faults>>

ReclaimFails ==
    /\ sweep.at = "reclaim"
    /\ \E at \in {"next", "observe"} : sweep' = Visited(at)
    /\ Fault
    /\ EndTx(Sweeper)
    /\ UNCHANGED <<lapsed, metric, released, undone, lapses, stopping>>

\* The claims reclaimed are released; what lapsed since then stays.
Release ==
    /\ lapsed' = [lapsed EXCEPT ![Head(sweep.todo)] = @ - sweep.freed]
    /\ released' = released + sweep.freed
    /\ UNCHANGED undone

\* COMMIT is carried out and acknowledged, or only carried out, or refused.
SweepCommit ==
    /\ sweep.at = "commit"
    /\ \/ Release /\ sweep' = Visited("next") /\ UNCHANGED faults
       \/ Release /\ sweep' = Visited("observe") /\ Fault
       \/ /\ \E at \in {"next", "observe"} : sweep' = Visited(at)
          /\ Fault
          /\ undone' = undone + sweep.freed
          /\ UNCHANGED <<lapsed, released>>
    /\ EndTx(Sweeper)
    /\ UNCHANGED <<metric, lapses, stopping>>

\* Sweep has returned: a done context ends the loop before anything is reported.
ObserveSweep ==
    /\ sweep.at = "observe"
    /\ Turns([sweep EXCEPT !.at = IF stopping THEN "done" ELSE "waiting",
                           !.todo = <<>>, !.reclaimed = 0])
    /\ metric' = IF stopping THEN metric ELSE metric + sweep.reclaimed
    /\ UNCHANGED faults

Sweep ==
    \/ Wake \/ ListShowtimes \/ NextShowtime \/ SweepLock \/ SweepNoLock
    \/ Reclaim \/ ReclaimFails \/ SweepCommit \/ ObserveSweep

-----------------------------------------------------------------------------
(* Properties                                                              *)

SweepTypeOK ==
    /\ sweep.at \in {"waiting", "list", "next", "begin", "reclaim", "commit", "observe", "done"}
    /\ sweep.todo \in Seq(Showtimes) /\ Len(sweep.todo) <= Batch
    /\ {sweep.freed, sweep.reclaimed, metric, released, undone} \subseteq Nat
    /\ stopping \in BOOLEAN

\* Between two sweeps the counter has every claim that the sweeper released,
\* although sweeps break off half-way and acknowledgements get lost, and beyond
\* them only the claims of the transactions whose COMMIT was refused: reclaimed
\* is increased by the rows of a whole showtime before that COMMIT, and nothing
\* takes them back.
CounterDrift ==
    sweep.at = "waiting" => metric = released + undone
=============================================================================

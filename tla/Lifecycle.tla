------------------------------ MODULE Lifecycle ------------------------------
(***************************************************************************)
(* One replica from start to exit: run (cmd/cinebook-api/main.go), the     *)
(* sweep loop, the requests and probes its server handles, and the pool of *)
(* database connections they share.  A request that needs the database     *)
(* waits for a connection, keeps it for its transaction, and gives it      *)
(* back.  Before it serves, the replica loads its settings (Config) and    *)
(* migrates the database together with the other replicas (Migrations).    *)
(***************************************************************************)
EXTENDS Config, Migrations, FiniteSets

CONSTANTS
    Self,         \* this one of the Replicas
    Environments, \* the environments it may be started in
    Requests,   \* API requests that may arrive
    Probes,     \* readiness probes that may arrive
    MaxConns    \* the pool's ceiling

ASSUME PoolAssumption == MaxConns \in Nat \ {0}
ASSUME SelfAssumption == Self \in Replicas
ASSUME EnvironmentsAssumption == Environments \subseteq Environment

VARIABLES
    phase,      \* where run is
    exit,       \* what run returned
    signalled,  \* SIGTERM or SIGINT: ctx is done
    draining,   \* Health.draining
    listener,   \* none, open or closed
    broken,     \* Serve has returned an error of its own
    pool,       \* none, open, closing (Close waits) or closed
    request,    \* request[r]: where the request is
    probe,      \* probe[i]: where the probe is
    sweeper,    \* where the sweep loop is
    env,        \* the environment, which nobody changes
    dbUp        \* the database answers

vars == <<phase, exit, signalled, draining, listener, broken, pool, request,
          probe, sweeper, env, dbUp, migrationVars>>

\* The goroutines' state; run's own; what is around the process.
work == <<request, probe, sweeper>>
main == <<phase, exit, draining, listener, broken, pool>>
outside == <<env, dbUp, migrationVars>>

-----------------------------------------------------------------------------
(* The pool                                                                *)

Acquired ==
    Cardinality({r \in Requests : request[r] = "conn"})
      + Cardinality({i \in Probes : probe[i] = "conn"})
      + (IF sweeper = "conn" THEN 1 ELSE 0)

CanAcquire == pool = "open" /\ Acquired < MaxConns

-----------------------------------------------------------------------------
(* run                                                                     *)

\* An error before the server starts: run returns through its defers.
Fail(after) ==
    /\ phase' = after
    /\ exit' = "error"
    /\ UNCHANGED <<signalled, draining, listener, broken, pool, work, outside>>

\* config.Load reports every invalid variable, and run gives up.
Load ==
    /\ phase = "start"
    /\ \/ Errors(env) # {} /\ Fail("exited")
       \/ /\ Errors(env) = {}
          /\ phase' = "configured"
          /\ UNCHANGED <<exit, signalled, draining, listener, broken, pool, work, outside>>

\* store.New; Migrate is next.
Open ==
    /\ phase = "configured"
    /\ \/ Fail("exited")
       \/ /\ dbUp
          /\ phase' = "opened"
          /\ pool' = "open"
          /\ BeginMigrate(Self)
          /\ UNCHANGED <<exit, signalled, draining, listener, broken, work, env, dbUp>>

\* st.Migrate, step by step; it returns when it has unlocked.
Migrate ==
    /\ phase = "opened" /\ dbUp
    /\ Migrates(Self)
    /\ phase' = IF migrating'[Self] = "done" THEN "migrated" ELSE "opened"
    /\ UNCHANGED <<exit, signalled, draining, listener, broken, pool, work, env, dbUp>>

\* Mutant: the error of Migrate is only logged.
BadMigrateError ==
    /\ phase = "opened"
    /\ MigrateFails(Self) \/ UnlockFails(Self)
    /\ phase' = "migrated"
    /\ UNCHANGED <<exit, signalled, draining, listener, broken, pool, work, env, dbUp>>

\* st.Migrate returns an error, and run gives up.
MigrateError ==
    /\ phase = "opened"
    /\ MigrateFails(Self) \/ UnlockFails(Self)
    /\ phase' = "closing" /\ exit' = "error"
    /\ UNCHANGED <<signalled, draining, listener, broken, pool, work, env, dbUp>>

\* net.Listen, then the sweeper and the server are started.
Listen ==
    /\ phase = "migrated"
    /\ \/ Fail("closing")
       \/ /\ phase' = "serving"
          /\ listener' = "open"
          /\ sweeper' = "waiting"
          /\ UNCHANGED <<exit, signalled, draining, broken, pool, request, probe, outside>>

\* Accept failed: Serve closes the listener and returns.  run sees it unless
\* it has already seen the signal.
ServeFails ==
    /\ phase \in {"serving", "draining"} /\ listener = "open"
    /\ listener' = "closed"
    /\ broken' = TRUE
    /\ IF phase = "serving" THEN phase' = "reaping" /\ exit' = "error"
       ELSE UNCHANGED <<phase, exit>>
    /\ UNCHANGED <<signalled, draining, pool, work, outside>>

\* Mutant: the listener is closed first.
BadDrain ==
    /\ phase = "serving" /\ signalled
    /\ phase' = "draining"
    /\ listener' = "closed"
    /\ UNCHANGED <<exit, signalled, draining, broken, pool, work, outside>>

\* The signal was seen: readiness fails, the listener stays open for a while.
Drain ==
    /\ phase = "serving" /\ signalled
    /\ phase' = "draining"
    /\ draining' = TRUE
    /\ UNCHANGED <<exit, signalled, listener, broken, pool, work, outside>>

\* The drain delay is over: srv.Shutdown closes the listener.
Shutdown ==
    /\ phase = "draining"
    /\ phase' = "shutdown"
    /\ listener' = "closed"
    /\ UNCHANGED <<exit, signalled, draining, broken, pool, work, outside>>

InFlight ==
    \/ \E r \in Requests : request[r] \in {"queued", "conn"}
    \/ \E i \in Probes : probe[i] \in {"entered", "queued", "conn"}

\* Shutdown returns once nothing is in flight, or at its timeout.
ShutdownEnds ==
    /\ phase = "shutdown"
    /\ phase' = "reaping"
    /\ exit' = IF InFlight THEN "error" ELSE "ok"
    /\ UNCHANGED <<signalled, draining, listener, broken, pool, work, outside>>

\* Mutant: run does not wait for the sweeper.
BadReap ==
    /\ phase = "reaping"
    /\ phase' = "closing"
    /\ UNCHANGED <<exit, signalled, draining, listener, broken, pool, work, outside>>

\* sweeper.Wait, then the defers.
Reap ==
    /\ phase = "reaping" /\ sweeper = "done"
    /\ phase' = "closing"
    /\ UNCHANGED <<exit, signalled, draining, listener, broken, pool, work, outside>>

\* st.Close: no connection is given out any more; it returns when all are back.
Close ==
    /\ phase = "closing" /\ pool \in {"open", "closing"}
    /\ IF Acquired = 0 THEN pool' = "closed" /\ phase' = "exited" /\ SessionEnds(Self)
       ELSE pool = "open" /\ pool' = "closing" /\ UNCHANGED <<phase, migrationVars>>
    /\ UNCHANGED <<exit, signalled, draining, listener, broken, work, env, dbUp>>

Signal ==
    /\ ~signalled /\ phase # "exited"
    /\ signalled' = TRUE
    /\ UNCHANGED <<main, work, outside>>

\* A second signal kills the process wherever it is.
Kill ==
    /\ signalled /\ phase # "exited"
    /\ phase' = "exited"
    /\ exit' = "killed"
    /\ SessionEnds(Self)
    /\ UNCHANGED <<signalled, draining, listener, broken, pool, work, env, dbUp>>

Run == Load \/ Open \/ Migrate \/ Listen \/ Drain \/ Shutdown \/ ShutdownEnds \/ Reap \/ Close

-----------------------------------------------------------------------------
(* Requests                                                                *)

Alive == phase # "exited"

Go(r, to) ==
    /\ Alive
    /\ request' = [request EXCEPT ![r] = to]
    /\ UNCHANGED <<main, signalled, probe, sweeper, outside>>

Arrive(r) == request[r] = "new" /\ listener = "open" /\ Go(r, "queued")
Acquire(r) == request[r] = "queued" /\ CanAcquire /\ Go(r, "conn")

\* The pool was closed before the request got a connection: it fails.
CutOff(r) == request[r] = "queued" /\ pool \in {"closing", "closed"} /\ Go(r, "cut")

\* The statements are done, failed or cancelled, and the connection goes back.
Finish(r) == request[r] = "conn" /\ Go(r, "done")

\* The client went away.
Leave(r) == request[r] = "queued" /\ Go(r, "done")

-----------------------------------------------------------------------------
(* The sweep loop.  Its context ends with the signal, or when run stops it. *)

SweepCtxDone == signalled \/ phase = "reaping"

Sweeps(to) ==
    /\ Alive
    /\ sweeper' = to
    /\ UNCHANGED <<main, signalled, request, probe, outside>>

\* Mutant: the loop waits for its interval only, and never for its context.
BadSweepLoop ==
    \/ sweeper = "waiting" /\ Sweeps("queued")
    \/ sweeper = "queued" /\ CanAcquire /\ Sweeps("conn")
    \/ sweeper = "conn" /\ \E to \in {"queued", "waiting"} : Sweeps(to)

\* The interval is over; a transaction of the sweep takes and returns a
\* connection; a done context ends whatever the sweep is at.
SweepLoop ==
    \/ sweeper = "waiting" /\ ~SweepCtxDone /\ Sweeps("queued")
    \/ sweeper = "queued" /\ CanAcquire /\ Sweeps("conn")
    \/ sweeper = "conn" /\ \E to \in {"queued", "waiting"} : ~SweepCtxDone /\ Sweeps(to)
    \/ sweeper \in {"waiting", "queued", "conn"} /\ SweepCtxDone /\ Sweeps("done")

-----------------------------------------------------------------------------
(* Probes                                                                  *)

Answer(i, to) ==
    /\ Alive
    /\ probe' = [probe EXCEPT ![i] = to]
    /\ UNCHANGED <<main, signalled, request, sweeper, outside>>

\* Ready: the draining flag first.
Ready(i) ==
    /\ probe[i] = "new" /\ listener = "open"
    /\ Answer(i, IF draining THEN "unready" ELSE "entered")

\* Ping: a full pool is reachable by definition.
Ping(i) ==
    /\ probe[i] = "entered"
    /\ Answer(i, IF Acquired >= MaxConns THEN "ready" ELSE "queued")

\* pool.Ping takes a connection and asks the database; readinessTimeout ends
\* a probe that waits for either.
PoolPing(i) ==
    \/ probe[i] = "queued" /\ CanAcquire /\ Answer(i, "conn")
    \/ probe[i] = "queued" /\ ~CanAcquire /\ Answer(i, "unready")
    \/ probe[i] = "conn" /\ Answer(i, IF dbUp THEN "ready" ELSE "unready")

-----------------------------------------------------------------------------
Outage ==
    /\ dbUp
    /\ dbUp' = FALSE
    /\ UNCHANGED <<main, signalled, work, env, migrationVars>>

\* Another replica starts, migrates, fails, or ends at any point.
OtherReplica(p) ==
    /\ \/ BeginMigrate(p)
       \/ dbUp /\ Migrates(p)
       \/ MigrateFails(p) \/ UnlockFails(p)
       \/ migrating[p] # "no" /\ SessionEnds(p)
    /\ UNCHANGED <<main, signalled, work, env, dbUp>>

Init ==
    /\ phase = "start" /\ exit = "none" /\ signalled = FALSE
    /\ draining = FALSE /\ listener = "none" /\ broken = FALSE /\ pool = "none"
    /\ request = [r \in Requests |-> "new"]
    /\ probe = [i \in Probes |-> "new"]
    /\ sweeper = "none"
    /\ env \in Environments
    /\ dbUp = TRUE
    /\ InitMigrations

Served(r) == Acquire(r) \/ CutOff(r) \/ Finish(r)
Probed(i) == Ping(i) \/ PoolPing(i)

Next ==
    \/ Run \/ MigrateError \/ ServeFails \/ Signal \/ Kill \/ Outage
    \/ \E p \in Replicas \ {Self} : OtherReplica(p)
    \/ \E r \in Requests : Arrive(r) \/ Served(r) \/ Leave(r)
    \/ SweepLoop
    \/ \E i \in Probes : Ready(i) \/ Probed(i)

Spec == Init /\ [][Next]_vars

\* run goes on by itself, and a done context or a lost database ends Migrate;
\* the statements a connection is kept for come to an end; the sweep loop obeys
\* its context.  Postgres serves the queue of an advisory lock in order, so a
\* replica that waits for the migrations gets its turn; the other replicas
\* go on with their migrations, and exit when those fail.
FairSpec ==
    /\ Spec
    /\ WF_vars(Run) /\ SF_vars(Migrate)
    /\ WF_vars((signalled \/ ~dbUp) /\ MigrateError)
    /\ WF_vars(SweepLoop)
    /\ \A r \in Requests : WF_vars(Finish(r))
    /\ \A i \in Probes : WF_vars(Probed(i))
    /\ \A p \in Replicas \ {Self} :
         WF_vars(OtherReplica(p) /\ migrating[p] \in {"locked", "applying", "failed"})

-----------------------------------------------------------------------------
(* Properties                                                              *)

\* A graceful exit has lost nobody: when run returns without an error, every
\* request it had accepted was served to its end.
GracefulExitIsClean ==
    exit = "ok" => \A r \in Requests : request[r] \in {"new", "done"}

\* The store outlives the sweeper: once it is being closed, the sweep loop has
\* returned, on every path through run.
SweeperEndsFirst ==
    pool \in {"closing", "closed"} => sweeper \in {"none", "done"}

\* The store closes last: st.Close takes the pool from under nobody, neither the
\* sweep loop, whichever way run ends, nor a request, if run ends gracefully.
StoreClosesLast == SweeperEndsFirst /\ GracefulExitIsClean

\* A connection is refused only after readiness has failed, unless the
\* listener itself broke.
UnreadyBeforeRefused == listener = "closed" /\ ~broken => draining

\* A replica serves only a database that has every migration it was built with,
\* whoever applied them and whatever failed on the way.
ServesOnlyMigrated == listener = "open" => schema = Latest

\* A duration that is a positive number of units and no larger than an int32.
Tellable(duration, unit) == unit <= duration /\ duration \div unit <= MaxInt32

\* What the operator set is in effect: a replica opens its pool only if every
\* variable was read as it was set, what was left unset has a usable default,
\* and the timeouts and the lifetime reach Postgres as positive numbers of its
\* units that it accepts, on every machine, unless one was set that cannot be
\* told it: a timeout below a unit is none, one above the largest int32 fails
\* every transaction, and so long a lifetime may end before it begins.
SettingsTakeEffect ==
    LET settings == Effective(env) IN
    pool # "none" =>
        /\ env["DSN"] # Unset
        /\ \A name \in Settings : env[name] # Unset => settings[name] = env[name]
        /\ \A name \in Settings \ {"DSN", "DRAIN_DELAY", "LOG_LEVEL"} : settings[name] > 0
        /\ \A name \in {"LOCK_TIMEOUT", "STATEMENT_TIMEOUT"} :
             \/ Milliseconds(settings[name]) \in 1 .. MaxInt32
             \/ env[name] # Unset /\ ~Tellable(env[name], Millisecond)
        /\ \/ /\ TtlSeconds(settings["HOLD_TTL"]) = {settings["HOLD_TTL"] \div Second}
              /\ settings["HOLD_TTL"] >= Second
           \/ env["HOLD_TTL"] # Unset /\ ~Tellable(env["HOLD_TTL"], Second)

\* A replica does not wait for ever for the others to migrate.
StartsUp == phase = "opened" ~> phase # "opened"

\* After the signal the process comes to its end, whatever is in flight.
ShutsDown == signalled ~> phase = "exited"

\* README.md: "A pool with every connection busy counts as reachable, so a hot
\* showtime does not read as an outage".  A probe is told unready only by a
\* replica that drains, has closed its pool, or whose database does not answer.
BusyPoolIsReady ==
    \A i \in Probes : probe[i] = "unready" => draining \/ ~dbUp \/ pool # "open"
=============================================================================

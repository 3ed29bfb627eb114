--------------------------- MODULE LifecycleProofs ---------------------------
(***************************************************************************)
(* What every way out of run has in common, for any number of requests and *)
(* probes and any size of the pool.  What Stopping checks of the exit is   *)
(* part of one inductive invariant, Exits, which says how far run must     *)
(* have come for each of its effects to be visible.                        *)
(*                                                                         *)
(* And what every way into it has in common, for any number of replicas    *)
(* and migrations: the invariant Migrated says who may be between the      *)
(* lock and the unlock, and what the schema is by then; and in every       *)
(* environment, the settings it goes on with are the ones it was given.    *)
(***************************************************************************)
EXTENDS Lifecycle, TLAPS

Requested == request \in [Requests -> {"new", "queued", "conn", "done", "cut"}]

\* The sweep loop runs only between Listen and Reap, and the pool is closed
\* only after.
SweeperInside ==
    /\ phase \in {"start", "configured", "opened", "migrated"} => sweeper = "none"
    /\ phase = "closing" => sweeper \in {"none", "done"}
    /\ pool \in {"closing", "closed"} => phase \in {"closing", "exited"}
    /\ SweeperEndsFirst

\* The listener goes from none to open to closed as run goes on.
ListenerInside ==
    /\ phase \in {"start", "configured", "opened", "migrated"} => listener = "none"
    /\ phase \in {"draining", "shutdown"} => draining
    /\ phase = "shutdown" => listener = "closed"
    /\ UnreadyBeforeRefused

\* Nobody is cut off before the pool is closed, and nobody arrives once run
\* has decided on a graceful exit.
NobodyLost ==
    /\ \A r \in Requests : request[r] = "cut" => pool \in {"closing", "closed"}
    /\ exit = "ok" => phase \in {"reaping", "closing", "exited"} /\ listener = "closed"
    /\ GracefulExitIsClean

Exits == Requested /\ SweeperInside /\ ListenerInside /\ NobodyLost

USE DEF SweeperInside, ListenerInside, NobodyLost, SweeperEndsFirst,
        UnreadyBeforeRefused, GracefulExitIsClean, Requested

\* run, its signals and the outage: no request moves.
LEMMA RunKeepsExits ==
    ASSUME Exits, Run \/ MigrateError \/ ServeFails \/ Signal \/ Kill \/ Outage
    PROVE  Exits'
  <1> USE DEF Exits, work, main
  <1>1. CASE Open  BY <1>1 DEF Open, Fail
  <1>2. CASE Migrate  BY <1>2 DEF Migrate, Fail
  <1>3. CASE Listen  BY <1>3 DEF Listen, Fail
  <1>4. CASE ServeFails  BY <1>4 DEF ServeFails
  <1>5. CASE Drain  BY <1>5 DEF Drain
  <1>6. CASE Shutdown  BY <1>6 DEF Shutdown
  <1>7. CASE ShutdownEnds
    <2>1. ASSUME exit' = "ok"  PROVE \A r \in Requests : request[r] \in {"new", "done"}
      BY <1>7, <2>1 DEF ShutdownEnds, InFlight
    <2> QED  BY <1>7, <2>1 DEF ShutdownEnds
  <1>8. CASE Reap  BY <1>8 DEF Reap
  <1>9. CASE Close  BY <1>9 DEF Close
  <1>10. CASE Signal  BY <1>10 DEF Signal
  <1>11. CASE Kill  BY <1>11 DEF Kill
  <1>12. CASE Outage  BY <1>12 DEF Outage
  <1>13. CASE Load  BY <1>13 DEF Load, Fail
  <1>14. CASE MigrateError  BY <1>14 DEF MigrateError
  <1> QED
    BY <1>1, <1>2, <1>3, <1>4, <1>5, <1>6, <1>7, <1>8, <1>9, <1>10, <1>11, <1>12,
       <1>13, <1>14 DEF Run

\* Requests, probes, the sweep loop and the other replicas: run does not move.
LEMMA WorkKeepsExits ==
    ASSUME Exits,
           \/ \E r \in Requests : Arrive(r) \/ Served(r) \/ Leave(r)
           \/ SweepLoop
           \/ \E i \in Probes : Ready(i) \/ Probed(i)
           \/ \E p \in Replicas \ {Self} : OtherReplica(p)
    PROVE  Exits'
  <1> USE DEF Exits, main
  <1>1. CASE \E r \in Requests : Arrive(r) \/ Served(r) \/ Leave(r)
    <2>1. PICK r \in Requests : Arrive(r) \/ Served(r) \/ Leave(r)  BY <1>1
    <2>2. CASE Arrive(r)  BY <2>2 DEF Arrive, Go
    <2>3. CASE Acquire(r)  BY <2>3 DEF Acquire, Go
    <2>4. CASE CutOff(r)  BY <2>4 DEF CutOff, Go
    <2>5. CASE Finish(r)  BY <2>5 DEF Finish, Go
    <2>6. CASE Leave(r)  BY <2>6 DEF Leave, Go
    <2> QED  BY <2>1, <2>2, <2>3, <2>4, <2>5, <2>6 DEF Served
  <1>2. CASE SweepLoop
    <2>1. sweeper \in {"waiting", "queued", "conn"} /\ Alive
      BY <1>2 DEF SweepLoop, Sweeps
    <2>2. UNCHANGED <<main, request>>
      BY <1>2 DEF SweepLoop, Sweeps
    <2> QED  BY <2>1, <2>2 DEF Alive
  <1>3. CASE \E i \in Probes : Ready(i) \/ Probed(i)
    <2>1. UNCHANGED <<main, request, sweeper>>
      BY <1>3 DEF Ready, Probed, Ping, PoolPing, Answer
    <2> QED  BY <2>1
  <1>4. CASE \E p \in Replicas \ {Self} : OtherReplica(p)
    BY <1>4 DEF OtherReplica, work
  <1> QED  BY <1>1, <1>2, <1>3, <1>4

\* Exits holds in every reachable state.
THEOREM ExitsInvariant == Spec => []Exits
  <1>1. Init => Exits  BY DEF Init, Exits
  <1>2. Exits /\ [Next]_vars => Exits'
    <2> SUFFICES ASSUME Exits, [Next]_vars PROVE Exits'  OBVIOUS
    <2>1. CASE Next  BY <2>1, RunKeepsExits, WorkKeepsExits DEF Next
    <2>2. CASE UNCHANGED vars  BY <2>2 DEF vars, Exits, main
    <2> QED  BY <2>1, <2>2
  <1> QED  BY <1>1, <1>2, PTL DEF Spec

\* The sweep loop has returned before st.Close takes the pool from under it, on
\* the graceful path, when Serve fails, and when run never got to serve; and when
\* run returns nil, no accepted request was cut off.
THEOREM StoreAlwaysClosesLast == Spec => []StoreClosesLast
  <1>1. Exits => StoreClosesLast  BY DEF Exits, StoreClosesLast
  <1> QED  BY <1>1, ExitsInvariant, PTL

\* health.Drain comes before any deliberate close of the listener.
THEOREM AlwaysUnreadyBeforeRefused == Spec => []UnreadyBeforeRefused
  <1>1. Exits => UnreadyBeforeRefused  BY DEF Exits
  <1> QED  BY <1>1, ExitsInvariant, PTL

-----------------------------------------------------------------------------
(* Migrations                                                              *)

\* Only the owner of the lock lists and applies, it applies to what it listed,
\* and who is done has left the latest schema behind.
Exclusive ==
    /\ MigrationsTypeOK
    /\ \A p \in Replicas : migrating[p] \in {"locked", "applying"} => migrationLock = p
    /\ MigrationsDoNotRace
    /\ \A p \in Replicas : migrating[p] = "done" => schema = Latest

\* run is past Migrate only when the schema is the latest.
Migrated ==
    /\ Exclusive
    /\ phase \notin {"start", "configured", "opened", "closing", "exited"} => schema = Latest
    /\ ServesOnlyMigrated

\* Whatever a replica does, it keeps the others out, and a schema that is the
\* latest stays the latest.
LEMMA MigrationKeepsExclusive ==
    ASSUME Exclusive, NEW p \in Replicas,
           BeginMigrate(p) \/ Migrates(p) \/ MigrateFails(p) \/ UnlockFails(p) \/ SessionEnds(p)
    PROVE  Exclusive' /\ (schema = Latest => schema' = Latest)
  <1> USE MigrationsAssumption
      DEF Exclusive, MigrationsTypeOK, MigrationsDoNotRace, Step, Free
  <1>1. CASE BeginMigrate(p)  BY <1>1 DEF BeginMigrate
  <1>2. CASE SessionLock(p)  BY <1>2 DEF SessionLock
  <1>3. CASE ListMigrations(p)  BY <1>3 DEF ListMigrations
  <1>4. CASE ApplyMigration(p)
    <2>1. version[p] = schema /\ schema < Latest  BY <1>4 DEF ApplyMigration
    <2>2. \A q \in Replicas : q # p => migrating[q] \notin {"locked", "applying", "done"}
      BY <1>4, <2>1 DEF ApplyMigration
    <2> QED  BY <1>4, <2>1, <2>2 DEF ApplyMigration
  <1>5. CASE SessionUnlock(p)  BY <1>5 DEF SessionUnlock
  <1>6. CASE MigrateFails(p)  BY <1>6 DEF MigrateFails
  <1>7. CASE UnlockFails(p)  BY <1>7 DEF UnlockFails
  <1>8. CASE SessionEnds(p)  BY <1>8 DEF SessionEnds
  <1> QED  BY <1>1, <1>2, <1>3, <1>4, <1>5, <1>6, <1>7, <1>8 DEF Migrates

\* A step that leaves the migrations alone leaves Exclusive alone.
LEMMA OthersKeepExclusive ==
    ASSUME Exclusive, UNCHANGED migrationVars
    PROVE  Exclusive' /\ schema' = schema
  BY DEF Exclusive, MigrationsTypeOK, MigrationsDoNotRace, migrationVars

\* run, on its way in and out.
LEMMA RunKeepsMigrated ==
    ASSUME Exits, Migrated, Run \/ MigrateError \/ ServeFails \/ Signal \/ Kill \/ Outage
    PROVE  Migrated'
  <1> USE SelfAssumption, MigrationsAssumption DEF Migrated, ServesOnlyMigrated
  <1>1. CASE Open
    <2>1. CASE Fail("exited")
      BY <1>1, <2>1, OthersKeepExclusive DEF Open, Fail, outside
    <2>2. CASE BeginMigrate(Self)
      BY <1>1, <2>2, MigrationKeepsExclusive DEF Open, Fail
    <2> QED  BY <1>1, <2>1, <2>2 DEF Open
  <1>2. CASE Migrate
    <2>1. Exclusive' /\ (schema = Latest => schema' = Latest)
      BY <1>2, MigrationKeepsExclusive DEF Migrate
    <2>2. migrating'[Self] = "done" => schema' = Latest
      BY <2>1 DEF Exclusive
    <2> QED  BY <1>2, <2>1, <2>2 DEF Migrate
  <1>3. CASE MigrateError
    <2>1. Exclusive' /\ (schema = Latest => schema' = Latest)
      BY <1>3, MigrationKeepsExclusive DEF MigrateError
    <2> QED  BY <1>3, <2>1 DEF MigrateError
  <1>4. CASE Close
    <2>1. CASE SessionEnds(Self)
      BY <1>4, <2>1, MigrationKeepsExclusive DEF Close
    <2>2. CASE UNCHANGED <<phase, migrationVars>>
      BY <1>4, <2>2, OthersKeepExclusive DEF Close
    <2> QED  BY <1>4, <2>1, <2>2 DEF Close
  <1>5. CASE Kill
    BY <1>5, MigrationKeepsExclusive DEF Kill
  <1>6. CASE Load \/ Listen \/ ServeFails \/ Drain \/ Shutdown \/ ShutdownEnds \/ Reap
             \/ Signal \/ Outage
    <2>1. UNCHANGED migrationVars
      BY <1>6 DEF Load, Listen, ServeFails, Drain, Shutdown, ShutdownEnds, Reap, Signal,
                  Outage, Fail, outside
    <2>2. Exclusive' /\ schema' = schema  BY <2>1, OthersKeepExclusive
    <2>3. CASE Load  BY <2>2, <2>3 DEF Load, Fail
    <2>4. CASE Listen  BY <2>2, <2>4 DEF Listen, Fail
    <2>5. CASE ServeFails  BY <2>2, <2>5 DEF ServeFails
    <2>6. CASE Drain  BY <2>2, <2>6 DEF Drain
    <2>7. CASE Shutdown  BY <2>2, <2>7 DEF Shutdown
    <2>8. CASE ShutdownEnds  BY <2>2, <2>8 DEF ShutdownEnds
    <2>9. CASE Reap  BY <2>2, <2>9 DEF Reap
    <2>10. CASE Signal  BY <2>2, <2>10 DEF Signal, main
    <2>11. CASE Outage  BY <2>2, <2>11 DEF Outage, main
    <2> QED  BY <1>6, <2>3, <2>4, <2>5, <2>6, <2>7, <2>8, <2>9, <2>10, <2>11
  <1> QED  BY <1>1, <1>2, <1>3, <1>4, <1>5, <1>6 DEF Run

\* The requests, the sweep loop and the probes leave run and the migrations
\* alone; another replica leaves run alone.
LEMMA WorkKeepsMigrated ==
    ASSUME Migrated,
           \/ \E r \in Requests : Arrive(r) \/ Served(r) \/ Leave(r)
           \/ SweepLoop
           \/ \E i \in Probes : Ready(i) \/ Probed(i)
           \/ \E p \in Replicas \ {Self} : OtherReplica(p)
    PROVE  Migrated'
  <1> USE DEF Migrated, ServesOnlyMigrated
  <1>1. CASE \E p \in Replicas \ {Self} : OtherReplica(p)
    <2>1. PICK p \in Replicas \ {Self} : OtherReplica(p)  BY <1>1
    <2>2. Exclusive' /\ (schema = Latest => schema' = Latest)
      BY <2>1, MigrationKeepsExclusive DEF OtherReplica
    <2> QED  BY <2>1, <2>2 DEF OtherReplica, main
  <1>2. CASE \/ \E r \in Requests : Arrive(r) \/ Served(r) \/ Leave(r)
             \/ SweepLoop
             \/ \E i \in Probes : Ready(i) \/ Probed(i)
    <2>1. UNCHANGED <<main, migrationVars>>
      BY <1>2 DEF Arrive, Served, Acquire, CutOff, Finish, Leave, Go, SweepLoop, Sweeps,
                  Ready, Probed, Ping, PoolPing, Answer, outside
    <2> QED  BY <2>1, OthersKeepExclusive DEF main
  <1> QED  BY <1>1, <1>2

\* Migrated holds in every reachable state.
THEOREM MigratedInvariant == Spec => []Migrated
  <1>1. Init => Migrated
    BY MigrationsAssumption
    DEF Init, InitMigrations, Migrated, Exclusive, MigrationsTypeOK, MigrationsDoNotRace,
        ServesOnlyMigrated
  <1>2. Exits /\ Migrated /\ [Next]_vars => Migrated'
    <2> SUFFICES ASSUME Exits, Migrated, [Next]_vars PROVE Migrated'  OBVIOUS
    <2>1. CASE Next  BY <2>1, RunKeepsMigrated, WorkKeepsMigrated DEF Next
    <2>2. CASE UNCHANGED vars
      BY <2>2, OthersKeepExclusive DEF vars, Migrated, ServesOnlyMigrated
    <2> QED  BY <2>1, <2>2
  <1> QED  BY <1>1, <1>2, ExitsInvariant, PTL DEF Spec

\* The session lock makes every migration happen once and in order, for any
\* number of replicas that start, fail and die while they migrate.
THEOREM MigrationsNeverRace == Spec => []MigrationsDoNotRace
  <1>1. Migrated => MigrationsDoNotRace  BY DEF Migrated, Exclusive
  <1> QED  BY <1>1, MigratedInvariant, PTL

\* No replica listens before the database has its last migration.
THEOREM OnlyMigratedIsServed == Spec => []ServesOnlyMigrated
  <1>1. Migrated => ServesOnlyMigrated  BY DEF Migrated
  <1> QED  BY <1>1, MigratedInvariant, PTL
-----------------------------------------------------------------------------
(* Settings                                                                *)

\* The settings whose default belongs to a layer below Load.
Defaulted == DOMAIN StoreDefaults \cup DOMAIN BookingDefaults \cup DOMAIN ApiDefaults

LEMMA DefaultedAre ==
    /\ DOMAIN StoreDefaults = {"DB_MAX_CONNS", "LOCK_TIMEOUT", "STATEMENT_TIMEOUT"}
    /\ DOMAIN BookingDefaults = {"HOLD_TTL", "MAX_SEATS_PER_HOLD"}
    /\ DOMAIN ApiDefaults = {"RATE_PER_SECOND", "RATE_BURST"}
  BY DEF StoreDefaults, BookingDefaults, ApiDefaults

LEMMA OneLayer ==
    ASSUME NEW defaults, NEW s, NEW name \in Settings
    PROVE  ApplyDefaults(defaults, s)[name] =
             IF name \in DOMAIN defaults /\ s[name] <= 0 THEN defaults[name] ELSE s[name]
  BY DEF ApplyDefaults

\* The three layers do not get in each other's way: a setting that Load read as
\* a positive number is left alone, and a zero gets the default of its layer.
LEMMA LayersApply ==
    ASSUME NEW e, NEW name \in Settings
    PROVE  /\ name \notin Defaulted \/ Read(e, name) \in Nat \ {0} =>
                Effective(e)[name] = Read(e, name)
           /\ name = "LOCK_TIMEOUT" /\ Read(e, name) = 0 => Effective(e)[name] = 2 * Second
           /\ name = "STATEMENT_TIMEOUT" /\ Read(e, name) = 0 => Effective(e)[name] = 5 * Second
           /\ name = "HOLD_TTL" /\ Read(e, name) = 0 => Effective(e)[name] = 420 * Second
           /\ name \in Defaulted /\ Read(e, name) = 0 => Effective(e)[name] \in Nat \ {0}
  <1>1. PICK read : read = [n \in Settings |-> Read(e, n)]
    OBVIOUS
  <1>2. PICK api : api = ApplyDefaults(ApiDefaults, read)
    OBVIOUS
  <1>3. PICK booking : booking = ApplyDefaults(BookingDefaults, api)
    OBVIOUS
  <1>4. Effective(e) = ApplyDefaults(StoreDefaults, booking)
    BY <1>1, <1>2, <1>3 DEF Effective
  <1>5. read[name] = Read(e, name)
    BY <1>1
  <1>6. api[name] = IF name \in DOMAIN ApiDefaults /\ read[name] <= 0
                    THEN ApiDefaults[name] ELSE read[name]
    BY <1>2, OneLayer
  <1>7. booking[name] = IF name \in DOMAIN BookingDefaults /\ api[name] <= 0
                        THEN BookingDefaults[name] ELSE api[name]
    BY <1>3, OneLayer
  <1>8. Effective(e)[name] = IF name \in DOMAIN StoreDefaults /\ booking[name] <= 0
                             THEN StoreDefaults[name] ELSE booking[name]
    BY <1>4, OneLayer
  <1>9. /\ StoreDefaults["DB_MAX_CONNS"] = 16 /\ StoreDefaults["LOCK_TIMEOUT"] = 2 * Second
        /\ StoreDefaults["STATEMENT_TIMEOUT"] = 5 * Second
        /\ BookingDefaults["HOLD_TTL"] = 420 * Second
        /\ BookingDefaults["MAX_SEATS_PER_HOLD"] = 10
        /\ ApiDefaults["RATE_PER_SECOND"] = 5 /\ ApiDefaults["RATE_BURST"] = 20
    BY DEF StoreDefaults, BookingDefaults, ApiDefaults
  <1>10. 2 * Second \in Nat \ {0} /\ 5 * Second \in Nat \ {0} /\ 420 * Second \in Nat \ {0}
    BY UnitsAssumption
  <1>11. CASE name \notin Defaulted \/ Read(e, name) \in Nat \ {0}
    <2>1. Effective(e)[name] = Read(e, name)
      BY <1>5, <1>6, <1>7, <1>8, <1>11 DEF Defaulted
    <2>2. QED
      BY <2>1, <1>11, DefaultedAre DEF Defaulted
  <1>12. CASE name \in Defaulted /\ Read(e, name) = 0
    <2>1. CASE name \in DOMAIN StoreDefaults
      BY <1>5, <1>6, <1>7, <1>8, <1>9, <1>10, <1>12, <2>1, DefaultedAre
    <2>2. CASE name \in DOMAIN BookingDefaults
      BY <1>5, <1>6, <1>7, <1>8, <1>9, <1>10, <1>12, <2>2, DefaultedAre
    <2>3. CASE name \in DOMAIN ApiDefaults
      BY <1>5, <1>6, <1>7, <1>8, <1>9, <1>12, <2>3, DefaultedAre
    <2>4. QED
      BY <1>12, <2>1, <2>2, <2>3 DEF Defaulted
  <1>13. CASE name \in Defaulted /\ Read(e, name) # 0 /\ Read(e, name) \notin Nat \ {0}
    BY <1>13, DefaultedAre DEF Defaulted
  <1>14. QED
    BY <1>11, <1>12, <1>13

\* What Load accepts, it reads as it was set; what is unset, it leaves to a
\* default.
LEMMA AcceptedIsRead ==
    ASSUME NEW e \in Environment, Errors(e) = {}, NEW name \in Settings
    PROVE  /\ e["DSN"] # Unset
           /\ e[name] # Unset =>
                /\ Read(e, name) = e[name]
                /\ name \notin {"LOG_LEVEL", "DRAIN_DELAY"} => e[name] \in Nat \ {0}
           /\ e[name] = Unset => Read(e, name) = OwnDefault(name)
  <1>1. e["DSN"] # Unset
    BY DEF Errors
  <1>2. e[name] = Unset \/ Accepts(name, e[name])
    BY DEF Errors
  <1>3. /\ e[name] \in Int \cup {Unset, Malformed}
        /\ name \in Texts => (e[name] # Unset => e[name] \in Nat \ {0})
    BY DEF Environment
  <1>4. ASSUME e[name] # Unset, name \notin {"LOG_LEVEL", "DRAIN_DELAY"}
        PROVE  e[name] \in Nat \ {0}
    <2>1. CASE name \in Texts
      BY <1>3, <1>4, <2>1
    <2>2. CASE name \notin Texts
      <3>1. e[name] \in Int /\ (e[name] \in 1 .. MaxInt32 \/ e[name] > 0)
        BY <1>2, <1>3, <1>4, <2>2 DEF Accepts
      <3>2. QED
        BY <3>1, UnitsAssumption
    <2>3. QED
      BY <2>1, <2>2
  <1>5. QED
    BY <1>1, <1>2, <1>4 DEF Read

\* The consequence for every setting.
LEMMA InEffect ==
    ASSUME NEW e \in Environment, Errors(e) = {}, NEW name \in Settings
    PROVE  /\ e[name] # Unset => Effective(e)[name] = e[name]
           /\ name \notin {"DSN", "DRAIN_DELAY", "LOG_LEVEL"} => Effective(e)[name] \in Nat \ {0}
           /\ name = "LOCK_TIMEOUT" /\ e[name] = Unset => Effective(e)[name] = 2 * Second
           /\ name = "STATEMENT_TIMEOUT" /\ e[name] = Unset => Effective(e)[name] = 5 * Second
           /\ name = "HOLD_TTL" /\ e[name] = Unset => Effective(e)[name] = 420 * Second
  <1>1. CASE e[name] # Unset
    <2>1. /\ Read(e, name) = e[name]
          /\ name \notin {"LOG_LEVEL", "DRAIN_DELAY"} => e[name] \in Nat \ {0}
      BY <1>1, AcceptedIsRead
    <2>2. name \in {"LOG_LEVEL", "DRAIN_DELAY"} => name \notin Defaulted
      BY DefaultedAre DEF Defaulted
    <2>3. Effective(e)[name] = e[name]
      BY <2>1, <2>2, LayersApply
    <2>4. QED
      BY <1>1, <2>1, <2>3
  <1>2. CASE e[name] = Unset
    <2>1. Read(e, name) = OwnDefault(name) /\ e["DSN"] # Unset
      BY <1>2, AcceptedIsRead
    <2>2. CASE name \in {"ADDR", "SHUTDOWN_TIMEOUT", "SWEEP_INTERVAL", "SWEEP_BATCH"}
      <3>1. OwnDefault(name) \in Nat \ {0}
        BY <2>2, UnitsAssumption DEF OwnDefault
      <3>2. Effective(e)[name] \in Nat \ {0}
        BY <2>1, <3>1, LayersApply
      <3>3. QED
        BY <1>2, <2>2, <3>2
    <2>3. CASE name \in Defaulted
      <3>1. OwnDefault(name) = 0
        BY <2>3, DefaultedAre DEF OwnDefault, Defaulted
      <3>2. QED
        BY <1>2, <2>1, <2>3, <3>1, LayersApply
    <2>4. CASE name \in {"DSN", "DRAIN_DELAY", "LOG_LEVEL"}
      BY <1>2, <2>4
    <2>5. QED
      BY <2>2, <2>3, <2>4, DefaultedAre DEF Settings, Texts, Integers32, Defaulted
  <1>3. QED
    BY <1>1, <1>2

\* The whole units of a duration that Postgres can be told.
LEMMA ToldInUnits ==
    ASSUME NEW d \in Nat, NEW unit \in Nat \ {0}, Tellable(d, unit)
    PROVE  d \div unit \in 1 .. MaxInt32
  <1>1. d >= unit /\ d \div unit <= MaxInt32  BY DEF Tellable
  <1>2. d \div unit \in Nat /\ d \div unit >= 1  BY <1>1
  <1> QED  BY <1>1, <1>2, UnitsAssumption

\* The defaults of the layers are among them.
LEMMA DefaultsAreTellable ==
    /\ \A d \in {2 * Second, 5 * Second} : Tellable(d, Millisecond)
    /\ Tellable(420 * Second, Second)
  <1>1. /\ Second \in Nat \ {0} /\ Millisecond \in Nat \ {0} /\ MaxInt32 \in Nat
        /\ Millisecond <= Second /\ 420 <= MaxInt32
    BY UnitsAssumption
  <1>2. PICK m \in Nat : m = MaxInt32 * Millisecond /\ 5 * Second <= m
    BY UnitsAssumption
  <1>3. ASSUME NEW d \in Nat, d <= m PROVE d \div Millisecond <= MaxInt32
    BY <1>1, <1>2, <1>3
  <1>4. 2 * Second \in Nat /\ 2 * Second <= m /\ 5 * Second \in Nat
    BY <1>1, <1>2
  <1>5. \A d \in {2 * Second, 5 * Second} : Tellable(d, Millisecond)
    BY <1>1, <1>2, <1>3, <1>4 DEF Tellable
  <1>6. (420 * Second) \div Second = 420 /\ Second <= 420 * Second
    BY <1>1
  <1> QED  BY <1>1, <1>5, <1>6 DEF Tellable

\* The environment is what it was, and a pool is opened only after Load found
\* nothing wrong with it.
Loaded ==
    /\ env \in Environments
    /\ phase = "configured" \/ pool # "none" => Errors(env) = {}

\* A replica that opens its pool runs with the settings its operator chose
\* (config.go), with defaults that work for the rest (applyDefaults of store,
\* booking and httpapi), and with timeouts and a lifetime that Postgres is told in
\* its units, on every machine, unless a positive one was set that is too short or
\* too long to be told (applyTimeouts, and the int32 of Hold).
THEOREM SettingsAreInEffect == Spec => []SettingsTakeEffect
  <1>1. Init => Loaded  BY DEF Init, Loaded
  <1>2. Loaded /\ [Next]_vars => Loaded'
    <2> SUFFICES ASSUME Loaded, [Next]_vars PROVE Loaded'  OBVIOUS
    <2>1. env' = env /\ (phase' = "configured" => Errors(env) = {})
          /\ (pool' # "none" => Errors(env) = {})
      <3> USE DEF Loaded
      <3>1. CASE Load  BY <3>1 DEF Load, Fail, outside
      <3>2. CASE Open  BY <3>2 DEF Open, Fail, outside
      <3>3. CASE Migrate \/ MigrateError  BY <3>3 DEF Migrate, MigrateError
      <3>4. CASE Listen \/ ServeFails \/ Drain
        BY <3>4 DEF Listen, ServeFails, Drain, Fail, outside
      <3>5. CASE Shutdown \/ ShutdownEnds \/ Reap
        BY <3>5 DEF Shutdown, ShutdownEnds, Reap, outside
      <3>6. CASE Close  BY <3>6 DEF Close
      <3>7. CASE Signal \/ Kill \/ Outage
        BY <3>7 DEF Signal, Kill, Outage, main, outside
      <3>8. CASE \E p \in Replicas \ {Self} : OtherReplica(p)
        BY <3>8 DEF OtherReplica, main
      <3>9. CASE \E r \in Requests : Arrive(r) \/ Served(r) \/ Leave(r)
        BY <3>9 DEF Arrive, Served, Acquire, CutOff, Finish, Leave, Go, main, outside
      <3>10. CASE SweepLoop  BY <3>10 DEF SweepLoop, Sweeps, main, outside
      <3>11. CASE \E i \in Probes : Ready(i) \/ Probed(i)
        BY <3>11 DEF Ready, Probed, Ping, PoolPing, Answer, main, outside
      <3>12. CASE UNCHANGED vars  BY <3>12 DEF vars
      <3> QED
        BY <3>1, <3>2, <3>3, <3>4, <3>5, <3>6, <3>7, <3>8, <3>9, <3>10, <3>11, <3>12
        DEF Next, Run
    <2> QED  BY <2>1 DEF Loaded
  <1>3. Loaded => SettingsTakeEffect
    <2> SUFFICES ASSUME env \in Environments, Errors(env) = {}
                 PROVE  LET settings == Effective(env) IN
                        /\ env["DSN"] # Unset
                        /\ \A name \in Settings : env[name] # Unset => settings[name] = env[name]
                        /\ \A name \in Settings \ {"DSN", "DRAIN_DELAY", "LOG_LEVEL"} :
                             settings[name] > 0
                        /\ \A name \in {"LOCK_TIMEOUT", "STATEMENT_TIMEOUT"} :
                             \/ Milliseconds(settings[name]) \in 1 .. MaxInt32
                             \/ env[name] # Unset /\ ~Tellable(env[name], Millisecond)
                        /\ \/ /\ TtlSeconds(settings["HOLD_TTL"]) =
                                   {settings["HOLD_TTL"] \div Second}
                              /\ settings["HOLD_TTL"] >= Second
                           \/ env["HOLD_TTL"] # Unset /\ ~Tellable(env["HOLD_TTL"], Second)
      BY DEF Loaded, SettingsTakeEffect
    <2>0. env \in Environment  BY EnvironmentsAssumption
    <2>1. env["DSN"] # Unset  BY DEF Errors
    <2>2. ASSUME NEW name \in Settings
          PROVE  env[name] # Unset => Effective(env)[name] = env[name]
      BY <2>0, InEffect
    <2>3. ASSUME NEW name \in Settings \ {"DSN", "DRAIN_DELAY", "LOG_LEVEL"}
          PROVE  Effective(env)[name] > 0
      <3>1. Effective(env)[name] \in Nat \ {0}  BY <2>0, InEffect
      <3> QED  BY <3>1
    <2>4. ASSUME NEW name \in {"LOCK_TIMEOUT", "STATEMENT_TIMEOUT"}
          PROVE  \/ Milliseconds(Effective(env)[name]) \in 1 .. MaxInt32
                 \/ env[name] # Unset /\ ~Tellable(env[name], Millisecond)
      <3>1. name \in Settings  BY DEF Settings
      <3>2. PICK d \in Nat \ {0} : d = Effective(env)[name]
        BY <2>0, <3>1, InEffect
      <3>3. CASE env[name] = Unset
        <4>1. d \in {2 * Second, 5 * Second}
          BY <2>0, <3>1, <3>2, <3>3, InEffect
        <4>2. Tellable(d, Millisecond)  BY <4>1, DefaultsAreTellable
        <4> QED  BY <3>2, <4>2, ToldInUnits, UnitsAssumption DEF Milliseconds
      <3>4. CASE env[name] # Unset
        <4>1. env[name] = d  BY <2>2, <3>1, <3>2, <3>4
        <4>2. Tellable(d, Millisecond) => d \div Millisecond \in 1 .. MaxInt32
          BY ToldInUnits, UnitsAssumption
        <4> QED  BY <3>2, <3>4, <4>1, <4>2 DEF Milliseconds
      <3> QED  BY <3>3, <3>4
    <2>5. \/ /\ TtlSeconds(Effective(env)["HOLD_TTL"]) = {Effective(env)["HOLD_TTL"] \div Second}
             /\ Effective(env)["HOLD_TTL"] >= Second
          \/ env["HOLD_TTL"] # Unset /\ ~Tellable(env["HOLD_TTL"], Second)
      <3>1. "HOLD_TTL" \in Settings  BY DEF Settings
      <3>2. PICK d \in Nat \ {0} : d = Effective(env)["HOLD_TTL"]
        BY <2>0, <3>1, InEffect
      <3>3. Tellable(d, Second) => TtlSeconds(d) = {d \div Second} /\ d >= Second
        BY <3>2, UnitsAssumption DEF Tellable, TtlSeconds
      <3>4. CASE env["HOLD_TTL"] = Unset
        <4>1. d = 420 * Second  BY <2>0, <3>1, <3>2, <3>4, InEffect
        <4> QED  BY <3>2, <3>3, <4>1, DefaultsAreTellable
      <3>5. CASE env["HOLD_TTL"] # Unset
        <4>1. env["HOLD_TTL"] = d  BY <2>2, <3>1, <3>2, <3>5
        <4> QED  BY <3>2, <3>3, <3>5, <4>1
      <3> QED  BY <3>4, <3>5
    <2> QED  BY <2>1, <2>2, <2>3, <2>4, <2>5
  <1> QED  BY <1>1, <1>2, <1>3, PTL DEF Spec
=============================================================================

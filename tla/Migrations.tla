----------------------------- MODULE Migrations ------------------------------
(***************************************************************************)
(* store.Migrate on replicas that start together: goose lists and applies  *)
(* the pending migrations between SessionLock and SessionUnlock of the     *)
(* migrationLocker, on one session of each replica.  goose is not part of  *)
(* the repository: it lists what the database has, applies each missing    *)
(* version in a transaction of its own, and unlocks however it ends.       *)
(***************************************************************************)
EXTENDS Integers

CONSTANTS
    Replicas,
    Nobody,
    Latest        \* the version of the last embedded migration

ASSUME MigrationsAssumption == Latest \in Nat /\ Nobody \notin Replicas

VARIABLES
    schema,       \* the version of the database
    migrationLock,\* who has pg_advisory_lock(advisoryClassMigrations, 0)
    migrating,    \* migrating[p]: where Migrate is
    version       \* version[p]: the version p takes the database to have, while it applies

migrationVars == <<schema, migrationLock, migrating, version>>

InitMigrations ==
    /\ schema = 0
    /\ migrationLock = Nobody
    /\ migrating = [p \in Replicas |-> "no"]
    /\ version = [p \in Replicas |-> 0]

Step(p, to) == migrating' = [migrating EXCEPT ![p] = to]

\* Migrate is called.
BeginMigrate(p) ==
    /\ migrating[p] = "no" /\ Step(p, "waiting")
    /\ UNCHANGED <<schema, migrationLock, version>>

\* Mutant: the lock is tried, not waited for.
BadSessionLock(p) ==
    /\ migrating[p] = "waiting" /\ Step(p, "locked")
    /\ migrationLock' = IF migrationLock = Nobody THEN p ELSE migrationLock
    /\ UNCHANGED <<schema, version>>

SessionLock(p) ==
    /\ migrating[p] = "waiting" /\ Step(p, "locked")
    /\ migrationLock = Nobody /\ migrationLock' = p
    /\ UNCHANGED <<schema, version>>

ListMigrations(p) ==
    /\ migrating[p] = "locked" /\ Step(p, "applying")
    /\ version' = [version EXCEPT ![p] = schema]
    /\ UNCHANGED <<schema, migrationLock>>

ApplyMigration(p) ==
    /\ migrating[p] = "applying" /\ version[p] < Latest
    /\ schema' = version[p] + 1
    /\ version' = [version EXCEPT ![p] = @ + 1]
    /\ UNCHANGED <<migrationLock, migrating>>

\* Mutant: the lock is left to a session that the pool keeps open.
BadSessionUnlock(p) ==
    /\ migrating[p] = "applying" /\ version[p] = Latest /\ Step(p, "done")
    /\ version' = [version EXCEPT ![p] = 0]
    /\ UNCHANGED <<schema, migrationLock>>

SessionUnlock(p) ==
    /\ migrating[p] = "applying" /\ version[p] = Latest /\ Step(p, "done")
    /\ migrationLock' = Nobody
    /\ version' = [version EXCEPT ![p] = 0]
    /\ UNCHANGED schema

Free(p) == migrationLock' = IF migrationLock = p THEN Nobody ELSE migrationLock

\* An error, or a done context, at any point before the unlock.
MigrateFails(p) ==
    /\ migrating[p] \in {"waiting", "locked", "applying"} /\ Step(p, "failed")
    /\ Free(p)
    /\ version' = [version EXCEPT ![p] = 0]
    /\ UNCHANGED schema

\* The unlock itself fails: the lock stays with the session until that ends.
UnlockFails(p) ==
    /\ migrating[p] = "applying" /\ version[p] = Latest /\ Step(p, "failed")
    /\ version' = [version EXCEPT ![p] = 0]
    /\ UNCHANGED <<schema, migrationLock>>

\* The process ends, and with it its sessions.
SessionEnds(p) ==
    /\ Step(p, "no") /\ Free(p)
    /\ version' = [version EXCEPT ![p] = 0]
    /\ UNCHANGED schema

Migrates(p) == SessionLock(p) \/ ListMigrations(p) \/ ApplyMigration(p) \/ SessionUnlock(p)

-----------------------------------------------------------------------------
(* Properties                                                              *)

MigrationsTypeOK ==
    /\ schema \in 0 .. Latest
    /\ migrationLock \in Replicas \cup {Nobody}
    /\ migrating \in [Replicas -> {"no", "waiting", "locked", "applying", "done", "failed"}]
    /\ version \in [Replicas -> 0 .. Latest]

\* store.go: "Replicas that start together would otherwise race to apply the
\* same migrations."  Whoever applies one applies it to the schema it has seen,
\* so every migration is applied once and in order, crashes included.
MigrationsDoNotRace ==
    \A p \in Replicas : migrating[p] = "applying" => version[p] = schema
=============================================================================

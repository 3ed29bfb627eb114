----------------------------- MODULE MCLifecycle -----------------------------
(* Constants and symmetry for model checking Lifecycle. *)
EXTENDS Lifecycle, TLC

Symmetric == Permutations(Requests) \cup Permutations(Probes)

\* Only what must be set.
Bare == [name \in Settings |-> IF name = "DSN" THEN 1 ELSE Unset]

\* Everything set, the durations not to the same value; the lock timeout and
\* the lifetime are below the units of Postgres, the pool as large as can be.
Tuned == ("ADDR" :> 81 @@ "DSN" :> 1 @@ "LOG_LEVEL" :> -4 @@ "DRAIN_DELAY" :> 0
          @@ "SHUTDOWN_TIMEOUT" :> 9 @@ "DB_MAX_CONNS" :> MaxInt32 @@ "LOCK_TIMEOUT" :> 1
          @@ "STATEMENT_TIMEOUT" :> 11 @@ "HOLD_TTL" :> 7 @@ "MAX_SEATS_PER_HOLD" :> 3
          @@ "RATE_PER_SECOND" :> 4 @@ "RATE_BURST" :> 5 @@ "SWEEP_INTERVAL" :> 13
          @@ "SWEEP_BATCH" :> 6)

\* A timeout and a lifetime that are more than an int32 of those units.
Stretched == [Bare EXCEPT !["STATEMENT_TIMEOUT"] = (MaxInt32 + 1) * Millisecond,
                          !["HOLD_TTL"] = (MaxInt32 + 1) * Second]

\* One variable that does not parse, or is negative, zero or too large.
Broken(names, raw) == {[Bare EXCEPT ![name] = raw] : name \in names}

MCEnvironments ==
    {Bare, Tuned, Stretched, [Bare EXCEPT !["DSN"] = Unset]}
      \cup Broken(Settings \ Texts, Malformed)
      \cup Broken(Settings \ (Texts \cup {"LOG_LEVEL"}), -1)
      \cup Broken(Settings \ (Texts \cup {"LOG_LEVEL", "DRAIN_DELAY"}), 0)
      \cup Broken(Integers32, MaxInt32 + 1)
=============================================================================

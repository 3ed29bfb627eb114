------------------------------- MODULE Config --------------------------------
(***************************************************************************)
(* The settings of a replica: config.Load, which reads the environment,    *)
(* and the defaults that store, booking and httpapi apply to what it left  *)
(* at zero.  A raw value is Unset, Malformed (it does not parse), or the   *)
(* number it parses to; a duration counts ticks.                           *)
(***************************************************************************)
EXTENDS Integers

CONSTANTS
    Unset, Malformed,
    Millisecond,   \* in ticks: a duration may be shorter
    Second,
    MaxInt32

ASSUME UnitsAssumption ==
    /\ Millisecond \in Nat \ {0} /\ Second \in Nat \ {0} /\ MaxInt32 \in Nat
    /\ Millisecond <= Second
    /\ 420 <= MaxInt32 /\ 5 * Second <= MaxInt32 * Millisecond

Texts     == {"ADDR", "DSN"}
Integers32 == {"DB_MAX_CONNS", "MAX_SEATS_PER_HOLD", "RATE_BURST", "SWEEP_BATCH"}
Settings  == Texts \cup Integers32 \cup
             {"LOG_LEVEL", "DRAIN_DELAY", "SHUTDOWN_TIMEOUT", "LOCK_TIMEOUT",
              "STATEMENT_TIMEOUT", "HOLD_TTL", "RATE_PER_SECOND", "SWEEP_INTERVAL"}

\* What getenv may return.  A text that is set parses to some positive number.
Environment ==
    {env \in [Settings -> Int \cup {Unset, Malformed}] :
        \A name \in Texts : env[name] # Unset => env[name] \in Nat \ {0}}

-----------------------------------------------------------------------------
\* Mutant: zero is let through, as it is for the drain delay.
BadAccepts(name, raw) ==
    \/ name \in Texts
    \/ raw # Malformed /\ (name \in Integers32 => raw <= MaxInt32)
                       /\ (name # "LOG_LEVEL" => raw >= 0)

\* text, level, duration, integer and number: what they do not complain about.
Accepts(name, raw) ==
    \/ name \in Texts
    \/ /\ raw # Malformed
       /\ \/ name = "LOG_LEVEL"
          \/ name = "DRAIN_DELAY" /\ raw >= 0
          \/ name \in Integers32 /\ raw \in 1 .. MaxInt32
          \/ name \notin Integers32 \cup {"LOG_LEVEL", "DRAIN_DELAY"} /\ raw > 0

\* The defaults that Load gives itself; zero leaves it to the layer below.
OwnDefault(name) ==
    CASE name = "ADDR" -> 8080
      [] name = "SHUTDOWN_TIMEOUT" -> 20 * Second
      [] name = "SWEEP_INTERVAL" -> 30 * Second
      [] name = "SWEEP_BATCH" -> 100
      [] OTHER -> 0

\* A variable that fails is reported, and read as if it were unset.
Read(env, name) ==
    IF env[name] = Unset \/ ~Accepts(name, env[name]) THEN OwnDefault(name) ELSE env[name]

Errors(env) ==
    {name \in Settings : env[name] # Unset /\ ~Accepts(name, env[name])}
      \cup {name \in {"DSN"} : env[name] = Unset}

StoreDefaults ==
    [DB_MAX_CONNS |-> 16, LOCK_TIMEOUT |-> 2 * Second, STATEMENT_TIMEOUT |-> 5 * Second]

BookingDefaults == [HOLD_TTL |-> 420 * Second, MAX_SEATS_PER_HOLD |-> 10]

ApiDefaults == [RATE_PER_SECOND |-> 5, RATE_BURST |-> 20]

\* applyDefaults of one layer, on the settings it is given.
ApplyDefaults(defaults, settings) ==
    [name \in Settings |->
        IF name \in DOMAIN defaults /\ settings[name] <= 0 THEN defaults[name]
        ELSE settings[name]]

\* What run makes of Load's result when it hands it to the three layers.
Effective(env) ==
    ApplyDefaults(StoreDefaults,
      ApplyDefaults(BookingDefaults,
        ApplyDefaults(ApiDefaults, [name \in Settings |-> Read(env, name)])))

\* applyTimeouts: what Postgres is told, in whole milliseconds; 0 is no timeout.
Milliseconds(duration) == duration \div Millisecond

\* What CreateHold may be told, in whole seconds.  int32 of a float64 that is out
\* of range depends on the machine: amd64 makes the least int32 of it, arm64 the
\* largest.
TtlSeconds(duration) ==
    LET whole == duration \div Second
    IN  IF whole <= MaxInt32 THEN {whole} ELSE {MaxInt32, -MaxInt32 - 1}
=============================================================================

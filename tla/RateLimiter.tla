----------------------------- MODULE RateLimiter -----------------------------
(***************************************************************************)
(* The per-customer throttle of one replica: a map of token buckets behind *)
(* a mutex.  A request reads the clock before it takes the mutex, so that  *)
(* requests may enter allow in another order than that of their readings.  *)
(*                                                                         *)
(* Time is counted in ticks and tokens in fractions: a request costs Cost  *)
(* of them and a tick brings Rate of them.                                 *)
(***************************************************************************)
EXTENDS Integers, FiniteSets

CONSTANTS
    Procs,        \* goroutines that serve requests
    Keys,         \* customer references
    Rate,         \* what a bucket gains in a tick
    Cost,         \* what a request costs: one token
    Burst,        \* the capacity of a bucket
    Second,       \* ticks in a second
    MinSweepAt,   \* minSweepAt
    MaxTime,      \* bound on the clock
    None

ASSUME RateAssumption ==
    Rate \in Nat \ {0} /\ Cost \in Nat \ {0} /\ Burst \in Nat /\ Burst >= Cost
ASSUME MapAssumption ==
    IsFiniteSet(Keys) /\ None \notin Keys /\ MinSweepAt \in Nat \ {0}
ASSUME TimeAssumption == Second \in Nat \ {0} /\ MaxTime \in Nat /\ None \notin Nat

VARIABLES
    clock,     \* time.Now()
    kept,      \* the keys of l.buckets
    tokens,    \* tokens[k], seen[k]: the bucket of a key that is kept
    seen,
    sweepAt,
    call,      \* call[p]: the key and the clock reading p brings to allow
    born,      \* history: the reading with which the bucket of k was made,
    spent,     \*   what it has paid out since,
    due,       \*   when a refused customer was told to come back (or None),
    last,      \*   the latest reading customer k came with (or None), and
    active     \*   how many customers the last sweep met in the middle of a refill

history == <<born, spent, due, last, active>>
vars == <<clock, kept, tokens, seen, sweepAt, call, history>>

NoCall == [key |-> None, now |-> 0]

Larger(a, b)  == IF a >= b THEN a ELSE b
Smaller(a, b) == IF a <= b THEN a ELSE b

-----------------------------------------------------------------------------
Tick ==
    /\ clock < MaxTime
    /\ clock' = clock + 1
    /\ UNCHANGED <<kept, tokens, seen, sweepAt, call, history>>

\* throttle: a request names its customer, and time.Now() is read for it.
Throttle(p, k) ==
    /\ call[p] = NoCall
    /\ call' = [call EXCEPT ![p] = [key |-> k, now |-> clock]]
    /\ UNCHANGED <<clock, kept, tokens, seen, sweepAt, history>>

\* level: what the bucket of k holds for a request with reading t.
Level(k, t) == Smaller(Burst, tokens[k] + Larger(0, t - seen[k]) * Rate)

\* Mutant: the sweep drops nothing.
BadSurvivors(t) == kept

\* The keys sweep leaves in a map that has reached sweepAt.
Survivors(t) == IF Cardinality(kept) < sweepAt THEN kept
                ELSE {k \in kept : Level(k, t) < Burst}

NextSweepAt(t) == IF Cardinality(kept) < sweepAt THEN sweepAt
                  ELSE Larger(MinSweepAt, 2 * Cardinality(Survivors(t)))

\* The customers whose last request before t is less than a refill ago.
Active(t) == {k \in Keys : last[k] # None /\ Rate * (t - last[k]) < Burst}

\* What the bucket of k, made anew if it is missing, offers a request.
Offer(k, t) == IF k \in kept THEN Level(k, t) ELSE Burst

\* A request that finds a whole token takes it.
Paid(level) == IF level >= Cost THEN Cost ELSE 0

\* Mutant: what is missing is not rounded up to whole seconds.
BadRetryAfter(level) == Second * ((Cost - level) \div (Rate * Second))

\* The wait that allow reports, as the Retry-After header rounds it.
RetryAfter(level) ==
    Second * ((Cost - level + Rate * Second - 1) \div (Rate * Second))

\* Mutant: the bucket takes the reading of its last request, whatever it is.
BadSeen(k, t) == t

Seen(k, t) == IF k \in kept THEN Larger(seen[k], t) ELSE t

\* allow, from Lock to Unlock: sweep if k is new, refill, then pay or refuse.
Allow(p) ==
    LET k     == call[p].key
        t     == call[p].now
        offer == Offer(k, t)
        paid  == Paid(offer)
    IN  /\ call[p] # NoCall
        /\ kept' = IF k \in kept THEN kept ELSE Survivors(t) \cup {k}
        /\ sweepAt' = IF k \in kept THEN sweepAt ELSE NextSweepAt(t)
        /\ tokens' = [tokens EXCEPT ![k] = offer - paid]
        /\ seen' = [seen EXCEPT ![k] = Seen(k, t)]
        /\ call' = [call EXCEPT ![p] = NoCall]
        /\ born' = [born EXCEPT ![k] = IF k \in kept THEN @ ELSE t]
        /\ spent' = [spent EXCEPT ![k] = IF k \in kept THEN @ + paid ELSE paid]
        /\ due' = [due EXCEPT ![k] =
                     IF paid > 0 THEN None
                     ELSE LET back == clock + RetryAfter(offer)
                          IN  IF @ = None THEN back ELSE Smaller(@, back)]
        /\ last' = [last EXCEPT ![k] = IF @ = None THEN t ELSE Larger(@, t)]
        /\ active' = IF k \in kept \/ Cardinality(kept) < sweepAt THEN active
                     ELSE Cardinality(Active(t))
        /\ UNCHANGED clock

Init ==
    /\ clock = 0
    /\ kept = {}
    /\ tokens = [k \in Keys |-> 0]
    /\ seen = [k \in Keys |-> 0]
    /\ sweepAt = MinSweepAt
    /\ call = [p \in Procs |-> NoCall]
    /\ born = [k \in Keys |-> 0]
    /\ spent = [k \in Keys |-> 0]
    /\ due = [k \in Keys |-> None]
    /\ last = [k \in Keys |-> None]
    /\ active = 0

Next ==
    \/ Tick
    \/ \E p \in Procs : Allow(p) \/ \E k \in Keys : Throttle(p, k)

Spec == Init /\ [][Next]_vars

-----------------------------------------------------------------------------
(* Properties                                                              *)

\* Every variable has its type; no bucket is overdrawn or overfull.
TypeOK ==
    /\ clock \in Nat
    /\ kept \subseteq Keys
    /\ tokens \in [Keys -> 0 .. Burst]
    /\ seen \in [Keys -> Nat]
    /\ sweepAt \in Nat
    /\ call \in [Procs -> [key: Keys, now: Nat] \cup {NoCall}]
    /\ born \in [Keys -> Nat]
    /\ spent \in [Keys -> Nat]
    /\ due \in [Keys -> Nat \cup {None}]
    /\ last \in [Keys -> Nat \cup {None}]
    /\ active \in Nat

\* A bucket never pays out more than its capacity and what its lifetime has
\* brought in, in whatever order late readings reach it (ratelimit.go: "now can
\* trail seen").
WithinBudget ==
    \A k \in kept :
        tokens[k] + spent[k] <= Burst + Rate * (seen[k] - born[k])

\* The key is client supplied, so the map must not grow without bound: however
\* many customers there have ever been, it holds no more than the floor, or
\* twice as many as had made a request within a refill before the last sweep.
MapIsBounded == Cardinality(kept) <= Larger(MinSweepAt, 2 * active)

\* Retry-After is honest: a customer who was refused, comes back when told to
\* and finds that nobody else has spent the token, is let through, even if
\* the bucket was swept away meanwhile.
RetryIsHonest ==
    \A p \in Procs :
        LET k == call[p].key
        IN  call[p] # NoCall /\ due[k] # None =>
              (call[p].now >= due[k] => Offer(k, call[p].now) >= Cost)

\* ratelimit.go: "A full bucket behaves exactly like a missing one, so dropping
\* it loses nothing".  Who would find a missing bucket in place of the dropped
\* one, and so be let through, would have been let through anyway.
DroppingLosesNothing ==
    [][\A k \in kept \ kept', p \in Procs :
         call[p].key = k => Level(k, call[p].now) >= Cost]_vars
=============================================================================

-------------------------- MODULE RateLimiterProofs --------------------------
(* Proofs that the throttle keeps its budget and its map bounded and that    *)
(* its Retry-After is honest, for any number of requests and customers, any  *)
(* rate, burst and threshold.                                                *)
EXTENDS RateLimiter, FiniteSetTheorems, TLAPS

\* The map stays below a threshold that the last sweep took from the buckets it
\* could not drop; and a bucket it could not drop belongs to a customer who has
\* come since the bucket was last empty.
Threshold ==
    /\ Cardinality(kept) <= sweepAt
    /\ sweepAt <= Larger(MinSweepAt, 2 * active)
    /\ \A k \in kept : last[k] \in Nat /\ seen[k] <= last[k]

\* The inductive invariant.
Inv == TypeOK /\ WithinBudget /\ Threshold

-----------------------------------------------------------------------------
\* A bucket is never empty beyond zero nor fuller than its capacity, whatever
\* reading level is asked about.
LEMMA LevelType ==
    ASSUME TypeOK, NEW k \in Keys, NEW t \in Nat
    PROVE  Level(k, t) \in 0 .. Burst /\ Offer(k, t) \in 0 .. Burst
<1>1. tokens[k] \in 0 .. Burst /\ seen[k] \in Nat
    BY DEF TypeOK
<1>2. Larger(0, t - seen[k]) \in Nat
    BY <1>1 DEF Larger
<1>3. Larger(0, t - seen[k]) * Rate \in Nat
    BY <1>2, RateAssumption
<1> QED
    BY <1>1, <1>3, RateAssumption DEF Level, Offer, Smaller

\* What level adds to a bucket is what the advance of seen has brought in.
LEMMA LevelGain ==
    ASSUME TypeOK, NEW k \in kept, NEW t \in Nat
    PROVE  Level(k, t) <= tokens[k] + Rate * (Seen(k, t) - seen[k])
<1>1. k \in Keys /\ tokens[k] \in Int /\ seen[k] \in Nat
    BY DEF TypeOK
<1>2. Seen(k, t) - seen[k] = Larger(0, t - seen[k])
    BY <1>1 DEF Seen, Larger
<1>3. Larger(0, t - seen[k]) \in Int /\ Rate \in Int
    BY <1>1, RateAssumption DEF Larger
<1>4. Larger(0, t - seen[k]) * Rate = Rate * (Seen(k, t) - seen[k])
    BY <1>2, <1>3
<1>5. Rate * (Seen(k, t) - seen[k]) \in Int
    BY <1>2, <1>3
<1> QED
    BY <1>1, <1>4, <1>5, RateAssumption DEF Level, Smaller

\* A request costs a whole token or nothing, and never more than there is.
LEMMA PaidType ==
    ASSUME NEW v \in 0 .. Burst
    PROVE  Paid(v) \in Nat /\ v - Paid(v) \in 0 .. Burst
    BY RateAssumption DEF Paid

\* The wait a refused request is told is a number of whole ticks.
LEMMA RetryType ==
    ASSUME NEW v \in 0 .. Burst, Paid(v) = 0
    PROVE  RetryAfter(v) \in Nat
<1>1. v < Cost /\ v \in Nat /\ Cost \in Nat
    BY RateAssumption DEF Paid
<1>2. Rate * Second \in Nat /\ Rate * Second > 0
    BY RateAssumption, TimeAssumption
<1>3. Cost - v + Rate * Second - 1 \in Nat
    BY <1>1, <1>2
<1>4. (Cost - v + Rate * Second - 1) \div (Rate * Second) \in Nat
    BY <1>2, <1>3
<1> QED
    BY <1>4, TimeAssumption DEF RetryAfter

\* A step that leaves the map and its history alone keeps the invariant.
LEMMA MapUntouched ==
    ASSUME Inv, TypeOK', UNCHANGED <<kept, tokens, seen, sweepAt, born, spent, last, active>>
    PROVE  Inv'
    BY DEF Inv, WithinBudget, Threshold

\* Whom the sweep spares has made a request less than a refill ago, because an
\* empty bucket is full again after one.
LEMMA SparedAreActive ==
    ASSUME Inv, NEW t \in Nat, NEW k \in kept, Level(k, t) < Burst
    PROVE  k \in Active(t)
<1>1. /\ k \in Keys /\ tokens[k] \in Nat /\ seen[k] \in Nat /\ last[k] \in Nat
      /\ seen[k] <= last[k] /\ Rate \in Nat /\ Burst \in Nat
    BY RateAssumption DEF Inv, TypeOK, Threshold
<1>2. PICK d \in Nat : d = Larger(0, t - seen[k])
    BY <1>1 DEF Larger
<1>3. d * Rate \in Nat /\ d * Rate < Burst
  <2>1. d * Rate \in Nat
      BY <1>1, <1>2
  <2>2. Level(k, t) = Smaller(Burst, tokens[k] + d * Rate)
      BY <1>2 DEF Level
  <2> QED
      BY <1>1, <2>1, <2>2 DEF Smaller
<1>4. t - last[k] \in Int /\ t - last[k] <= d
    BY <1>1, <1>2 DEF Larger
<1>5. PICK e \in Int : e = t - last[k] /\ e <= d
    BY <1>4
<1>6. e * Rate <= d * Rate /\ e * Rate \in Int /\ Rate * e = e * Rate
    BY <1>1, <1>5
<1>7. Rate * (t - last[k]) < Burst
    BY <1>1, <1>3, <1>5, <1>6
<1>8. last[k] # None
    BY <1>1, TimeAssumption
<1> QED
    BY <1>1, <1>7, <1>8 DEF Active

\* allow keeps the invariant: the bucket it touches is new, or gains what its
\* seen advances and pays what the request costs; the map grows by one key.
LEMMA AllowStep ==
    ASSUME Inv, NEW p \in Procs, Allow(p)
    PROVE  Inv'
<1> DEFINE k == call[p].key
           t == call[p].now
           offer == Offer(k, t)
<1>k. k \in Keys /\ t \in Nat
    BY DEF Inv, TypeOK, Allow
<1>o. /\ offer \in 0 .. Burst
      /\ Paid(offer) \in Nat
      /\ offer - Paid(offer) \in 0 .. Burst
    BY <1>k, LevelType, PaidType DEF Inv
<1>s. Survivors(t) \subseteq kept /\ kept \subseteq Keys
    BY DEF Survivors, Inv, TypeOK
<1>f. /\ IsFiniteSet(kept) /\ Cardinality(kept) \in Nat
      /\ IsFiniteSet(Survivors(t)) /\ Cardinality(Survivors(t)) \in Nat
    BY <1>s, MapAssumption, FS_Subset, FS_CardinalityType
<1>n. NextSweepAt(t) \in Nat
    BY <1>f, MapAssumption DEF NextSweepAt, Larger, Inv, TypeOK
<1>e. Seen(k, t) \in Nat
    BY <1>k DEF Seen, Larger, Inv, TypeOK
<1>h. PICK m \in Nat : /\ m = IF last[k] = None THEN t ELSE Larger(last[k], t)
                       /\ t <= m /\ (last[k] # None => last[k] <= m)
    BY <1>k DEF Larger, Inv, TypeOK
<1>i. last' = [last EXCEPT ![k] = m]
    BY <1>h DEF Allow
<1>l. \A j \in kept' : last'[j] \in Nat /\ seen'[j] <= last'[j]
  <2> SUFFICES ASSUME NEW j \in kept' PROVE last'[j] \in Nat /\ seen'[j] <= last'[j]
      OBVIOUS
  <2>0. j \in Keys /\ (j = k \/ j \in kept)
      BY <1>k, <1>s DEF Allow
  <2>1. CASE j # k
      BY <2>0, <2>1, <1>i DEF Allow, Inv, TypeOK, Threshold
  <2>2. CASE j = k
    <3>1. last'[j] = m /\ seen'[j] = Seen(k, t)
        BY <2>0, <2>2, <1>i DEF Allow, Inv, TypeOK
    <3>2. Seen(k, t) <= m
      <4>1. CASE k \in kept
        <5>1. last[k] \in Nat /\ seen[k] <= last[k] /\ last[k] # None /\ seen[k] \in Nat
            BY <4>1, <1>k, TimeAssumption DEF Inv, Threshold, TypeOK
        <5> QED
            BY <4>1, <5>1, <1>h, <1>k DEF Seen, Larger
      <4>2. CASE k \notin kept
          BY <4>2, <1>h DEF Seen
      <4> QED
          BY <4>1, <4>2
    <3> QED
        BY <3>1, <3>2
  <2> QED
      BY <2>1, <2>2
<1>1. TypeOK'
  <2>1. kept' \subseteq Keys
      BY <1>k, <1>s DEF Allow
  <2>2. tokens' \in [Keys -> 0 .. Burst]
      BY <1>k, <1>o DEF Allow, Inv, TypeOK
  <2>3. seen' \in [Keys -> Nat]
      BY <1>k, <1>e DEF Allow, Inv, TypeOK
  <2>4. sweepAt' \in Nat
      BY <1>n DEF Allow, Inv, TypeOK
  <2>5. call' \in [Procs -> [key: Keys, now: Nat] \cup {NoCall}]
      BY DEF Allow, Inv, TypeOK
  <2>6. born' \in [Keys -> Nat]
      BY <1>k DEF Allow, Inv, TypeOK
  <2>7. spent' \in [Keys -> Nat]
      BY <1>k, <1>o DEF Allow, Inv, TypeOK
  <2>8. due' \in [Keys -> Nat \cup {None}]
    <3>1. CASE Paid(offer) > 0
        BY <3>1, <1>k DEF Allow, Inv, TypeOK
    <3>2. CASE ~(Paid(offer) > 0)
      <4>1. clock + RetryAfter(offer) \in Nat
          BY <3>2, <1>o, RetryType DEF Inv, TypeOK
      <4>2. PICK d \in Nat \cup {None} : due' = [due EXCEPT ![k] = d]
        <5> DEFINE back == clock + RetryAfter(offer)
                   d == IF due[k] = None THEN back ELSE Smaller(due[k], back)
        <5>1. d \in Nat \cup {None}
            BY <4>1, <1>k DEF Smaller, Inv, TypeOK
        <5>2. due' = [due EXCEPT ![k] = d]
            BY <3>2 DEF Allow
        <5> HIDE DEF d
        <5> QED
            BY <5>1, <5>2
      <4> QED
          BY <4>2, <1>k DEF Inv, TypeOK
    <3> QED
        BY <3>1, <3>2
  <2>9. last' \in [Keys -> Nat \cup {None}]
      BY <1>i DEF Inv, TypeOK
  <2>10. active' \in Nat
    <3>1. Active(t) \subseteq Keys
        BY DEF Active
    <3>2. Cardinality(Active(t)) \in Nat
        BY <3>1, MapAssumption, FS_Subset, FS_CardinalityType
    <3> QED
        BY <3>2 DEF Allow, Inv, TypeOK
  <2> QED
      BY <2>1, <2>2, <2>3, <2>4, <2>5, <2>6, <2>7, <2>8, <2>9, <2>10 DEF Allow, Inv, TypeOK
<1>2. WithinBudget'
  <2> SUFFICES ASSUME NEW j \in kept'
               PROVE  tokens'[j] + spent'[j] <= Burst + Rate * (seen'[j] - born'[j])
      BY DEF WithinBudget
  <2>j. j \in Keys
      BY <1>1 DEF TypeOK
  <2>1. CASE j # k
    <3>1. j \in kept
        BY <2>1, <1>s DEF Allow
    <3>2. /\ tokens'[j] = tokens[j] /\ spent'[j] = spent[j]
          /\ seen'[j] = seen[j] /\ born'[j] = born[j]
        BY <2>1, <2>j DEF Allow, Inv, TypeOK
    <3> QED
        BY <3>1, <3>2 DEF Inv, WithinBudget
  <2>2. CASE j = k /\ k \notin kept
    <3>1. /\ tokens'[j] = Burst - Paid(Burst) /\ spent'[j] = Paid(Burst)
          /\ seen'[j] = t /\ born'[j] = t
        BY <2>2, <1>k DEF Allow, Inv, TypeOK, Offer, Seen
    <3>2. Paid(Burst) \in Nat
        BY RateAssumption DEF Paid
    <3>3. Rate * (t - t) = 0
        BY <1>k, RateAssumption
    <3> QED
        BY <3>1, <3>2, <3>3, RateAssumption
  <2>3. CASE j = k /\ k \in kept
    <3> DEFINE was == Rate * (seen[k] - born[k])
               gain == Rate * (Seen(k, t) - seen[k])
               is == Rate * (Seen(k, t) - born[k])
    <3>1. /\ tokens'[j] = offer - Paid(offer) /\ spent'[j] = spent[k] + Paid(offer)
          /\ seen'[j] = Seen(k, t) /\ born'[j] = born[k]
        BY <2>3, <1>k DEF Allow, Inv, TypeOK
    <3>2. offer <= tokens[k] + gain
        BY <2>3, <1>k, LevelGain DEF Inv, Offer
    <3>3. tokens[k] + spent[k] <= Burst + was
        BY <2>3 DEF Inv, WithinBudget
    <3>4. /\ seen[k] \in Int /\ born[k] \in Int /\ Seen(k, t) \in Int /\ Rate \in Int
          /\ tokens[k] \in Int /\ spent[k] \in Int /\ offer \in Int /\ Paid(offer) \in Int
        BY <1>k, <1>o, <1>e, RateAssumption DEF Inv, TypeOK
    <3>5. is = was + gain
        BY <3>4
    <3>6. was \in Int /\ gain \in Int /\ Burst \in Int
        BY <3>4, RateAssumption
    <3> HIDE DEF was, gain, offer
    <3> QED
        BY <3>1, <3>2, <3>3, <3>4, <3>5, <3>6
  <2> QED
      BY <2>1, <2>2, <2>3
<1>3. Threshold'
  <2>1. CASE k \in kept
    <3>1. Cardinality(kept') <= sweepAt' /\ sweepAt' <= Larger(MinSweepAt, 2 * active')
        BY <2>1 DEF Allow, Inv, Threshold
    <3>2. kept' = kept
        BY <2>1 DEF Allow
    <3> QED
        BY <3>1, <3>2, <1>l DEF Threshold
  <2>2. CASE k \notin kept
    <3>1. kept' = Survivors(t) \cup {k} /\ sweepAt' = NextSweepAt(t)
        BY <2>2 DEF Allow
    <3>2. Cardinality(kept') = Cardinality(Survivors(t)) + 1
        BY <3>1, <2>2, <1>s, <1>f, FS_AddElement
    <3>3. CASE Cardinality(kept) < sweepAt
      <4>1. active' = active
          BY <2>2, <3>3 DEF Allow
      <4>2. Cardinality(kept') <= sweepAt' /\ sweepAt' <= Larger(MinSweepAt, 2 * active')
          BY <3>1, <3>2, <3>3, <4>1, <1>f DEF Survivors, NextSweepAt, Inv, Threshold, TypeOK
      <4> QED
          BY <4>2, <1>l DEF Threshold
    <3>4. CASE ~(Cardinality(kept) < sweepAt)
      <4>1. NextSweepAt(t) = Larger(MinSweepAt, 2 * Cardinality(Survivors(t)))
          BY <3>4 DEF NextSweepAt
      <4>2. active' = Cardinality(Active(t))
          BY <2>2, <3>4 DEF Allow
      <4>3. Survivors(t) \subseteq Active(t)
          BY <3>4, <1>k, <1>s, SparedAreActive DEF Survivors
      <4>4. Active(t) \subseteq Keys
          BY DEF Active
      <4>5. IsFiniteSet(Active(t)) /\ Cardinality(Active(t)) \in Nat
          BY <4>4, MapAssumption, FS_Subset, FS_CardinalityType
      <4>6. Cardinality(Survivors(t)) <= Cardinality(Active(t))
          BY <4>3, <4>5, FS_Subset
      <4>7. Cardinality(kept') <= sweepAt' /\ sweepAt' <= Larger(MinSweepAt, 2 * active')
          BY <4>1, <4>2, <4>5, <4>6, <3>1, <3>2, <1>f, MapAssumption DEF Larger
      <4> QED
          BY <4>7, <1>l DEF Threshold
    <3> QED
        BY <3>3, <3>4
  <2> QED
      BY <2>1, <2>2
<1> QED
    BY <1>1, <1>2, <1>3 DEF Inv

\* An empty map satisfies the invariant (newLimiter).
LEMMA InitInv == Init => Inv
<1>1. Cardinality({}) = 0
    BY FS_EmptySet
<1> QED
    BY <1>1, RateAssumption, MapAssumption, TimeAssumption
    DEF Init, Inv, TypeOK, WithinBudget, Threshold, Larger

\* Every step of the throttle keeps the invariant.
LEMMA NextInv == Inv /\ [Next]_vars => Inv'
<1> SUFFICES ASSUME Inv, [Next]_vars PROVE Inv'
    OBVIOUS
<1>1. CASE Tick
    BY <1>1, MapUntouched DEF Tick, history, Inv, TypeOK
<1>2. ASSUME NEW p \in Procs, NEW k \in Keys, Throttle(p, k) PROVE Inv'
    BY <1>2, MapUntouched DEF Throttle, history, Inv, TypeOK
<1>3. ASSUME NEW p \in Procs, Allow(p) PROVE Inv'
    BY <1>3, AllowStep
<1>4. CASE UNCHANGED vars
    BY <1>4, MapUntouched DEF vars, history, Inv, TypeOK
<1> QED
    BY <1>1, <1>2, <1>3, <1>4 DEF Next

\* The invariant holds in every state the throttle reaches.
LEMMA Invariance == Spec => []Inv
    BY InitInv, NextInv, PTL DEF Spec

\* The throttle's budget: however requests overtake each other between the
\* clock and the mutex, a bucket pays out no more than its capacity and what
\* the time it has seen brought in.
THEOREM BudgetHolds == Spec => []WithinBudget
<1>1. Inv => WithinBudget
    BY DEF Inv
<1> QED
    BY <1>1, Invariance, PTL

\* However many customers a replica has seen, its map (sweep, ratelimit.go) holds
\* at most the floor or twice the customers that had made a request within a
\* refill before the last sweep.
THEOREM MapStaysBounded == Spec => []MapIsBounded
<1>1. Inv => MapIsBounded
  <2> SUFFICES ASSUME Inv PROVE MapIsBounded
      OBVIOUS
  <2>1. kept \subseteq Keys /\ sweepAt \in Nat /\ active \in Nat
      BY DEF Inv, TypeOK
  <2>2. Cardinality(kept) \in Nat
      BY <2>1, MapAssumption, FS_Subset, FS_CardinalityType
  <2>3. Cardinality(kept) <= sweepAt /\ sweepAt <= Larger(MinSweepAt, 2 * active)
      BY DEF Inv, Threshold
  <2> QED
      BY <2>1, <2>2, <2>3, MapAssumption DEF Larger, MapIsBounded
<1> QED
    BY <1>1, Invariance, PTL
-----------------------------------------------------------------------------
(* Retry-After                                                             *)

\* Nobody's reading is ahead of the clock, and whoever comes back no earlier
\* than told finds a whole token.  This must hold for every later reading, not
\* only for those that are under way.
Honest ==
    /\ \A k \in Keys : seen[k] <= clock
    /\ \A p \in Procs : call[p].now <= clock
    /\ \A k \in Keys : due[k] # None =>
         \A t \in Nat : t >= due[k] => Offer(k, t) >= Cost

LEMMA ProductGrows ==
    ASSUME NEW x \in Int, NEW y \in Int, NEW r \in Nat, x <= y
    PROVE  x * r \in Int /\ y * r \in Int /\ x * r <= y * r
    OBVIOUS

LEMMA ProductSplits ==
    ASSUME NEW x \in Int, NEW y \in Int, NEW r \in Nat
    PROVE  (x + y) * r = x * r + y * r
    OBVIOUS

\* Rounding up: the wait brings in at least what is missing.
LEMMA WaitIsLongEnough ==
    ASSUME NEW v \in 0 .. Burst, v < Cost
    PROVE  RetryAfter(v) \in Nat /\ RetryAfter(v) * Rate >= Cost - v
<1>1. PICK m \in Nat \ {0} : m = Rate * Second
    BY RateAssumption, TimeAssumption
<1>2. PICK c \in Nat : c = Cost - v
    BY RateAssumption
<1>3. PICK q \in Nat : q = (c + m - 1) \div m
    BY <1>1, <1>2
<1>4. q * m >= c
    BY <1>1, <1>2, <1>3
<1>5. RetryAfter(v) = Second * q
  <2>1. Cost - v + Rate * Second - 1 = c + m - 1
      BY <1>1, <1>2, RateAssumption
  <2> QED
      BY <1>1, <1>3, <2>1 DEF RetryAfter
<1>6. (Second * q) * Rate = q * m /\ Second * q \in Nat
    BY <1>1, <1>3, RateAssumption, TimeAssumption
<1> QED
    BY <1>2, <1>4, <1>5, <1>6

\* Of a bucket that holds v at s: a reading t0 that finds too little leaves what
\* a later reading t finds as it was.
LEMMA RefusalIsNeutral ==
    ASSUME NEW v \in Nat, NEW s \in Nat, NEW t0 \in Nat, NEW t \in Nat,
           v + Larger(0, t0 - s) * Rate < Cost,
           v + Larger(0, t - s) * Rate >= Cost
    PROVE  (v + Larger(0, t0 - s) * Rate) + Larger(0, t - Larger(s, t0)) * Rate >= Cost
<1>0. Rate \in Nat /\ Cost \in Nat
    BY RateAssumption
<1>1. CASE t0 <= s
  <2>1. Larger(0, t0 - s) = 0 /\ Larger(s, t0) = s
      BY <1>1 DEF Larger
  <2>2. Larger(0, t - s) * Rate \in Int /\ 0 * Rate = 0
      BY <1>0 DEF Larger
  <2> QED
      BY <1>0, <2>1, <2>2
<1>2. CASE t0 > s
  <2>1. Larger(0, t0 - s) = t0 - s /\ Larger(s, t0) = t0
      BY <1>2 DEF Larger
  <2>2. t > t0
    <3>1. SUFFICES ASSUME t <= t0 PROVE FALSE
        OBVIOUS
    <3>2. Larger(0, t - s) \in Int /\ t0 - s \in Int /\ Larger(0, t - s) <= t0 - s
        BY <1>2, <3>1 DEF Larger
    <3>3. /\ Larger(0, t - s) * Rate <= (t0 - s) * Rate
          /\ Larger(0, t - s) * Rate \in Int /\ (t0 - s) * Rate \in Int
        BY <1>0, <3>2, ProductGrows
    <3> QED
        BY <1>0, <2>1, <3>3
  <2>3. Larger(0, t - s) = (t0 - s) + (t - t0) /\ Larger(0, t - t0) = t - t0
      BY <1>2, <2>2 DEF Larger
  <2>4. ((t0 - s) + (t - t0)) * Rate = (t0 - s) * Rate + (t - t0) * Rate
      BY <1>0, ProductSplits
  <2>5. (t0 - s) * Rate \in Int /\ (t - t0) * Rate \in Int
      BY <1>0
  <2> QED
      BY <1>0, <2>1, <2>3, <2>4, <2>5
<1> QED
    BY <1>1, <1>2

\* A whole token is in the bucket when its refill alone says so.
LEMMA LevelOffers ==
    ASSUME TypeOK, NEW k \in Keys, NEW t \in Nat
    PROVE  /\ tokens[k] \in Nat /\ seen[k] \in Nat /\ Larger(0, t - seen[k]) * Rate \in Nat
           /\ Level(k, t) >= Cost <=> tokens[k] + Larger(0, t - seen[k]) * Rate >= Cost
           /\ Level(k, t) < Cost => Level(k, t) = tokens[k] + Larger(0, t - seen[k]) * Rate
<1>1. tokens[k] \in 0 .. Burst /\ seen[k] \in Nat
    BY DEF TypeOK
<1>2. Larger(0, t - seen[k]) \in Nat /\ Rate \in Nat
    BY <1>1, RateAssumption DEF Larger
<1>3. Larger(0, t - seen[k]) * Rate \in Nat
    BY <1>2
<1> QED
    BY <1>1, <1>3, RateAssumption DEF Level, Smaller

\* A refused request moves the time it may come back to no moment at which the
\* token is not there.
LEMMA RefusedComesBack ==
    ASSUME TypeOK, Honest, NEW p \in Procs, Allow(p), NEW k, k = call[p].key,
           due'[k] # None, NEW t \in Nat, t >= due'[k]
    PROVE  Offer(k, t)' >= Cost
<1>0. PICK t0 \in Nat : t0 = call[p].now
    BY DEF Allow, TypeOK
<1>1. k \in Keys /\ t0 <= clock /\ clock \in Nat /\ seen[k] <= clock
    BY <1>0 DEF Allow, TypeOK, Honest
<1>2. Offer(k, t0) \in 0 .. Burst
    BY <1>1, LevelType
<1>3. Offer(k, t0) < Cost
  <2>1. SUFFICES ASSUME Offer(k, t0) >= Cost PROVE FALSE
      BY <1>2, RateAssumption
  <2>2. Paid(Offer(k, t0)) > 0
      BY <2>1, RateAssumption DEF Paid
  <2>3. due' = [due EXCEPT ![k] = None]
      BY <1>0, <2>2 DEF Allow
  <2> QED
      BY <1>1, <2>3 DEF TypeOK
<1>4. k \in kept /\ Offer(k, t0) = Level(k, t0)
    BY <1>3, RateAssumption DEF Offer
<1>5. PICK v \in Nat, s \in Nat : v = tokens[k] /\ s = seen[k]
    BY <1>1, LevelOffers
<1>6. PICK left \in Nat : left = v + Larger(0, t0 - s) * Rate
    BY <1>1, <1>5, LevelOffers
<1>7. Offer(k, t0) = left /\ left < Cost
    BY <1>1, <1>3, <1>4, <1>5, <1>6, LevelOffers
<1>8. Paid(Offer(k, t0)) = 0
    BY <1>3, <1>2, RateAssumption DEF Paid
<1>9. PICK s2 \in Nat : s2 = Larger(s, t0)
    BY DEF Larger
<1>10. tokens'[k] = left /\ seen'[k] = s2 /\ k \in kept'
  <2>1. tokens' = [tokens EXCEPT ![k] = Offer(k, t0) - Paid(Offer(k, t0))]
      BY <1>0 DEF Allow
  <2>2. tokens'[k] = left
      BY <1>1, <1>7, <1>8, <2>1 DEF TypeOK
  <2>3. seen'[k] = s2
      BY <1>0, <1>1, <1>4, <1>5, <1>9 DEF Allow, Seen, TypeOK
  <2> QED
      BY <1>4, <2>2, <2>3 DEF Allow
<1>11. PICK back \in Nat : back = clock + RetryAfter(left)
  <2>1. left \in 0 .. Burst
      BY <1>2, <1>7
  <2> QED
      BY <1>1, <1>7, <2>1, WaitIsLongEnough
<1>12. due'[k] = IF due[k] = None THEN back ELSE Smaller(due[k], back)
  <2>1. ~(Paid(Offer(k, t0)) > 0)
      BY <1>8
  <2>2. PICK d : d = IF due[k] = None THEN back ELSE Smaller(due[k], back)
      OBVIOUS
  <2>3. due' = [due EXCEPT ![k] = d]
      BY <1>0, <1>7, <1>11, <2>1, <2>2 DEF Allow
  <2> QED
      BY <1>1, <2>2, <2>3 DEF TypeOK
<1>13. left + Larger(0, t - s2) * Rate >= Cost
  <2>1. CASE due[k] # None /\ t >= due[k]
    <3>1. Offer(k, t) >= Cost
        BY <1>1, <2>1 DEF Honest
    <3>2. v + Larger(0, t - s) * Rate >= Cost
        BY <1>1, <1>4, <1>5, <3>1, LevelOffers DEF Offer
    <3>3. v + Larger(0, t0 - s) * Rate < Cost
        BY <1>6, <1>7
    <3>4. (v + Larger(0, t0 - s) * Rate) + Larger(0, t - Larger(s, t0)) * Rate >= Cost
        BY <3>2, <3>3, RefusalIsNeutral
    <3> QED
        BY <1>6, <1>9, <3>4
  <2>2. CASE t >= back
    <3>1. left \in 0 .. Burst /\ Cost \in Nat /\ Rate \in Nat
        BY <1>2, <1>7, RateAssumption
    <3>2. PICK wait \in Nat : wait = RetryAfter(left) /\ wait * Rate >= Cost - left
        BY <1>7, <3>1, WaitIsLongEnough
    <3>3. s2 <= clock
        BY <1>1, <1>5, <1>9 DEF Larger
    <3>4. Larger(0, t - s2) \in Nat /\ wait <= Larger(0, t - s2)
        BY <1>1, <1>11, <2>2, <3>2, <3>3 DEF Larger
    <3>5. wait * Rate <= Larger(0, t - s2) * Rate /\ wait * Rate \in Int
          /\ Larger(0, t - s2) * Rate \in Int
        BY <3>1, <3>4, ProductGrows
    <3> QED
        BY <3>1, <3>2, <3>5
  <2>3. due[k] # None => due[k] \in Nat
      BY <1>1 DEF TypeOK
  <2> QED
      BY <1>12, <2>1, <2>2, <2>3 DEF Smaller
<1>14. Level(k, t)' = Smaller(Burst, left + Larger(0, t - s2) * Rate)
    BY <1>10 DEF Level
<1>15. Larger(0, t - s2) * Rate \in Int
    BY RateAssumption DEF Larger
<1> QED
    BY <1>10, <1>13, <1>14, <1>15, RateAssumption DEF Offer, Smaller

\* allow keeps its promises to the others, whose buckets it leaves alone or
\* drops.
LEMMA AllowIsHonest ==
    ASSUME TypeOK, TypeOK', Honest, NEW p \in Procs, Allow(p)
    PROVE  Honest'
<1>0. PICK k \in Keys, t0 \in Nat : k = call[p].key /\ t0 = call[p].now
    BY DEF Allow, TypeOK
<1>1. clock' = clock /\ clock \in Nat /\ t0 <= clock
    BY <1>0 DEF Allow, TypeOK, Honest
<1>2. \A j \in Keys : seen'[j] <= clock'
  <2>1. Seen(k, t0) <= clock
      BY <1>0, <1>1 DEF Seen, Larger, Honest
  <2>2. seen' = [seen EXCEPT ![k] = Seen(k, t0)]
      BY <1>0 DEF Allow
  <2> QED
      BY <1>1, <2>1, <2>2 DEF Honest, TypeOK
<1>3. \A q \in Procs : call'[q].now <= clock'
    BY <1>1 DEF Allow, Honest, TypeOK, NoCall
<1>4. ASSUME NEW j \in Keys, due'[j] # None, NEW t \in Nat, t >= due'[j]
      PROVE  Offer(j, t)' >= Cost
  <2>1. CASE j = k
      BY <1>0, <1>4, <2>1, RefusedComesBack
  <2>2. CASE j # k
    <3>1. due'[j] = due[j] /\ tokens'[j] = tokens[j] /\ seen'[j] = seen[j]
        BY <1>0, <2>2 DEF Allow, TypeOK
    <3>2. j \in kept' => j \in kept
        BY <1>0, <2>2 DEF Allow, Survivors
    <3>3. Offer(j, t) >= Cost
        BY <1>4, <3>1 DEF Honest
    <3>4. Level(j, t)' = Level(j, t)
        BY <3>1 DEF Level
    <3> QED
        BY <3>2, <3>3, <3>4, RateAssumption DEF Offer
  <2> QED
      BY <2>1, <2>2
<1> QED
    BY <1>2, <1>3, <1>4 DEF Honest

\* Retry-After is never too short: of the refusals a customer has had since he
\* last got through, whichever he heeds, and however requests overtook each other
\* between the clock and the mutex (ratelimit.go), the token he waited for is
\* there unless somebody has spent it.
THEOREM RetryAfterIsHonest == Spec => []RetryIsHonest
<1>1. Init => Honest
    BY DEF Init, Honest, NoCall
<1>2. Inv /\ Inv' /\ Honest /\ [Next]_vars => Honest'
  <2> SUFFICES ASSUME TypeOK, TypeOK', Honest, [Next]_vars PROVE Honest'
      BY DEF Inv
  <2>1. CASE Tick
    <3>1. clock' = clock + 1 /\ clock \in Nat /\ UNCHANGED <<kept, tokens, seen, call, due>>
        BY <2>1 DEF Tick, history, TypeOK
    <3>2. \A k, t : Offer(k, t)' = Offer(k, t)
        BY <3>1 DEF Offer, Level
    <3>3. \A k \in Keys : seen[k] \in Nat
        BY DEF TypeOK
    <3>4. \A p \in Procs : call[p].now \in Nat
        BY DEF TypeOK, NoCall
    <3> QED
        BY <3>1, <3>2, <3>3, <3>4 DEF Honest
  <2>2. ASSUME NEW p \in Procs, NEW k \in Keys, Throttle(p, k) PROVE Honest'
    <3>1. /\ call' = [call EXCEPT ![p] = [key |-> k, now |-> clock]] /\ clock \in Nat
          /\ UNCHANGED <<clock, kept, tokens, seen, due>>
        BY <2>2 DEF Throttle, history, TypeOK
    <3>2. \A j, t : Offer(j, t)' = Offer(j, t)
        BY <3>1 DEF Offer, Level
    <3>3. \A q \in Procs : call'[q].now <= clock'
        BY <3>1 DEF Honest, TypeOK
    <3> QED
        BY <3>1, <3>2, <3>3 DEF Honest
  <2>3. ASSUME NEW p \in Procs, Allow(p) PROVE Honest'
      BY <2>3, AllowIsHonest
  <2>4. CASE UNCHANGED vars
    <3>1. UNCHANGED <<clock, kept, tokens, seen, call, due>>
        BY <2>4 DEF vars, history
    <3>2. \A j, t : Offer(j, t)' = Offer(j, t)
        BY <3>1 DEF Offer, Level
    <3> QED
        BY <3>1, <3>2 DEF Honest
  <2> QED
      BY <2>1, <2>2, <2>3, <2>4 DEF Next
<1>3. Inv /\ Honest => RetryIsHonest
  <2> SUFFICES ASSUME TypeOK, Honest, NEW p \in Procs, call[p] # NoCall,
                      due[call[p].key] # None, call[p].now >= due[call[p].key]
               PROVE  Offer(call[p].key, call[p].now) >= Cost
      BY DEF Inv, RetryIsHonest
  <2>1. call[p].key \in Keys /\ call[p].now \in Nat
      BY DEF TypeOK
  <2> QED
      BY <2>1 DEF Honest
<1> QED
    BY <1>1, <1>2, <1>3, Invariance, PTL DEF Spec
=============================================================================

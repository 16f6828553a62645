---------------------------- MODULE RateLimitProofs ---------------------------
(***************************************************************************)
(* Proofs about the rate limiter, for any number of agents and requests,   *)
(* any burst and rate, and any cap and idle time: it is well typed,        *)
(* pruning never removes a bucket, no agent gets more than burst plus      *)
(* rate, and who waits as told is denied only if it was overtaken.         *)
(***************************************************************************)
EXTENDS RateLimit, FiniteSetTheorems, TLAPS

(* Why pruning is idle: the level a check leaves behind is one token below *)
(* the capacity, or below one token.                                       *)
StoredBelowFull == \A a \in DOMAIN buckets : buckets[a].tokens < Full

LimiterInv == TypeOK /\ StoredBelowFull

------------------------------------------------------------------------------
(* Arithmetic of the levels.                                               *)

(* rate_limit.rs:73: what a bucket gains is a natural number.              *)
LEMMA ProductIsNat == ASSUME NEW m \in Nat, NEW n \in Nat PROVE m * n \in Nat
  OBVIOUS

(* rate_limit.rs:85: rounding a deficit to seconds keeps it natural.       *)
LEMMA QuotientIsNat == ASSUME NEW m \in Nat, NEW n \in Nat \ {0} PROVE m \div n \in Nat
  OBVIOUS

(* rate_limit.rs:57: a bucket holds at least one token.                    *)
LEMMA FullHoldsAToken == Full \in Nat /\ Full >= Unit /\ Unit >= 1
  <1>1. Full \in Nat
    BY ProductIsNat, RateLimitAssumption DEF Full, RateLimitAssumption
  <1>2. Burst * Unit >= 1 * Unit
    BY RateLimitAssumption, SMT DEF RateLimitAssumption
  <1> QED
    BY <1>1, <1>2, RateLimitAssumption DEF Full, RateLimitAssumption

(* rate_limit.rs:67: a refill keeps a bucket a bucket.                     *)
LEMMA RefillType ==
  ASSUME NEW b \in Bucket, NEW t \in Nat
  PROVE  Refill(b, t) \in Bucket
  <1>1. CASE t <= b.last_refill
    BY <1>1 DEF Refill
  <1>2. CASE ~(t <= b.last_refill)
    <2> DEFINE gained == (t - b.last_refill) * Gain
    <2>1. t - b.last_refill \in Nat
      BY <1>2 DEF Bucket
    <2>2. gained \in Nat
      BY <2>1, ProductIsNat, RateLimitAssumption DEF RateLimitAssumption
    <2>3. Refill(b, t) = [b EXCEPT !.tokens = IF b.tokens + gained > Full THEN Full
                                              ELSE b.tokens + gained,
                                   !.last_refill = t]
      BY <1>2 DEF Refill
    <2> DEFINE level == IF b.tokens + gained > Full THEN Full ELSE b.tokens + gained
    <2>4. level \in Nat
      BY <2>2, FullHoldsAToken DEF Bucket
    <2> HIDE DEF gained, level
    <2>5. [b EXCEPT !.tokens = level, !.last_refill = t] \in Bucket
      BY <2>4 DEF Bucket
    <2> QED
      BY <2>3, <2>5 DEF level
  <1> QED
    BY <1>1, <1>2

(* rate_limit.rs:84-92: the wait of a denied check is a number of seconds. *)
LEMMA RetryAfterType ==
  ASSUME NEW b \in Bucket, b.tokens < Unit
  PROVE  RetryAfter(b) \in Nat
  <1>1. Gain * Second \in Nat \ {0}
    BY RateLimitAssumption, SMT DEF RateLimitAssumption
  <1>2. Unit - b.tokens + Gain * Second - 1 \in Nat
    BY <1>1, RateLimitAssumption DEF Bucket, RateLimitAssumption
  <1>3. (Unit - b.tokens + Gain * Second - 1) \div (Gain * Second) \in Nat
    BY <1>1, <1>2, QuotientIsNat
  <1> QED
    BY <1>3 DEF RetryAfter

(* rate_limit.rs:132: what survives pruning was in the map, unchanged; and *)
(* nothing is pruned while no stored level is the full one.                *)
LEMMA PruneKeepsAll ==
  ASSUME LimiterInv, NEW t \in Nat
  PROVE  /\ DOMAIN Prune(t) = DOMAIN buckets
         /\ \A a \in DOMAIN buckets : Prune(t)[a] = buckets[a]
  <1>1. \A a \in DOMAIN buckets : ~(buckets[a].tokens >= Full)
    BY FullHoldsAToken DEF LimiterInv, StoredBelowFull, TypeOK, Bucket
  <1>2. {a \in DOMAIN buckets : ~ (/\ buckets[a].tokens >= Full
                                   /\ t >= buckets[a].last_touch + IdlePrune)}
          = DOMAIN buckets
    BY <1>1
  <1> QED
    BY <1>2 DEF Prune, Restrict

------------------------------------------------------------------------------
LEMMA InitLimiter == Init => LimiterInv
  <1> SUFFICES ASSUME Init PROVE LimiterInv
    OBVIOUS
  <1>1. DOMAIN buckets = {} /\ buckets \in [DOMAIN buckets -> Bucket]
    BY DEF Init
  <1>2. checks \in [Requests -> Check]
    BY DEF Init, Check
  <1> QED
    BY <1>1, <1>2 DEF Init, LimiterInv, TypeOK, StoredBelowFull

(* The step that changes buckets: what it leaves of the map.               *)
LEMMA ConsumeStep ==
  ASSUME LimiterInv, NEW r \in Requests, TryConsume(r)
  PROVE  LimiterInv' /\ DOMAIN buckets \subseteq DOMAIN buckets'
  <1> DEFINE a == checks[r].agent
             t == checks[r].read
             kept == Prune(t)
             found == IF a \in DOMAIN kept THEN kept[a] ELSE NewBucket(t)
             b == [Refill(found, t) EXCEPT !.last_touch = t]
  <1>1. a \in Agents /\ t \in Nat /\ checks[r] \in Check
    BY DEF LimiterInv, TypeOK, Check
  <1>2. /\ DOMAIN kept = DOMAIN buckets
        /\ \A x \in DOMAIN buckets : kept[x] = buckets[x]
    BY <1>1, PruneKeepsAll
  <1>3. found \in Bucket
    BY <1>1, <1>2, FullHoldsAToken DEF NewBucket, Bucket, LimiterInv, TypeOK
  <1>4. b \in Bucket
    BY <1>1, <1>3, RefillType DEF Bucket
  <1>5. b.tokens <= Full
    <2>1. found.tokens <= Full
      BY <1>2, <1>3, FullHoldsAToken
      DEF NewBucket, Bucket, LimiterInv, TypeOK, StoredBelowFull
    <2>2. Refill(found, t) \in Bucket
      BY <1>1, <1>3, RefillType
    <2>3. CASE t <= found.last_refill
      BY <2>1, <2>2, <2>3 DEF Refill, Bucket
    <2>4. CASE ~(t <= found.last_refill)
      <3>1. t - found.last_refill \in Nat
        BY <1>1, <1>3, <2>4 DEF Bucket
      <3>2. (t - found.last_refill) * Gain \in Nat
        BY <3>1, ProductIsNat, RateLimitAssumption DEF RateLimitAssumption
      <3>3. Refill(found, t).tokens <= Full
        BY <1>3, <2>4, <3>2, FullHoldsAToken DEF Refill, Bucket
      <3> QED
        BY <2>2, <3>3 DEF Bucket
    <2> QED
      BY <2>3, <2>4
  <1> DEFINE charged == [b EXCEPT !.tokens = @ - Unit]
  <1>6. CASE /\ b.tokens >= Unit
             /\ buckets' = [x \in DOMAIN kept \cup {a} |-> IF x = a THEN charged ELSE kept[x]]
             /\ checks' = [checks EXCEPT ![r].step = "allowed", ![r].decided = now]
    <2> HIDE DEF a, t, kept, found, b
    <2>1. charged \in Bucket /\ charged.tokens < Full
      BY <1>4, <1>5, <1>6, FullHoldsAToken, RateLimitAssumption
      DEF Bucket, RateLimitAssumption
    <2>2. checks' \in [Requests -> Check]
      BY <1>6 DEF LimiterInv, TypeOK, Check
    <2> HIDE DEF charged
    <2>3. DOMAIN buckets' = DOMAIN buckets \cup {a}
      BY <1>2, <1>6
    <2>4. \A x \in DOMAIN buckets' : buckets'[x] \in Bucket /\ buckets'[x].tokens < Full
      BY <1>2, <1>6, <2>1, <2>3 DEF LimiterInv, TypeOK, StoredBelowFull
    <2>5. buckets' \in [DOMAIN buckets' -> Bucket]
      BY <1>6, <2>3, <2>4
    <2> QED
      BY <1>1, <2>2, <2>3, <2>4, <2>5
      DEF LimiterInv, TypeOK, StoredBelowFull, TryConsume
  <1>7. CASE /\ b.tokens < Unit
             /\ buckets' = [x \in DOMAIN kept \cup {a} |-> IF x = a THEN b ELSE kept[x]]
             /\ checks' = [checks EXCEPT ![r].step = "denied", ![r].decided = now,
                                         ![r].retry_after_secs = RetryAfter(b)]
    <2> HIDE DEF a, t, kept, found, b
    <2>1. b.tokens < Full /\ RetryAfter(b) \in Nat
      BY <1>4, <1>7, FullHoldsAToken, RetryAfterType, RateLimitAssumption
      DEF Bucket, RateLimitAssumption
    <2>2. checks' \in [Requests -> Check]
      BY <1>7, <2>1 DEF LimiterInv, TypeOK, Check
    <2>3. DOMAIN buckets' = DOMAIN buckets \cup {a}
      BY <1>2, <1>7
    <2>4. \A x \in DOMAIN buckets' : buckets'[x] \in Bucket /\ buckets'[x].tokens < Full
      BY <1>2, <1>4, <1>7, <2>1, <2>3 DEF LimiterInv, TypeOK, StoredBelowFull
    <2>5. buckets' \in [DOMAIN buckets' -> Bucket]
      BY <1>7, <2>3, <2>4
    <2> QED
      BY <1>1, <2>2, <2>3, <2>4, <2>5
      DEF LimiterInv, TypeOK, StoredBelowFull, TryConsume
  <1> QED
    BY <1>6, <1>7 DEF TryConsume

(* Every step keeps the invariant and every bucket.                        *)
LEMMA LimiterStep ==
  ASSUME LimiterInv, [Next]_vars
  PROVE  LimiterInv' /\ DOMAIN buckets \subseteq DOMAIN buckets'
  <1>1. ASSUME NEW r \in Requests, ReadClock(r)
        PROVE  LimiterInv' /\ DOMAIN buckets \subseteq DOMAIN buckets'
    <2>1. checks' \in [Requests -> Check]
      BY <1>1 DEF ReadClock, LimiterInv, TypeOK, Check
    <2> QED
      BY <1>1, <2>1 DEF ReadClock, LimiterInv, TypeOK, StoredBelowFull
  <1>2. ASSUME NEW r \in Requests, TryConsume(r)
        PROVE  LimiterInv' /\ DOMAIN buckets \subseteq DOMAIN buckets'
    BY <1>2, ConsumeStep
  <1>3. ASSUME Tick
        PROVE  LimiterInv' /\ DOMAIN buckets \subseteq DOMAIN buckets'
    BY <1>3 DEF Tick, LimiterInv, TypeOK, StoredBelowFull
  <1>4. ASSUME UNCHANGED vars
        PROVE  LimiterInv' /\ DOMAIN buckets \subseteq DOMAIN buckets'
    BY <1>4 DEF vars, LimiterInv, TypeOK, StoredBelowFull
  <1> QED
    BY <1>1, <1>2, <1>3, <1>4 DEF Next

(* rate_limit.rs:48-141: the map, its buckets and the answers are always   *)
(* well typed: no level is negative, no wait is.                           *)
THEOREM LimiterTypeCorrect == Spec => []TypeOK
  <1>1. Spec => []LimiterInv
    BY InitLimiter, LimiterStep, PTL DEF Spec
  <1>2. LimiterInv => TypeOK
    BY DEF LimiterInv
  <1> QED
    BY <1>1, <1>2, PTL

(* rate_limit.rs:132-141: maybe_prune never removes a bucket, so the map   *)
(* grows to one bucket for each agent ever seen, MAX_BUCKETS or not.       *)
THEOREM PruningIsIdle == Spec => BucketsStay
  <1>1. Spec => []LimiterInv
    BY InitLimiter, LimiterStep, PTL DEF Spec
  <1>2. LimiterInv /\ [Next]_vars => [DOMAIN buckets \subseteq DOMAIN buckets']_vars
    BY LimiterStep
  <1> QED
    BY <1>1, <1>2, PTL DEF Spec, BucketsStay

------------------------------------------------------------------------------
(* The account of an agent.  Whatever stretch of time one looks at, from a *)
(* tick s on: the tokens taken by checks asked since then, and the tokens  *)
(* left, come from one full bucket and the refills since s.  An allowed    *)
(* check was asked no later than its bucket's last refill, so a stretch    *)
(* that begins after it has taken nothing yet.                             *)
Asked(a, s) == {r \in Requests : /\ checks[r].agent = a
                                 /\ checks[r].step = "allowed"
                                 /\ checks[r].read >= s}

Refilled(b, s) == IF b.last_refill >= s THEN (b.last_refill - s) * Gain ELSE 0

Accounted(b, taken, s) == taken * Unit + b.tokens <= Full + Refilled(b, s)

LevelsAccount ==
    \A a \in DOMAIN buckets : \A s \in Nat :
        Accounted(buckets[a], Cardinality(Asked(a, s)), s)

ChargesAreFinite == IsFiniteSet({r \in Requests : checks[r].step = "allowed"})

ChargesHaveBuckets ==
    \A r \in Requests : checks[r].step = "allowed" =>
        /\ checks[r].agent \in DOMAIN buckets
        /\ checks[r].read <= buckets[checks[r].agent].last_refill

ReadingsArePast ==
    /\ \A r \in Requests : checks[r].read <= now /\ checks[r].decided <= now
    /\ \A a \in DOMAIN buckets : buckets[a].last_refill <= now

AccountInv ==
    /\ LimiterInv /\ ReadingsArePast
    /\ ChargesAreFinite /\ ChargesHaveBuckets /\ LevelsAccount

(* What BurstPlusRate says of one agent and one interval.                  *)
Inside(a, s, t) == {r \in Requests : /\ checks[r].agent = a
                                     /\ checks[r].step = "allowed"
                                     /\ checks[r].read >= s
                                     /\ checks[r].decided <= t}

WithinRate(n, s, t) == n * Unit <= Full + (t - s) * Gain

(* The bucket a check finds, and what it holds before it is charged.       *)
Found(r) == IF checks[r].agent \in DOMAIN buckets THEN buckets[checks[r].agent]
            ELSE NewBucket(checks[r].read)

Offered(r) == Refill(Found(r), checks[r].read)

(* rate_limit.rs:67-78: a refill, in numbers.                              *)
LEMMA RefillIs ==
  ASSUME NEW b \in Bucket, b.tokens <= Full, NEW t \in Nat
  PROVE  /\ Refill(b, t) \in Bucket /\ Refill(b, t).tokens <= Full
         /\ t <= b.last_refill => Refill(b, t) = b
         /\ t > b.last_refill =>
              /\ Refill(b, t).last_refill = t
              /\ Refill(b, t).tokens <= b.tokens + (t - b.last_refill) * Gain
              /\ \/ Refill(b, t).tokens = Full
                 \/ Refill(b, t).tokens = b.tokens + (t - b.last_refill) * Gain
  <1>1. Refill(b, t) \in Bucket
    BY RefillType
  <1>2. t <= b.last_refill => Refill(b, t) = b
    BY DEF Refill
  <1>3. ASSUME t > b.last_refill
        PROVE  /\ Refill(b, t).last_refill = t
               /\ Refill(b, t).tokens <= b.tokens + (t - b.last_refill) * Gain
               /\ Refill(b, t).tokens <= Full
               /\ \/ Refill(b, t).tokens = Full
                  \/ Refill(b, t).tokens = b.tokens + (t - b.last_refill) * Gain
    <2>1. t - b.last_refill \in Nat /\ ~(t <= b.last_refill)
      BY <1>3 DEF Bucket
    <2>2. PICK gained \in Nat : gained = (t - b.last_refill) * Gain
      BY <2>1, ProductIsNat, RateLimitAssumption DEF RateLimitAssumption
    <2>3. Refill(b, t) = [b EXCEPT !.tokens = IF b.tokens + gained > Full THEN Full
                                              ELSE b.tokens + gained,
                                   !.last_refill = t]
      BY <2>1, <2>2 DEF Refill
    <2>4. /\ Refill(b, t).last_refill = t
          /\ Refill(b, t).tokens = IF b.tokens + gained > Full THEN Full
                                   ELSE b.tokens + gained
      BY <2>3 DEF Bucket
    <2>5. b.tokens \in Nat
      BY DEF Bucket
    <2> QED
      BY <2>2, <2>4, <2>5, FullHoldsAToken
  <1>4. b.tokens \in Nat /\ b.last_refill \in Nat
    BY DEF Bucket
  <1> QED
    BY <1>1, <1>2, <1>3, <1>4

LEMMA FoundIs ==
  ASSUME LimiterInv, NEW r \in Requests
  PROVE  /\ Found(r) \in Bucket /\ Found(r).tokens <= Full
         /\ Offered(r) \in Bucket /\ Offered(r).tokens <= Full
  <1>1. checks[r] \in Check /\ checks[r].read \in Nat
    BY DEF LimiterInv, TypeOK, Check
  <1>2. Found(r) \in Bucket /\ Found(r).tokens <= Full
    <2>1. CASE checks[r].agent \in DOMAIN buckets
      <3>1. buckets[checks[r].agent] \in Bucket /\ buckets[checks[r].agent].tokens < Full
        BY <2>1 DEF LimiterInv, TypeOK, StoredBelowFull
      <3> QED
        BY <2>1, <3>1, FullHoldsAToken DEF Found, Bucket
    <2>2. CASE checks[r].agent \notin DOMAIN buckets
      BY <1>1, <2>2, FullHoldsAToken DEF Found, NewBucket, Bucket
    <2> QED
      BY <2>1, <2>2
  <1> QED
    BY <1>1, <1>2, RefillIs DEF Offered

(* rate_limit.rs:48-94: the decision of a check, without the map.          *)
LEMMA ConsumeIs ==
  ASSUME LimiterInv, NEW r \in Requests, TryConsume(r)
  PROVE  /\ checks[r].step = "waiting" /\ now' = now
         /\ DOMAIN buckets' = DOMAIN buckets \cup {checks[r].agent}
         /\ \A x \in DOMAIN buckets : x # checks[r].agent => buckets'[x] = buckets[x]
         /\ buckets'[checks[r].agent].last_refill = Offered(r).last_refill
         /\ \/ /\ Offered(r).tokens >= Unit
               /\ buckets'[checks[r].agent].tokens = Offered(r).tokens - Unit
               /\ checks' = [checks EXCEPT ![r].step = "allowed", ![r].decided = now]
            \/ /\ Offered(r).tokens < Unit
               /\ buckets'[checks[r].agent].tokens = Offered(r).tokens
               /\ checks' = [checks EXCEPT ![r].step = "denied", ![r].decided = now,
                                           ![r].retry_after_secs = RetryAfter(Offered(r))]
  <1> DEFINE a == checks[r].agent
             t == checks[r].read
             kept == Prune(t)
             found == IF a \in DOMAIN kept THEN kept[a] ELSE NewBucket(t)
             b == [Refill(found, t) EXCEPT !.last_touch = t]
             charged == [b EXCEPT !.tokens = @ - Unit]
  <1>1. t \in Nat
    BY DEF LimiterInv, TypeOK, Check
  <1>2. /\ DOMAIN kept = DOMAIN buckets
        /\ \A x \in DOMAIN buckets : kept[x] = buckets[x]
    BY <1>1, PruneKeepsAll
  <1>3. found = Found(r)
    BY <1>2 DEF Found
  <1>4. Refill(found, t) = Offered(r)
    BY <1>3 DEF Offered
  <1>5. /\ b \in Bucket /\ b.tokens = Offered(r).tokens
        /\ b.last_refill = Offered(r).last_refill
    BY <1>1, <1>4, FoundIs DEF Bucket
  <1>6. RetryAfter(b) = RetryAfter(Offered(r))
    BY <1>5 DEF RetryAfter
  <1>7. checks[r].step = "waiting" /\ now' = now
    BY DEF TryConsume
  <1>8. CASE /\ b.tokens >= Unit
             /\ buckets' = [x \in DOMAIN kept \cup {a} |-> IF x = a THEN charged ELSE kept[x]]
             /\ checks' = [checks EXCEPT ![r].step = "allowed", ![r].decided = now]
    <2> HIDE DEF kept, found, b, t
    <2>1. charged.tokens = b.tokens - Unit /\ charged.last_refill = b.last_refill
      BY <1>5 DEF Bucket
    <2> HIDE DEF charged
    <2> QED
      BY <1>2, <1>5, <1>7, <1>8, <2>1
  <1>9. CASE /\ b.tokens < Unit
             /\ buckets' = [x \in DOMAIN kept \cup {a} |-> IF x = a THEN b ELSE kept[x]]
             /\ checks' = [checks EXCEPT ![r].step = "denied", ![r].decided = now,
                                         ![r].retry_after_secs = RetryAfter(b)]
    <2> HIDE DEF kept, found, b, t
    <2> QED
      BY <1>2, <1>5, <1>6, <1>7, <1>9
  <1> QED
    BY <1>8, <1>9 DEF TryConsume

------------------------------------------------------------------------------
(* Distributing the gain over a stretch cut in two, and a price over a sum.*)
LEMMA Distributes ==
  ASSUME NEW k \in Nat, NEW m \in Nat, NEW n \in Nat
  PROVE  (m + n) * k = m * k + n * k
  OBVIOUS

LEMMA MoreCostsMore ==
  ASSUME NEW k \in Nat, NEW m \in Nat, NEW n \in Nat, m <= n
  PROVE  m * k <= n * k
  <1>1. n - m \in Nat /\ m + (n - m) = n
    OBVIOUS
  <1>2. n * k = m * k + (n - m) * k
    BY <1>1, Distributes
  <1> QED
    BY <1>1, <1>2, ProductIsNat

LEMMA RefilledIsNat ==
  ASSUME NEW b \in Bucket, NEW s \in Nat
  PROVE  Refilled(b, s) \in Nat
  <1>1. b.last_refill >= s => b.last_refill - s \in Nat
    BY DEF Bucket
  <1> QED
    BY <1>1, ProductIsNat, RateLimitAssumption DEF Refilled, RateLimitAssumption

(* rate_limit.rs:67-78: a refill adds to a bucket no more than to its      *)
(* account; for a stretch that begins after the last refill, the capacity  *)
(* is the bound.                                                           *)
LEMMA AccountOfRefill ==
  ASSUME NEW b \in Bucket, b.tokens <= Full, NEW t \in Nat, NEW s \in Nat,
         NEW taken \in Nat, Accounted(b, taken, s), s > b.last_refill => taken = 0
  PROVE  Accounted(Refill(b, t), taken, s)
  <1>1. /\ Refill(b, t) \in Bucket /\ Refill(b, t).tokens <= Full
        /\ t <= b.last_refill => Refill(b, t) = b
        /\ t > b.last_refill =>
             /\ Refill(b, t).last_refill = t
             /\ Refill(b, t).tokens <= b.tokens + (t - b.last_refill) * Gain
    BY RefillIs
  <1>2. CASE t <= b.last_refill
    BY <1>1, <1>2
  <1>3. CASE t > b.last_refill /\ s > b.last_refill
    <2>1. Refilled(Refill(b, t), s) \in Nat
      BY <1>1, RefilledIsNat
    <2>2. taken * Unit = 0
      BY <1>3, RateLimitAssumption DEF RateLimitAssumption
    <2>3. Refill(b, t).tokens \in Nat
      BY <1>1 DEF Bucket
    <2> QED
      BY <1>1, <2>1, <2>2, <2>3, FullHoldsAToken DEF Accounted
  <1>4. CASE t > b.last_refill /\ s <= b.last_refill
    <2>1. /\ b.last_refill \in Nat /\ b.tokens \in Nat /\ Refill(b, t).tokens \in Nat
          /\ taken * Unit \in Nat
      BY <1>1, ProductIsNat, RateLimitAssumption DEF Bucket, RateLimitAssumption
    <2>2. PICK early \in Nat : early = b.last_refill - s
      BY <1>4, <2>1
    <2>3. PICK late \in Nat : late = t - b.last_refill
      BY <1>4, <2>1
    <2>4. t - s = late + early
      BY <2>1, <2>2, <2>3
    <2>5. (t - s) * Gain = late * Gain + early * Gain
      BY <2>4, Distributes, RateLimitAssumption DEF RateLimitAssumption
    <2>6. late * Gain \in Nat /\ early * Gain \in Nat
      BY ProductIsNat, RateLimitAssumption DEF RateLimitAssumption
    <2>7. Refilled(b, s) = early * Gain
      BY <1>4, <2>1, <2>2 DEF Refilled
    <2>8. Refilled(Refill(b, t), s) = late * Gain + early * Gain
      BY <1>1, <1>4, <2>1, <2>5 DEF Refilled
    <2>9. Refill(b, t).tokens <= b.tokens + late * Gain
      BY <1>1, <1>4, <2>3
    <2>10. taken * Unit + b.tokens <= Full + early * Gain
      BY <2>7 DEF Accounted
    <2>11. taken * Unit + Refill(b, t).tokens <= Full + (late * Gain + early * Gain)
      BY <2>1, <2>6, <2>9, <2>10, FullHoldsAToken
    <2> QED
      BY <2>8, <2>11 DEF Accounted
  <1>5. b.last_refill \in Nat
    BY DEF Bucket
  <1> QED
    BY <1>2, <1>3, <1>4, <1>5

(* rate_limit.rs:80-83: a token taken moves from the level to the account. *)
LEMMA AccountOfCharge ==
  ASSUME NEW b \in Bucket, NEW c \in Bucket, NEW s \in Nat, NEW taken \in Nat,
         Accounted(b, taken, s),
         c.tokens = b.tokens - Unit, c.last_refill = b.last_refill
  PROVE  Accounted(c, taken, s) /\ Accounted(c, taken + 1, s)
  <1>1. PICK u \in Nat : u = taken * Unit
    BY ProductIsNat, RateLimitAssumption DEF RateLimitAssumption
  <1>2. (taken + 1) * Unit = u + 1 * Unit
    BY <1>1, Distributes, RateLimitAssumption DEF RateLimitAssumption
  <1>3. 1 * Unit = Unit /\ Unit \in Nat
    BY RateLimitAssumption DEF RateLimitAssumption
  <1>4. Refilled(c, s) = Refilled(b, s)
    BY DEF Refilled
  <1>5. Refilled(b, s) \in Nat /\ b.tokens \in Nat
    BY RefilledIsNat DEF Bucket
  <1>6. u + b.tokens <= Full + Refilled(b, s)
    BY <1>1 DEF Accounted
  <1> QED
    BY <1>1, <1>2, <1>3, <1>4, <1>5, <1>6, FullHoldsAToken DEF Accounted

(* The account of what a check finds and is offered.                       *)
LEMMA OfferIsAccounted ==
  ASSUME AccountInv, NEW r \in Requests, NEW s \in Nat
  PROVE  /\ IsFiniteSet(Asked(checks[r].agent, s))
         /\ Accounted(Offered(r), Cardinality(Asked(checks[r].agent, s)), s)
  <1> DEFINE a == checks[r].agent
  <1>1. IsFiniteSet(Asked(a, s))
    <2>1. Asked(a, s) \in SUBSET {q \in Requests : checks[q].step = "allowed"}
      BY DEF Asked
    <2> QED
      BY <2>1, FS_Subset DEF AccountInv, ChargesAreFinite
  <1>2. Cardinality(Asked(a, s)) \in Nat
    BY <1>1, FS_CardinalityType
  <1>3. Found(r) \in Bucket /\ Found(r).tokens <= Full /\ checks[r].read \in Nat
    BY FoundIs DEF AccountInv, LimiterInv, TypeOK, Check
  <1>4. s > Found(r).last_refill => Cardinality(Asked(a, s)) = 0
    <2> SUFFICES ASSUME s > Found(r).last_refill PROVE Asked(a, s) = {}
      BY FS_EmptySet
    <2> SUFFICES ASSUME NEW q \in Asked(a, s) PROVE FALSE
      OBVIOUS
    <2>1. /\ q \in Requests /\ checks[q].step = "allowed"
          /\ checks[q].agent = a /\ checks[q].read >= s
      BY DEF Asked
    <2>2. a \in DOMAIN buckets /\ checks[q].read <= buckets[a].last_refill
      BY <2>1 DEF AccountInv, ChargesHaveBuckets
    <2>3. checks[q].read \in Nat /\ Found(r).last_refill \in Nat
      BY <1>3, <2>1 DEF AccountInv, LimiterInv, TypeOK, Check, Bucket
    <2>4. Found(r) = buckets[a]
      BY <2>2 DEF Found
    <2> QED
      BY <2>1, <2>2, <2>3, <2>4
  <1>5. Accounted(Found(r), Cardinality(Asked(a, s)), s)
    <2>1. CASE a \in DOMAIN buckets
      BY <2>1 DEF Found, AccountInv, LevelsAccount
    <2>2. CASE a \notin DOMAIN buckets
      <3>1. Asked(a, s) = {}
        BY <2>2 DEF Asked, AccountInv, ChargesHaveBuckets
      <3>2. Cardinality(Asked(a, s)) * Unit = 0
        BY <3>1, FS_EmptySet, RateLimitAssumption DEF RateLimitAssumption
      <3>3. Found(r).tokens = Full
        BY <2>2 DEF Found, NewBucket
      <3> QED
        BY <1>3, <3>2, <3>3, RefilledIsNat, FullHoldsAToken DEF Accounted
    <2> QED
      BY <2>1, <2>2
  <1> HIDE DEF a
  <1>6. Accounted(Refill(Found(r), checks[r].read), Cardinality(Asked(a, s)), s)
    BY <1>2, <1>3, <1>4, <1>5, AccountOfRefill
  <1> QED
    BY <1>1, <1>6 DEF Offered, a

------------------------------------------------------------------------------
(* rate_limit.rs:48-94: the decision of a check keeps the accounts: an     *)
(* allowed check joins the stretches that begin no later than it was       *)
(* asked, whatever was asked later and decided before it.                  *)
LEMMA ConsumeKeepsAccounts ==
  ASSUME AccountInv, NEW r \in Requests, TryConsume(r)
  PROVE  AccountInv'
  <1> DEFINE a == checks[r].agent
  <1>1. LimiterInv /\ LimiterInv'
    BY ConsumeStep DEF AccountInv
  <1>2. /\ checks \in [Requests -> Check] /\ checks[r] \in Check
        /\ a \in Agents /\ checks[r].read \in Nat /\ now \in Nat
    BY <1>1 DEF LimiterInv, TypeOK, Check
  <1>3. /\ checks[r].step = "waiting" /\ now' = now
        /\ DOMAIN buckets' = DOMAIN buckets \cup {a}
        /\ \A x \in DOMAIN buckets : x # a => buckets'[x] = buckets[x]
        /\ buckets'[a].last_refill = Offered(r).last_refill
        /\ \/ /\ Offered(r).tokens >= Unit
              /\ buckets'[a].tokens = Offered(r).tokens - Unit
              /\ checks' = [checks EXCEPT ![r].step = "allowed", ![r].decided = now]
           \/ /\ Offered(r).tokens < Unit
              /\ buckets'[a].tokens = Offered(r).tokens
              /\ checks' = [checks EXCEPT ![r].step = "denied", ![r].decided = now,
                                          ![r].retry_after_secs = RetryAfter(Offered(r))]
    BY <1>1, ConsumeIs
  <1>4. /\ \A q \in Requests : /\ checks'[q].agent = checks[q].agent
                               /\ checks'[q].read = checks[q].read
                               /\ q # r => checks'[q] = checks[q]
        /\ checks'[r].decided = now
        /\ checks'[r].step \in {"allowed", "denied"}
    BY <1>2, <1>3 DEF Check
  <1>5. Found(r) \in Bucket /\ Found(r).tokens <= Full /\ Offered(r) \in Bucket
    BY <1>1, FoundIs
  <1>6. /\ Found(r).last_refill <= now
        /\ a \in DOMAIN buckets => Found(r).last_refill = buckets[a].last_refill
    BY <1>2, <1>5 DEF Found, NewBucket, AccountInv, ReadingsArePast
  <1>7. /\ Offered(r).last_refill <= now
        /\ Offered(r).last_refill >= Found(r).last_refill
        /\ Offered(r).last_refill >= checks[r].read
    <2>1. /\ checks[r].read <= Found(r).last_refill => Offered(r) = Found(r)
          /\ checks[r].read > Found(r).last_refill =>
                Offered(r).last_refill = checks[r].read
      BY <1>2, <1>5, RefillIs DEF Offered
    <2>2. checks[r].read <= now
      BY DEF AccountInv, ReadingsArePast
    <2>3. Found(r).last_refill \in Nat
      BY <1>5 DEF Bucket
    <2> QED
      BY <1>2, <1>6, <2>1, <2>2, <2>3
  <1> HIDE DEF a
  <1>8. ReadingsArePast'
    <2>1. \A q \in Requests : checks'[q].read <= now' /\ checks'[q].decided <= now'
      BY <1>2, <1>3, <1>4 DEF AccountInv, ReadingsArePast
    <2>2. \A x \in DOMAIN buckets' : buckets'[x].last_refill <= now'
      BY <1>3, <1>7 DEF AccountInv, ReadingsArePast
    <2> QED
      BY <2>1, <2>2 DEF ReadingsArePast
  <1>9. ChargesAreFinite'
    <2> DEFINE old == {q \in Requests : checks[q].step = "allowed"}
               new == {q \in Requests : checks'[q].step = "allowed"}
    <2>1. new \in SUBSET (old \cup {r})
      BY <1>4
    <2>2. IsFiniteSet(old)
      BY DEF AccountInv, ChargesAreFinite
    <2> HIDE DEF old, new
    <2>3. IsFiniteSet(new)
      BY <2>1, <2>2, FS_AddElement, FS_Subset
    <2> QED
      BY <2>3 DEF ChargesAreFinite, new
  <1>10. ChargesHaveBuckets'
    <2> SUFFICES ASSUME NEW q \in Requests, checks'[q].step = "allowed"
                 PROVE  /\ checks'[q].agent \in DOMAIN buckets'
                        /\ checks'[q].read <= buckets'[checks'[q].agent].last_refill
      BY DEF ChargesHaveBuckets
    <2>1. CASE q = r
      BY <1>3, <1>4, <1>7, <2>1 DEF a
    <2>2. CASE q # r
      <3>1. /\ checks[q].agent \in DOMAIN buckets
            /\ checks[q].read <= buckets[checks[q].agent].last_refill
        BY <1>4, <2>2 DEF AccountInv, ChargesHaveBuckets
      <3>2. CASE checks[q].agent # a
        BY <1>3, <1>4, <3>1, <3>2
      <3>3. CASE checks[q].agent = a
        <4>1. /\ checks[q].read <= Found(r).last_refill
              /\ Found(r).last_refill <= Offered(r).last_refill
          BY <1>6, <1>7, <3>1, <3>3
        <4>2. /\ checks[q].read \in Nat /\ Found(r).last_refill \in Nat
              /\ Offered(r).last_refill \in Nat
          BY <1>2, <1>5 DEF Check, Bucket
        <4> QED
          BY <1>3, <1>4, <3>3, <4>1, <4>2
      <3> QED
        BY <3>2, <3>3
    <2> QED
      BY <2>1, <2>2
  <1>11. LevelsAccount'
    <2> SUFFICES ASSUME NEW x \in DOMAIN buckets', NEW s \in Nat
                 PROVE  Accounted(buckets'[x],
                            Cardinality({q \in Requests : /\ checks'[q].agent = x
                                                          /\ checks'[q].step = "allowed"
                                                          /\ checks'[q].read >= s}), s)
      BY DEF LevelsAccount, Accounted, Asked, Refilled
    <2> DEFINE asked == {q \in Requests : /\ checks'[q].agent = x
                                          /\ checks'[q].step = "allowed"
                                          /\ checks'[q].read >= s}
    <2>1. CASE x # a
      <3>1. asked = Asked(x, s)
        BY <1>2, <1>4, <2>1 DEF Asked, a
      <3>2. x \in DOMAIN buckets /\ buckets'[x] = buckets[x]
        BY <1>3, <2>1
      <3> QED
        BY <3>1, <3>2 DEF AccountInv, LevelsAccount
    <2>2. CASE x = a
      <3>1. /\ IsFiniteSet(Asked(a, s))
            /\ Accounted(Offered(r), Cardinality(Asked(a, s)), s)
        BY OfferIsAccounted DEF a
      <3>2. Cardinality(Asked(a, s)) \in Nat
        BY <3>1, FS_CardinalityType
      <3>3. buckets'[a] \in Bucket
        BY <1>1, <1>3 DEF LimiterInv, TypeOK
      <3>4. CASE checks'[r].step = "allowed"
        <4>1. buckets'[a].tokens = Offered(r).tokens - Unit
          BY <1>2, <1>3, <3>4 DEF Check
        <4>2. /\ Accounted(buckets'[a], Cardinality(Asked(a, s)), s)
              /\ Accounted(buckets'[a], Cardinality(Asked(a, s)) + 1, s)
          BY <1>3, <1>5, <3>1, <3>2, <3>3, <4>1, AccountOfCharge
        <4>3. r \notin Asked(a, s)
          BY <1>3 DEF Asked
        <4>4. asked = Asked(a, s) \/ asked = Asked(a, s) \cup {r}
          <5>1. CASE checks[r].read >= s
            BY <1>4, <2>2, <3>4, <5>1 DEF Asked, a
          <5>2. CASE ~(checks[r].read >= s)
            BY <1>4, <2>2, <3>4, <4>3, <5>2 DEF Asked, a
          <5> QED
            BY <5>1, <5>2
        <4> HIDE DEF asked
        <4>5. Cardinality(Asked(a, s) \cup {r}) = Cardinality(Asked(a, s)) + 1
          BY <3>1, <4>3, FS_AddElement
        <4>6. Accounted(buckets'[a], Cardinality(asked), s)
          BY <4>2, <4>4, <4>5
        <4> QED
          BY <2>2, <4>6 DEF asked
      <3>5. CASE checks'[r].step = "denied"
        <4>1. buckets'[a].tokens = Offered(r).tokens
          BY <1>2, <1>3, <3>5 DEF Check
        <4>2. asked = Asked(a, s)
          BY <1>3, <1>4, <2>2, <3>5 DEF Asked, a
        <4>3. Accounted(buckets'[a], Cardinality(Asked(a, s)), s)
          BY <1>3, <3>1, <4>1 DEF Accounted, Refilled
        <4> QED
          BY <2>2, <4>2, <4>3
      <3> QED
        BY <1>4, <3>4, <3>5
    <2> QED
      BY <2>1, <2>2
  <1> QED
    BY <1>1, <1>8, <1>9, <1>10, <1>11 DEF AccountInv

LEMMA InitAccounts == Init => AccountInv
  <1> SUFFICES ASSUME Init PROVE AccountInv
    OBVIOUS
  <1>1. LimiterInv
    BY InitLimiter
  <1>2. /\ \A r \in Requests : /\ checks[r].step = "idle" /\ checks[r].read = 0
                               /\ checks[r].decided = 0
        /\ now = 0 /\ DOMAIN buckets = {}
    BY DEF Init
  <1>3. ChargesAreFinite
    <2>1. {r \in Requests : checks[r].step = "allowed"} = {}
      BY <1>2
    <2> QED
      BY <2>1, FS_EmptySet DEF ChargesAreFinite
  <1> QED
    BY <1>1, <1>2, <1>3 DEF AccountInv, ReadingsArePast, ChargesHaveBuckets, LevelsAccount

LEMMA AccountStep ==
  ASSUME AccountInv, [Next]_vars
  PROVE  AccountInv'
  <1>1. LimiterInv'
    BY LimiterStep DEF AccountInv
  <1>2. ASSUME NEW r \in Requests, ReadClock(r)
        PROVE  AccountInv'
    <2>1. checks \in [Requests -> Check] /\ now \in Nat
      BY DEF AccountInv, LimiterInv, TypeOK
    <2>2. /\ buckets' = buckets /\ now' = now
          /\ \A q \in Requests : /\ checks'[q].agent = checks[q].agent
                                 /\ checks'[q].decided = checks[q].decided
                                 /\ q # r => checks'[q] = checks[q]
          /\ checks'[r].read = now
          /\ checks'[r].step # "allowed" /\ checks[r].step # "allowed"
      BY <1>2, <2>1 DEF ReadClock, Check
    <2>3. ReadingsArePast'
      BY <2>1, <2>2 DEF AccountInv, ReadingsArePast
    <2>4. ChargesAreFinite'
      <3>1. {q \in Requests : checks'[q].step = "allowed"}
              = {q \in Requests : checks[q].step = "allowed"}
        BY <2>2
      <3> QED
        BY <3>1 DEF AccountInv, ChargesAreFinite
    <2>5. ChargesHaveBuckets'
      BY <2>2 DEF AccountInv, ChargesHaveBuckets
    <2>6. ASSUME NEW x \in DOMAIN buckets, NEW s \in Nat
          PROVE  {q \in Requests : /\ checks'[q].agent = x
                                   /\ checks'[q].step = "allowed"
                                   /\ checks'[q].read >= s} = Asked(x, s)
      BY <2>2 DEF Asked
    <2>7. LevelsAccount'
      BY <2>2, <2>6 DEF AccountInv, LevelsAccount, Accounted, Asked, Refilled
    <2> QED
      BY <1>1, <2>3, <2>4, <2>5, <2>7 DEF AccountInv
  <1>3. ASSUME NEW r \in Requests, TryConsume(r)
        PROVE  AccountInv'
    BY <1>3, ConsumeKeepsAccounts
  <1>4. CASE Tick
    <2>1. now \in Nat /\ now' = now + 1 /\ buckets' = buckets /\ checks' = checks
      BY <1>4 DEF Tick, AccountInv, LimiterInv, TypeOK
    <2>2. /\ \A r \in Requests : checks[r].read \in Nat /\ checks[r].decided \in Nat
          /\ \A x \in DOMAIN buckets : buckets[x].last_refill \in Nat
      BY DEF AccountInv, LimiterInv, TypeOK, Check, Bucket
    <2>3. ReadingsArePast'
      BY <2>1, <2>2 DEF AccountInv, ReadingsArePast
    <2> QED
      BY <1>1, <2>1, <2>3
      DEF AccountInv, ChargesAreFinite, ChargesHaveBuckets, LevelsAccount, Accounted,
          Asked, Refilled
  <1>5. CASE UNCHANGED vars
    BY <1>1, <1>5
    DEF vars, AccountInv, ReadingsArePast, ChargesAreFinite, ChargesHaveBuckets,
        LevelsAccount, Accounted, Asked, Refilled
  <1> QED
    BY <1>2, <1>3, <1>4, <1>5 DEF Next

------------------------------------------------------------------------------
(* The accounts bound every stretch that ends now ...                      *)
RateUpToNow ==
    \A a \in Agents : \A s \in 0 .. now :
        WithinRate(Cardinality(Inside(a, s, now)), s, now)

LEMMA AccountsBoundTheRate == AccountInv => RateUpToNow
  <1> SUFFICES ASSUME AccountInv, NEW a \in Agents, NEW s \in 0 .. now
               PROVE  WithinRate(Cardinality(Inside(a, s, now)), s, now)
    BY DEF RateUpToNow
  <1>1. now \in Nat /\ s \in Nat /\ s <= now
    BY DEF AccountInv, LimiterInv, TypeOK
  <1>2. (now - s) * Gain \in Nat
    BY <1>1, ProductIsNat, RateLimitAssumption DEF RateLimitAssumption
  <1>3. Inside(a, s, now) \in SUBSET Asked(a, s)
    BY DEF Inside, Asked
  <1>4. IsFiniteSet(Asked(a, s))
    <2>1. Asked(a, s) \in SUBSET {q \in Requests : checks[q].step = "allowed"}
      BY DEF Asked
    <2> QED
      BY <2>1, FS_Subset DEF AccountInv, ChargesAreFinite
  <1>5. CASE a \notin DOMAIN buckets
    <2>1. Inside(a, s, now) = {}
      BY <1>5 DEF Inside, AccountInv, ChargesHaveBuckets
    <2>2. Cardinality(Inside(a, s, now)) * Unit = 0
      BY <2>1, FS_EmptySet, RateLimitAssumption DEF RateLimitAssumption
    <2> QED
      BY <1>2, <2>2, FullHoldsAToken DEF WithinRate
  <1>6. CASE a \in DOMAIN buckets
    <2>1. /\ buckets[a] \in Bucket /\ buckets[a].tokens \in Nat
          /\ buckets[a].last_refill \in Nat
      BY <1>6 DEF AccountInv, LimiterInv, TypeOK, Bucket
    <2>2. Refilled(buckets[a], s) <= (now - s) * Gain
      <3>1. CASE buckets[a].last_refill >= s
        <4>1. PICK m \in Nat : m = buckets[a].last_refill - s
          BY <2>1, <1>1, <3>1
        <4>2. PICK n \in Nat : n = now - s
          BY <1>1
        <4>3. m <= n
          BY <1>1, <1>6, <2>1, <4>1, <4>2 DEF AccountInv, ReadingsArePast
        <4>4. m * Gain <= n * Gain
          BY <4>3, MoreCostsMore, RateLimitAssumption DEF RateLimitAssumption
        <4> QED
          BY <3>1, <4>1, <4>2, <4>4 DEF Refilled
      <3>2. CASE ~(buckets[a].last_refill >= s)
        BY <1>2, <3>2 DEF Refilled
      <3> QED
        BY <3>1, <3>2
    <2>3. PICK taken \in Nat : taken = Cardinality(Asked(a, s))
      BY <1>4, FS_CardinalityType
    <2>4. IsFiniteSet(Inside(a, s, now)) /\ Cardinality(Inside(a, s, now)) <= taken
      BY <1>3, <1>4, <2>3, FS_Subset
    <2>5. PICK n \in Nat : n = Cardinality(Inside(a, s, now))
      BY <2>4, FS_CardinalityType
    <2>6. n * Unit <= taken * Unit
      BY <2>4, <2>5, MoreCostsMore, RateLimitAssumption DEF RateLimitAssumption
    <2>7. taken * Unit + buckets[a].tokens <= Full + Refilled(buckets[a], s)
      BY <1>1, <1>6, <2>3 DEF AccountInv, LevelsAccount, Accounted
    <2>8. taken * Unit \in Nat /\ n * Unit \in Nat /\ Refilled(buckets[a], s) \in Nat
      BY <1>1, <2>1, ProductIsNat, RefilledIsNat, RateLimitAssumption
      DEF RateLimitAssumption
    <2>9. n * Unit <= Full + (now - s) * Gain
      BY <1>2, <2>1, <2>2, <2>6, <2>7, <2>8, FullHoldsAToken
    <2> QED
      BY <2>5, <2>9 DEF WithinRate
  <1> QED
    BY <1>5, <1>6

(* ... and no step changes what lies in a stretch that ended before.       *)
LEMMA RateStep ==
  ASSUME AccountInv, BurstPlusRate, RateUpToNow', [Next]_vars
  PROVE  BurstPlusRate'
  <1> SUFFICES ASSUME NEW a \in Agents, NEW s \in 0 .. now', NEW t \in s .. now'
               PROVE  WithinRate(Cardinality({q \in Requests :
                                   /\ checks'[q].agent = a
                                   /\ checks'[q].step = "allowed"
                                   /\ checks'[q].read >= s
                                   /\ checks'[q].decided <= t}), s, t)
    BY DEF BurstPlusRate, WithinRate
  <1> DEFINE inside == {q \in Requests : /\ checks'[q].agent = a
                                         /\ checks'[q].step = "allowed"
                                         /\ checks'[q].read >= s
                                         /\ checks'[q].decided <= t}
  <1>1. now \in Nat /\ checks \in [Requests -> Check]
    BY DEF AccountInv, LimiterInv, TypeOK
  <1>2. now' \in Nat /\ (now' = now \/ (now' = now + 1 /\ checks' = checks))
    <2>1. ASSUME NEW r \in Requests, ReadClock(r) PROVE now' = now
      BY <2>1 DEF ReadClock
    <2>2. ASSUME NEW r \in Requests, TryConsume(r) PROVE now' = now
      BY <2>2 DEF TryConsume
    <2>3. CASE Tick
      BY <1>1, <2>3 DEF Tick
    <2>4. CASE UNCHANGED vars
      BY <1>1, <2>4 DEF vars
    <2> QED
      BY <1>1, <2>1, <2>2, <2>3, <2>4 DEF Next
  <1>3. CASE t = now'
    BY <1>3 DEF RateUpToNow, WithinRate, Inside
  <1>4. CASE t # now'
    <2>1. s \in 0 .. now /\ t \in s .. now
      BY <1>1, <1>2, <1>4
    <2>2. inside = Inside(a, s, t)
      <3>1. ASSUME checks' = checks PROVE inside = Inside(a, s, t)
        BY <3>1 DEF Inside
      <3>2. ASSUME NEW r \in Requests, ReadClock(r) PROVE inside = Inside(a, s, t)
        <4>1. /\ \A q \in Requests : q # r => checks'[q] = checks[q]
              /\ checks'[r].step # "allowed" /\ checks[r].step # "allowed"
          BY <1>1, <3>2 DEF ReadClock, Check
        <4> QED
          BY <4>1 DEF Inside
      <3>3. ASSUME NEW r \in Requests, TryConsume(r) PROVE inside = Inside(a, s, t)
        <4>1. /\ \A q \in Requests : q # r => checks'[q] = checks[q]
              /\ checks'[r].decided = now /\ checks[r].step # "allowed"
              /\ now' = now
          <5>1. /\ checks[r].step = "waiting" /\ now' = now
                /\ \/ checks' = [checks EXCEPT ![r].step = "allowed", ![r].decided = now]
                   \/ \E w : checks' = [checks EXCEPT ![r].step = "denied",
                                                      ![r].decided = now,
                                                      ![r].retry_after_secs = w]
            BY <3>3, ConsumeIs DEF AccountInv
          <5> QED
            BY <1>1, <5>1 DEF Check
        <4>2. ~(checks'[r].decided <= t)
          BY <1>1, <1>4, <2>1, <4>1
        <4> QED
          BY <4>1, <4>2 DEF Inside
      <3> QED
        BY <3>1, <3>2, <3>3 DEF Next, Tick, vars
    <2> HIDE DEF inside
    <2>3. WithinRate(Cardinality(Inside(a, s, t)), s, t)
      BY <2>1 DEF BurstPlusRate, WithinRate, Inside
    <2>4. WithinRate(Cardinality(inside), s, t)
      BY <2>2, <2>3
    <2> QED
      BY <2>4 DEF inside
  <1> QED
    BY <1>3, <1>4

LEMMA AccountsHold == Spec => []AccountInv
  BY InitAccounts, AccountStep, PTL DEF Spec

(* rate_limit.rs:67-94: for any burst, rate and number of requests, and in *)
(* whatever order the checks of an agent enter the lock, those asked and   *)
(* allowed inside an interval number at most the burst plus the refill.    *)
THEOREM RateIsKept == Spec => []BurstPlusRate
  <1>1. Spec => []AccountInv
    BY AccountsHold
  <1>2. AccountInv => RateUpToNow
    BY AccountsBoundTheRate
  <1>3. Init => BurstPlusRate
    <2> SUFFICES ASSUME Init, NEW a \in Agents, NEW s \in 0 .. now, NEW t \in s .. now
                 PROVE  WithinRate(Cardinality(Inside(a, s, t)), s, t)
      BY DEF BurstPlusRate, WithinRate, Inside
    <2>1. Inside(a, s, t) = {}
      BY DEF Init, Inside
    <2>2. Cardinality(Inside(a, s, t)) * Unit = 0
      BY <2>1, FS_EmptySet, RateLimitAssumption DEF RateLimitAssumption
    <2>3. t - s \in Nat
      BY DEF Init
    <2>4. (t - s) * Gain \in Nat
      BY <2>3, ProductIsNat, RateLimitAssumption DEF RateLimitAssumption
    <2> QED
      BY <2>2, <2>4, FullHoldsAToken DEF WithinRate
  <1>4. AccountInv /\ BurstPlusRate /\ RateUpToNow' /\ [Next]_vars => BurstPlusRate'
    BY RateStep
  <1> QED
    BY <1>1, <1>2, <1>3, <1>4, PTL DEF Spec

------------------------------------------------------------------------------
(* The wait told to a denied check d ends at Until(d).  As long as its     *)
(* agent was not served since, the bucket holds a token by then: it has    *)
(* lost none, and every check denied meanwhile only moved the refill       *)
(* forward.                                                                *)
Until(d) == checks[d].decided + checks[d].retry_after_secs * Second

ServedSince(d) == \E o \in Requests : /\ checks[o].agent = checks[d].agent
                                      /\ checks[o].step = "allowed"
                                      /\ checks[o].decided >= checks[d].decided

(* Bucket b, untouched, holds a token at time t.                           *)
HoldsTokenBy(b, t) ==
    /\ b.last_refill <= t
    /\ b.tokens + (t - b.last_refill) * Gain >= Unit

WaitsAreEnough ==
    \A d \in Requests : checks[d].step = "denied" =>
        /\ checks[d].retry_after_secs >= 1
        /\ \/ ServedSince(d)
           \/ /\ checks[d].agent \in DOMAIN buckets
              /\ HoldsTokenBy(buckets[checks[d].agent], Until(d))

WaitInv == AccountInv /\ WaitsAreEnough /\ WaitingSuffices

(* rate_limit.rs:85: rounding up covers the deficit.                       *)
LEMMA RoundedUpCovers ==
  ASSUME NEW m \in Nat, NEW g \in Nat \ {0}
  PROVE  ((m + g - 1) \div g) * g >= m
  <1>1. PICK q \in Nat : q = (m + g - 1) \div g
    BY QuotientIsNat, m + g - 1 \in Nat
  <1>2. m + g - 1 < q * g + g
    BY <1>1, SMT
  <1>3. q * g \in Nat
    BY ProductIsNat
  <1> QED
    BY <1>1, <1>2, <1>3

LEMMA RetryCovers ==
  ASSUME NEW b \in Bucket, b.tokens < Unit
  PROVE  /\ RetryAfter(b) \in Nat /\ RetryAfter(b) >= 1
         /\ b.tokens + (RetryAfter(b) * Second) * Gain >= Unit
  <1>1. PICK g \in Nat \ {0} : g = Gain * Second
    BY RateLimitAssumption, SMT DEF RateLimitAssumption
  <1>2. PICK m \in Nat : m = Unit - b.tokens
    BY RateLimitAssumption DEF RateLimitAssumption, Bucket
  <1>3. PICK q \in Nat : q = (m + g - 1) \div g
    BY QuotientIsNat, m + g - 1 \in Nat
  <1>4. q * g >= m
    BY <1>3, RoundedUpCovers
  <1>5. RetryAfter(b) = IF q < 1 THEN 1 ELSE q
    BY <1>1, <1>2, <1>3 DEF RetryAfter
  <1>6. RetryAfter(b) \in Nat /\ RetryAfter(b) >= 1 /\ q <= RetryAfter(b)
    BY <1>5
  <1>7. PICK w \in Nat : w = RetryAfter(b)
    BY <1>6
  <1>8. w * g >= q * g
    BY <1>6, <1>7, MoreCostsMore
  <1>9. (w * Second) * Gain = w * g
    BY <1>1, RateLimitAssumption, SMT DEF RateLimitAssumption
  <1>10. w * g \in Nat /\ q * g \in Nat
    BY ProductIsNat
  <1>11. b.tokens \in Nat
    BY DEF Bucket
  <1>12. b.tokens + w * g >= Unit
    BY <1>2, <1>4, <1>8, <1>10, <1>11, RateLimitAssumption DEF RateLimitAssumption
  <1> QED
    BY <1>6, <1>7, <1>9, <1>12

(* rate_limit.rs:67-78: a refill, full or not, leaves what a bucket holds  *)
(* at a later time: if that was a token, whoever comes by then finds one,  *)
(* or leaves a bucket of which it is still true.                           *)
LEMMA RefillHolds ==
  ASSUME NEW b \in Bucket, b.tokens <= Full, NEW t \in Nat, NEW u \in Nat,
         HoldsTokenBy(b, u), Refill(b, t).tokens < Unit
  PROVE  t < u /\ HoldsTokenBy(Refill(b, t), u)
  <1>1. /\ Refill(b, t) \in Bucket
        /\ t <= b.last_refill => Refill(b, t) = b
        /\ t > b.last_refill =>
             /\ Refill(b, t).last_refill = t
             /\ \/ Refill(b, t).tokens = Full
                \/ Refill(b, t).tokens = b.tokens + (t - b.last_refill) * Gain
    BY RefillIs
  <1>2. b.last_refill \in Nat /\ b.tokens \in Nat
    BY DEF Bucket
  <1>3. b.last_refill <= u /\ b.tokens + (u - b.last_refill) * Gain >= Unit
    BY DEF HoldsTokenBy
  <1>4. CASE t <= b.last_refill
    <2>1. b.tokens < Unit
      BY <1>1, <1>4
    <2>2. b.last_refill # u
      <3> SUFFICES ASSUME b.last_refill = u PROVE FALSE
        OBVIOUS
      <3>1. u - b.last_refill = 0
        OBVIOUS
      <3>2. (u - b.last_refill) * Gain = 0
        BY <3>1, RateLimitAssumption DEF RateLimitAssumption
      <3> QED
        BY <1>2, <1>3, <2>1, <3>2, RateLimitAssumption DEF RateLimitAssumption
    <2> QED
      BY <1>1, <1>2, <1>3, <1>4, <2>2
  <1>5. CASE t > b.last_refill
    <2>1. /\ Refill(b, t).last_refill = t
          /\ Refill(b, t).tokens = b.tokens + (t - b.last_refill) * Gain
      BY <1>1, <1>5, FullHoldsAToken, RateLimitAssumption DEF RateLimitAssumption
    <2>2. PICK early \in Nat : early = t - b.last_refill
      BY <1>2, <1>5
    <2>3. early * Gain \in Nat
      BY ProductIsNat, RateLimitAssumption DEF RateLimitAssumption
    <2>4. b.tokens + early * Gain < Unit
      BY <2>1, <2>2
    <2>5. PICK span \in Nat : span = u - b.last_refill
      BY <1>2, <1>3
    <2>6. b.tokens + span * Gain >= Unit /\ span * Gain \in Nat
      BY <1>3, <2>5, ProductIsNat, RateLimitAssumption DEF RateLimitAssumption
    <2>7. early < span
      <3> SUFFICES ASSUME span <= early PROVE FALSE
        OBVIOUS
      <3>1. span * Gain <= early * Gain
        BY MoreCostsMore, RateLimitAssumption DEF RateLimitAssumption
      <3> QED
        BY <1>2, <2>3, <2>4, <2>6, <3>1, RateLimitAssumption DEF RateLimitAssumption
    <2>8. t < u
      BY <1>2, <2>2, <2>5, <2>7
    <2>9. PICK late \in Nat : late = u - t
      BY <2>8
    <2>10. span * Gain = early * Gain + late * Gain
      <3>1. span = early + late
        BY <1>2, <2>2, <2>5, <2>9
      <3> QED
        BY <3>1, Distributes, RateLimitAssumption DEF RateLimitAssumption
    <2>11. late * Gain \in Nat
      BY ProductIsNat, RateLimitAssumption DEF RateLimitAssumption
    <2>12. (b.tokens + early * Gain) + late * Gain >= Unit
      BY <1>2, <2>3, <2>6, <2>10, <2>11
    <2> QED
      BY <2>1, <2>2, <2>8, <2>9, <2>12 DEF HoldsTokenBy
  <1> QED
    BY <1>2, <1>4, <1>5

(* What a decision leaves of the checks, and of the bucket of a denied one.*)
LEMMA ConsumeAnswers ==
  ASSUME LimiterInv, NEW r \in Requests, TryConsume(r)
  PROVE  /\ \A q \in Requests : q # r => checks'[q] = checks[q]
         /\ checks'[r].agent = checks[r].agent /\ checks'[r].read = checks[r].read
         /\ checks'[r].decided = now /\ checks'[r].step \in {"allowed", "denied"}
         /\ checks'[r].step = "denied" =>
              /\ Offered(r).tokens < Unit
              /\ buckets'[checks[r].agent].tokens = Offered(r).tokens
              /\ buckets'[checks[r].agent].last_refill = Offered(r).last_refill
              /\ checks'[r].retry_after_secs = RetryAfter(Offered(r))
  <1>1. checks \in [Requests -> Check] /\ checks[r] \in Check
    BY DEF LimiterInv, TypeOK
  <1>2. PICK b : b = buckets'[checks[r].agent]
    OBVIOUS
  <1>3. PICK w : w = RetryAfter(Offered(r))
    OBVIOUS
  <1>4. PICK level : level = Offered(r).tokens
    OBVIOUS
  <1>5. PICK moment : moment = Offered(r).last_refill
    OBVIOUS
  <1>6. /\ b.last_refill = moment
        /\ \/ checks' = [checks EXCEPT ![r].step = "allowed", ![r].decided = now]
           \/ /\ level < Unit /\ b.tokens = level
              /\ checks' = [checks EXCEPT ![r].step = "denied", ![r].decided = now,
                                          ![r].retry_after_secs = w]
    BY <1>2, <1>3, <1>4, <1>5, ConsumeIs
  <1>7. CASE checks' = [checks EXCEPT ![r].step = "allowed", ![r].decided = now]
    BY <1>1, <1>7 DEF Check
  <1>8. CASE /\ level < Unit /\ b.tokens = level
             /\ checks' = [checks EXCEPT ![r].step = "denied", ![r].decided = now,
                                         ![r].retry_after_secs = w]
    BY <1>1, <1>2, <1>3, <1>4, <1>5, <1>6, <1>8 DEF Check
  <1> QED
    BY <1>6, <1>7, <1>8

(* rate_limit.rs:84-92: the wait of the check that is denied now.          *)
LEMMA DenialTellsEnough ==
  ASSUME AccountInv, NEW r \in Requests, TryConsume(r), checks'[r].step = "denied"
  PROVE  /\ checks'[r].retry_after_secs >= 1 /\ Until(r)' \in Nat /\ Until(r)' > now
         /\ checks[r].agent \in DOMAIN buckets'
         /\ HoldsTokenBy(buckets'[checks[r].agent], Until(r)')
  <1>1. LimiterInv /\ AccountInv' /\ checks \in [Requests -> Check] /\ now \in Nat
    BY ConsumeKeepsAccounts DEF AccountInv, LimiterInv, TypeOK
  <1>2. /\ Offered(r).tokens < Unit /\ now' = now
        /\ DOMAIN buckets' = DOMAIN buckets \cup {checks[r].agent}
        /\ buckets'[checks[r].agent].tokens = Offered(r).tokens
        /\ buckets'[checks[r].agent].last_refill = Offered(r).last_refill
        /\ checks'[r].decided = now
        /\ checks'[r].retry_after_secs = RetryAfter(Offered(r))
    BY <1>1, ConsumeIs, ConsumeAnswers
  <1>3. Offered(r) \in Bucket
    BY <1>1, FoundIs
  <1>4. PICK w \in Nat : w = RetryAfter(Offered(r))
    BY <1>2, <1>3, RetryCovers
  <1>5. w >= 1 /\ Offered(r).tokens + (w * Second) * Gain >= Unit
    BY <1>2, <1>3, <1>4, RetryCovers
  <1>6. PICK ticks \in Nat : ticks = w * Second
    BY ProductIsNat, RateLimitAssumption DEF RateLimitAssumption
  <1>7. ticks >= 1
    <2>1. 1 * Second <= w * Second
      BY <1>5, MoreCostsMore, RateLimitAssumption DEF RateLimitAssumption
    <2> QED
      BY <1>6, <2>1, RateLimitAssumption DEF RateLimitAssumption
  <1>8. Until(r)' = now + ticks
    BY <1>2, <1>4, <1>6 DEF Until
  <1>9. Offered(r).last_refill <= now /\ Offered(r).last_refill \in Nat
        /\ Offered(r).tokens \in Nat
    <2>1. \A x \in DOMAIN buckets' : buckets'[x].last_refill <= now'
      BY <1>1 DEF AccountInv, ReadingsArePast
    <2> QED
      BY <1>2, <1>3, <2>1 DEF Bucket
  <1>10. PICK span \in Nat : span = (now + ticks) - Offered(r).last_refill
    BY <1>1, <1>9
  <1>11. ticks * Gain <= span * Gain
    BY <1>1, <1>9, <1>10, MoreCostsMore, RateLimitAssumption DEF RateLimitAssumption
  <1>12. ticks * Gain \in Nat /\ span * Gain \in Nat
    BY ProductIsNat, RateLimitAssumption DEF RateLimitAssumption
  <1>13. Offered(r).tokens + ticks * Gain >= Unit
    BY <1>5, <1>6
  <1>14. Offered(r).tokens + span * Gain >= Unit
    BY <1>9, <1>11, <1>12, <1>13, RateLimitAssumption DEF RateLimitAssumption
  <1>15. HoldsTokenBy(buckets'[checks[r].agent], now + ticks)
    BY <1>1, <1>2, <1>9, <1>10, <1>14 DEF HoldsTokenBy
  <1> QED
    BY <1>1, <1>2, <1>4, <1>5, <1>7, <1>8, <1>15

(* rate_limit.rs:48-94: who was denied before and has not been served      *)
(* since: the next check of the agent is either allowed or came too early, *)
(* and then leaves what was told true.                                     *)
LEMMA ConsumeKeepsWaits ==
  ASSUME WaitInv, NEW r \in Requests, TryConsume(r)
  PROVE  WaitsAreEnough' /\ WaitingSuffices'
  <1>1. /\ AccountInv /\ LimiterInv /\ AccountInv'
        /\ checks \in [Requests -> Check] /\ now \in Nat
    BY ConsumeKeepsAccounts DEF WaitInv, AccountInv, LimiterInv, TypeOK
  <1>2. /\ checks[r].step = "waiting" /\ now' = now
        /\ \A q \in Requests : q # r => checks'[q] = checks[q]
        /\ checks'[r].agent = checks[r].agent /\ checks'[r].read = checks[r].read
        /\ checks'[r].decided = now /\ checks'[r].step \in {"allowed", "denied"}
        /\ DOMAIN buckets \subseteq DOMAIN buckets'
        /\ \A x \in DOMAIN buckets : x # checks[r].agent => buckets'[x] = buckets[x]
        /\ checks'[r].step = "denied" =>
             /\ Offered(r).tokens < Unit
             /\ buckets'[checks[r].agent].tokens = Offered(r).tokens
             /\ buckets'[checks[r].agent].last_refill = Offered(r).last_refill
    BY <1>1, ConsumeIs, ConsumeAnswers
  <1>3. ASSUME NEW d \in Requests, d # r, ServedSince(d)
        PROVE  ServedSince(d)'
    <2>1. PICK o \in Requests : /\ checks[o].agent = checks[d].agent
                                /\ checks[o].step = "allowed"
                                /\ checks[o].decided >= checks[d].decided
      BY <1>3 DEF ServedSince
    <2>2. checks'[o] = checks[o] /\ checks'[d] = checks[d]
      BY <1>2, <1>3, <2>1
    <2> QED
      BY <2>1, <2>2 DEF ServedSince
  <1>4. ASSUME NEW d \in Requests, d # r, checks[d].step = "denied",
               checks[d].agent = checks[r].agent
        PROVE  \/ ServedSince(d)'
               \/ /\ checks'[r].step = "denied" /\ checks[r].read < Until(d)
                  /\ checks[d].agent \in DOMAIN buckets'
                  /\ HoldsTokenBy(buckets'[checks[d].agent], Until(d))
    <2>1. CASE ServedSince(d)
      BY <1>3, <1>4, <2>1
    <2>2. CASE checks'[r].step = "allowed"
      <3>1. checks[d].decided <= now
        BY <1>1 DEF AccountInv, ReadingsArePast
      <3>2. checks'[r].decided >= checks'[d].decided
        BY <1>1, <1>2, <1>4, <3>1 DEF Check
      <3> QED
        BY <1>2, <1>4, <2>2, <3>2 DEF ServedSince
    <2>3. CASE ~ServedSince(d) /\ checks'[r].step = "denied"
      <3>1. /\ checks[d].agent \in DOMAIN buckets
            /\ HoldsTokenBy(buckets[checks[d].agent], Until(d))
        BY <1>4, <2>3 DEF WaitInv, WaitsAreEnough
      <3>2. Found(r) = buckets[checks[d].agent]
        BY <1>4, <3>1 DEF Found
      <3>3. Until(d) \in Nat
        <4>1. checks[d] \in Check
          BY <1>1
        <4>2. checks[d].retry_after_secs * Second \in Nat
          BY <4>1, ProductIsNat, RateLimitAssumption DEF Check, RateLimitAssumption
        <4> QED
          BY <4>1, <4>2 DEF Until, Check
      <3>4. checks[r].read \in Nat
        BY <1>1 DEF Check
      <3>5. Offered(r).tokens < Unit
        BY <1>2, <2>3
      <3>6. checks[r].read < Until(d) /\ HoldsTokenBy(Offered(r), Until(d))
        BY <1>1, <3>1, <3>2, <3>3, <3>4, <3>5, FoundIs, RefillHolds DEF Offered
      <3>7. HoldsTokenBy(buckets'[checks[d].agent], Until(d))
        BY <1>2, <1>4, <2>3, <3>6 DEF HoldsTokenBy
      <3> QED
        BY <1>2, <2>3, <3>1, <3>6, <3>7
    <2> QED
      BY <1>2, <2>1, <2>2, <2>3
  <1>5. ASSUME NEW d \in Requests, d # r PROVE Until(d)' = Until(d)
    BY <1>2, <1>5 DEF Until
  <1>6. WaitsAreEnough'
    <2> SUFFICES ASSUME NEW d \in Requests, checks'[d].step = "denied"
                 PROVE  /\ checks'[d].retry_after_secs >= 1
                        /\ \/ ServedSince(d)'
                           \/ /\ checks'[d].agent \in DOMAIN buckets'
                              /\ HoldsTokenBy(buckets'[checks'[d].agent], Until(d)')
      BY DEF WaitsAreEnough, HoldsTokenBy
    <2>1. CASE d = r
      BY <1>1, <1>2, <2>1, DenialTellsEnough
    <2>2. CASE d # r
      <3>1. checks'[d] = checks[d] /\ checks[d].retry_after_secs >= 1
        BY <1>2, <2>2 DEF WaitInv, WaitsAreEnough
      <3>2. CASE checks[d].agent = checks[r].agent
        BY <1>4, <1>5, <2>2, <3>1, <3>2
      <3>3. CASE checks[d].agent # checks[r].agent /\ ~ServedSince(d)
        <4>1. /\ checks[d].agent \in DOMAIN buckets
              /\ HoldsTokenBy(buckets[checks[d].agent], Until(d))
          BY <3>1, <3>3 DEF WaitInv, WaitsAreEnough
        <4> QED
          BY <1>2, <1>5, <2>2, <3>1, <3>3, <4>1
      <3>4. CASE ServedSince(d)
        BY <1>3, <2>2, <3>1, <3>4
      <3> QED
        BY <3>2, <3>3, <3>4
    <2> QED
      BY <2>1, <2>2
  <1>7. WaitingSuffices'
    <2> SUFFICES ASSUME NEW d \in Requests, NEW q \in Requests,
                        checks'[d].step = "denied", checks'[q].step = "denied",
                        checks'[d].agent = checks'[q].agent,
                        checks'[q].read >= Until(d)'
                 PROVE  ServedSince(d)'
      BY DEF WaitingSuffices, Until, ServedSince
    <2>1. d # r
      <3> SUFFICES ASSUME d = r PROVE FALSE
        OBVIOUS
      <3>1. Until(r)' \in Nat /\ Until(r)' > now
        BY <1>1, DenialTellsEnough
      <3>2. checks'[q].read \in Nat /\ checks'[q].read <= now
        BY <1>1, <1>2 DEF AccountInv, ReadingsArePast, LimiterInv, TypeOK, Check
      <3> QED
        BY <1>1, <3>1, <3>2
    <2>2. CASE q = r
      <3>1. ServedSince(d)' \/ checks[r].read < Until(d)
        BY <1>2, <1>4, <2>1, <2>2
      <3>2. CASE checks[r].read < Until(d)
        <4>1. checks[d] \in Check /\ checks[r].read \in Nat
          BY <1>1 DEF Check
        <4>2. checks[d].retry_after_secs * Second \in Nat
          BY <4>1, ProductIsNat, RateLimitAssumption DEF Check, RateLimitAssumption
        <4>3. Until(d) \in Nat
          BY <4>1, <4>2 DEF Until, Check
        <4>4. checks[r].read >= Until(d)
          BY <1>2, <1>5, <2>1, <2>2
        <4> QED
          BY <3>2, <4>1, <4>3, <4>4
      <3> QED
        BY <3>1, <3>2
    <2>3. CASE q # r
      <3>1. checks'[d] = checks[d] /\ checks'[q] = checks[q] /\ Until(d)' = Until(d)
        BY <1>2, <1>5, <2>1, <2>3
      <3>2. ServedSince(d)
        BY <3>1 DEF WaitInv, WaitingSuffices, Until, ServedSince
      <3> QED
        BY <1>3, <2>1, <3>2
    <2> QED
      BY <2>2, <2>3
  <1> QED
    BY <1>6, <1>7

LEMMA WaitStep ==
  ASSUME WaitInv, [Next]_vars
  PROVE  WaitInv'
  <1>1. AccountInv'
    BY AccountStep DEF WaitInv
  <1>2. ASSUME NEW r \in Requests, ReadClock(r)
        PROVE  WaitsAreEnough' /\ WaitingSuffices'
    <2>1. checks \in [Requests -> Check]
      BY DEF WaitInv, AccountInv, LimiterInv, TypeOK
    <2>2. /\ buckets' = buckets
          /\ \A q \in Requests : q # r => checks'[q] = checks[q]
          /\ checks'[r].step = "waiting" /\ checks[r].step = "idle"
      BY <1>2, <2>1 DEF ReadClock, Check
    <2>3. ASSUME NEW d \in Requests, checks'[d].step = "denied"
          PROVE  checks'[d] = checks[d] /\ Until(d)' = Until(d)
      BY <2>2, <2>3 DEF Until
    <2>4. ASSUME NEW d \in Requests, checks'[d].step = "denied", ServedSince(d)
          PROVE  ServedSince(d)'
      <3>1. PICK o \in Requests : /\ checks[o].agent = checks[d].agent
                                  /\ checks[o].step = "allowed"
                                  /\ checks[o].decided >= checks[d].decided
        BY <2>4 DEF ServedSince
      <3>2. checks'[o] = checks[o] /\ checks'[d] = checks[d]
        BY <2>2, <2>4, <3>1
      <3> QED
        BY <3>1, <3>2 DEF ServedSince
    <2>5. WaitsAreEnough'
      <3> SUFFICES ASSUME NEW d \in Requests, checks'[d].step = "denied"
                   PROVE  /\ checks'[d].retry_after_secs >= 1
                          /\ \/ ServedSince(d)'
                             \/ /\ checks'[d].agent \in DOMAIN buckets'
                                /\ HoldsTokenBy(buckets'[checks'[d].agent], Until(d)')
        BY DEF WaitsAreEnough, HoldsTokenBy
      <3>1. /\ checks'[d] = checks[d] /\ Until(d)' = Until(d)
            /\ checks[d].retry_after_secs >= 1
            /\ \/ ServedSince(d)
               \/ /\ checks[d].agent \in DOMAIN buckets
                  /\ HoldsTokenBy(buckets[checks[d].agent], Until(d))
        BY <2>3 DEF WaitInv, WaitsAreEnough
      <3> QED
        BY <2>2, <2>4, <3>1
    <2>6. WaitingSuffices'
      <3> SUFFICES ASSUME NEW d \in Requests, NEW q \in Requests,
                          checks'[d].step = "denied", checks'[q].step = "denied",
                          checks'[d].agent = checks'[q].agent,
                          checks'[q].read >= Until(d)'
                   PROVE  ServedSince(d)'
        BY DEF WaitingSuffices, Until, ServedSince
      <3>1. checks'[d] = checks[d] /\ checks'[q] = checks[q] /\ Until(d)' = Until(d)
        BY <2>3
      <3>2. ServedSince(d)
        BY <3>1 DEF WaitInv, WaitingSuffices, Until, ServedSince
      <3> QED
        BY <2>4, <3>2
    <2> QED
      BY <2>5, <2>6
  <1>3. ASSUME NEW r \in Requests, TryConsume(r)
        PROVE  WaitsAreEnough' /\ WaitingSuffices'
    BY <1>3, ConsumeKeepsWaits
  <1>4. CASE UNCHANGED <<buckets, checks>>
    <2>1. WaitsAreEnough'
      BY <1>4 DEF WaitInv, WaitsAreEnough, ServedSince, Until, HoldsTokenBy
    <2>2. WaitingSuffices'
      BY <1>4 DEF WaitInv, WaitingSuffices
    <2> QED
      BY <1>1, <2>1, <2>2 DEF WaitInv
  <1> QED
    BY <1>1, <1>2, <1>3, <1>4 DEF WaitInv, Next, Tick, vars

(* rate_limit.rs:84-92: for any burst, rate and number of requests, whoever*)
(* waits the told retry_after_secs and is denied again was overtaken by an *)
(* allowed request of the same agent.                                      *)
THEOREM WaitsSuffice == Spec => []WaitingSuffices
  <1>1. Init => WaitInv
    <2> SUFFICES ASSUME Init PROVE WaitInv
      OBVIOUS
    <2>1. AccountInv
      BY InitAccounts
    <2>2. \A r \in Requests : checks[r].step = "idle"
      BY DEF Init
    <2> QED
      BY <2>1, <2>2 DEF WaitInv, WaitsAreEnough, WaitingSuffices
  <1>2. WaitInv /\ [Next]_vars => WaitInv'
    BY WaitStep
  <1>3. WaitInv => WaitingSuffices
    BY DEF WaitInv
  <1> QED
    BY <1>1, <1>2, <1>3, PTL DEF Spec

===============================================================================

------------------------------- MODULE RateLimit ------------------------------
(***************************************************************************)
(* The per-agent token buckets of clavenar-lite (src/src/rate_limit.rs),   *)
(* asked once by every request before brain and policy.                    *)
(*                                                                         *)
(* A check reads the clock, then waits for the mutex of the bucket map;    *)
(* checks may enter it in another order than they read the clock, so a     *)
(* check may run with a reading older than the bucket's last refill.       *)
(*                                                                         *)
(* Time is counted in ticks, Second of them per second, and tokens in      *)
(* fractions: Unit fractions are one token and Gain of them come back per  *)
(* tick, so that qps = Gain * Second / Unit.  The rounding of f64 is left  *)
(* out.                                                                    *)
(***************************************************************************)
EXTENDS Naturals, FiniteSets, Functions

CONSTANTS
    Agents,        \* canonical tenant/agent keys
    Requests,      \* checks, one per request
    Burst,         \* burst: capacity of a bucket, in tokens
    Unit, Gain,    \* fractions per token, and regained per tick
    Second,        \* ticks in a second
    MaxBuckets,    \* MAX_BUCKETS
    IdlePrune      \* IDLE_PRUNE_AFTER, in ticks

(* from_config: no limiter unless qps and burst are positive.              *)
ASSUME RateLimitAssumption ==
    /\ Burst \in Nat \ {0} /\ Unit \in Nat \ {0}
    /\ Gain \in Nat \ {0} /\ Second \in Nat \ {0}
    /\ MaxBuckets \in Nat /\ IdlePrune \in Nat \ {0}

VARIABLES
    now,           \* the monotonic clock
    buckets,       \* the map: agents that have a bucket, and their buckets
    checks         \* every request's check

vars == <<now, buckets, checks>>

Full == Burst * Unit

Bucket == [tokens : Nat, last_refill : Nat, last_touch : Nat]

(* A check reads the clock at `read`, is decided at `decided`; a denied    *)
(* one is told to wait retry_after_secs.                                   *)
Check == [agent : Agents, step : {"idle", "waiting", "allowed", "denied"},
          read : Nat, decided : Nat, retry_after_secs : Nat]

TypeOK ==
    /\ now \in Nat
    /\ DOMAIN buckets \subseteq Agents
    /\ buckets \in [DOMAIN buckets -> Bucket]
    /\ checks \in [Requests -> Check]

Init ==
    /\ now = 0
    /\ buckets = [a \in {} |-> 0]
    /\ \E agent \in [Requests -> Agents] :
           checks = [r \in Requests |->
               [agent |-> agent[r], step |-> "idle", read |-> 0, decided |-> 0,
                retry_after_secs |-> 0]]

------------------------------------------------------------------------------
NewBucket(t) == [tokens |-> Full, last_refill |-> t, last_touch |-> t]

(* Variant: the last refill follows the clock reading of the check even    *)
(* when that lies before it.                                               *)
RefillToReading(b, t) ==
    LET gained == IF t > b.last_refill THEN (t - b.last_refill) * Gain ELSE 0 IN
    [b EXCEPT !.tokens = IF @ + gained > Full THEN Full ELSE @ + gained,
              !.last_refill = t]

(* refill: nothing for a reading that is not later than the last refill.   *)
Refill(b, t) ==
    IF t <= b.last_refill THEN b
    ELSE LET gained == (t - b.last_refill) * Gain IN
         [b EXCEPT !.tokens = IF @ + gained > Full THEN Full ELSE @ + gained,
                   !.last_refill = t]

(* Variant: whole seconds are cut off instead of rounded up.               *)
RetryAfterFloor(b) ==
    LET seconds == (Unit - b.tokens) \div (Gain * Second) IN
    IF seconds < 1 THEN 1 ELSE seconds

(* The deficit over the rate, rounded up to whole seconds, at least one.   *)
RetryAfter(b) ==
    LET seconds == (Unit - b.tokens + Gain * Second - 1) \div (Gain * Second) IN
    IF seconds < 1 THEN 1 ELSE seconds

(* Variant: idle buckets go, whatever their level.                         *)
PruneIdle(t) ==
    IF Cardinality(DOMAIN buckets) < MaxBuckets THEN buckets
    ELSE Restrict(buckets, {a \in DOMAIN buckets : t < buckets[a].last_touch + IdlePrune})

(* maybe_prune: at the cap, buckets go that are idle and whose stored      *)
(* level, the one of their last touch, is the full one.                    *)
Prune(t) ==
    IF Cardinality(DOMAIN buckets) < MaxBuckets THEN buckets
    ELSE Restrict(buckets,
             {a \in DOMAIN buckets : ~ (/\ buckets[a].tokens >= Full
                                        /\ t >= buckets[a].last_touch + IdlePrune)})

------------------------------------------------------------------------------
(* check: the clock is read outside the lock ...                           *)
ReadClock(r) ==
    /\ checks[r].step = "idle"
    /\ checks' = [checks EXCEPT ![r].step = "waiting", ![r].read = now]
    /\ UNCHANGED <<now, buckets>>

(* ... and the map is pruned, refilled and charged under it.               *)
TryConsume(r) ==
    LET a == checks[r].agent
        t == checks[r].read
        kept == Prune(t)
        found == IF a \in DOMAIN kept THEN kept[a] ELSE NewBucket(t)
        b == [Refill(found, t) EXCEPT !.last_touch = t] IN
    /\ checks[r].step = "waiting"
    /\ \/ /\ b.tokens >= Unit
          /\ buckets' = [x \in DOMAIN kept \cup {a} |->
                 IF x = a THEN [b EXCEPT !.tokens = @ - Unit] ELSE kept[x]]
          /\ checks' = [checks EXCEPT ![r].step = "allowed", ![r].decided = now]
       \/ /\ b.tokens < Unit
          /\ buckets' = [x \in DOMAIN kept \cup {a} |-> IF x = a THEN b ELSE kept[x]]
          /\ checks' = [checks EXCEPT ![r].step = "denied", ![r].decided = now,
                                      ![r].retry_after_secs = RetryAfter(b)]
    /\ UNCHANGED now

Tick ==
    /\ now' = now + 1
    /\ UNCHANGED <<buckets, checks>>

Next ==
    \/ \E r \in Requests : ReadClock(r) \/ TryConsume(r)
    \/ Tick

Spec == Init /\ [][Next]_vars

------------------------------------------------------------------------------
(* rate_limit.rs:67-94: whatever the order in which checks enter the lock, *)
(* the requests of one agent that were asked and allowed inside an         *)
(* interval number at most the burst plus what the interval refills.       *)
BurstPlusRate ==
    \A a \in Agents : \A s \in 0 .. now : \A t \in s .. now :
        LET inside == {r \in Requests : /\ checks[r].agent = a
                                        /\ checks[r].step = "allowed"
                                        /\ checks[r].read >= s
                                        /\ checks[r].decided <= t} IN
        Cardinality(inside) * Unit <= Full + (t - s) * Gain

(* rate_limit.rs:85-92, README.md:354: whoever waits the retry_after_secs  *)
(* of a 429 is denied again only if another request of the agent was       *)
(* allowed since.                                                          *)
WaitingSuffices ==
    \A d, r \in Requests :
        /\ checks[d].step = "denied" /\ checks[r].step = "denied"
        /\ checks[d].agent = checks[r].agent
        /\ checks[r].read >= checks[d].decided + checks[d].retry_after_secs * Second
        => \E o \in Requests : /\ checks[o].agent = checks[d].agent
                               /\ checks[o].step = "allowed"
                               /\ checks[o].decided >= checks[d].decided

(* rate_limit.rs:132-141: pruning gives no agent a fresh burst.  A stored  *)
(* level is the one a check left behind, which is never the full one, so   *)
(* no bucket ever leaves the map, however long its agent is idle.          *)
BucketsStay == [][DOMAIN buckets \subseteq DOMAIN buckets']_vars

===============================================================================

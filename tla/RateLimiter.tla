----------------------------- MODULE RateLimiter -----------------------------
(***************************************************************************)
(* middleware/ratelimit.go: a map from addresses to token buckets in front *)
(* of every HTTP request, replaced by an empty map every five minutes.     *)
(* getLimiter and cleanupVisitors hold the mutex of the map; the bucket a  *)
(* request was given is asked after that, when the map may be another.     *)
(* The buckets are those of golang.org/x/time/rate, whose Allow reads the  *)
(* clock before it locks the bucket: a request that is late at the bucket  *)
(* comes with an older time than the bucket has seen.                      *)
(***************************************************************************)
EXTENDS Integers, Sequences, FiniteSets

CONSTANTS
    Requests,       \* the HTTP requests, each a goroutine (a bound)
    Addresses,      \* the client addresses
    Burst,          \* b: 30 in main.go
    Rate,           \* r, in tokens a tick: 20 a second
    CleanupEvery,   \* the sleep of cleanupVisitors, in ticks: 5 minutes
    MaxTime,        \* the ticks of the clock (a bound)
    None            \* no limiter in the map, no address

ASSUME RequestsAssumption == IsFiniteSet(Requests)
ASSUME BurstAssumption == Burst \in Nat
ASSUME RateAssumption == Rate \in Nat
ASSUME CleanupAssumption == CleanupEvery \in Nat \ {0}
ASSUME MaxTimeAssumption == MaxTime \in Nat
ASSUME NoAddressAssumption == None \notin Addresses /\ None \notin Int

VARIABLES
    now,       \* the clock
    sleep,     \* what is left of the sleep of cleanupVisitors
    ips,       \* the map: the number of the limiter of an address
    buckets,   \* every limiter ever made
    from,      \* the address of a request
    limiter,   \* the limiter it was given, 0 for none
    passage,   \* where it is in Limit
    clock,     \* the time it has read
    at         \* when it was let through

limiterVars == <<now, sleep, ips, buckets, from, limiter, passage, clock, at>>

Bucket == [tokens : Nat, last : Nat]
Passages == {"new", "asking", "timed", "passed", "429"}

LimiterTypeOK ==
    /\ now \in Nat
    /\ sleep \in 0..CleanupEvery
    /\ buckets \in Seq(Bucket)
    /\ ips \in [Addresses -> 1..Len(buckets) \cup {None}]
    /\ from \in [Requests -> Addresses \cup {None}]
    /\ limiter \in [Requests -> 0..Len(buckets)]
    /\ passage \in [Requests -> Passages]
    /\ clock \in [Requests -> 0..now]
    /\ at \in [Requests -> 0..now]

LimiterInit ==
    /\ now = 0
    /\ sleep = CleanupEvery
    /\ ips = [a \in Addresses |-> None]
    /\ buckets = << >>
    /\ from = [r \in Requests |-> None]
    /\ limiter = [r \in Requests |-> 0]
    /\ passage = [r \in Requests |-> "new"]
    /\ clock = [r \in Requests |-> 0]
    /\ at = [r \in Requests |-> 0]

\* Mutant of Stored: the new limiter is not put into the map.
StoredNowhere(a, k) == [ips EXCEPT ![a] = None]

Stored(a, k) == [ips EXCEPT ![a] = k]

\* getLimiter: the limiter of the address, a new one if there is none, which is
\* full and has the zero time.
GetLimiter(r, a) ==
    /\ passage[r] = "new"
    /\ passage' = [passage EXCEPT ![r] = "asking"]
    /\ from' = [from EXCEPT ![r] = a]
    /\ \/ /\ ips[a] # None
          /\ limiter' = [limiter EXCEPT ![r] = ips[a]]
          /\ UNCHANGED <<ips, buckets>>
       \/ /\ ips[a] = None
          /\ buckets' = Append(buckets, [tokens |-> Burst, last |-> 0])
          /\ ips' = Stored(a, Len(buckets) + 1)
          /\ limiter' = [limiter EXCEPT ![r] = Len(buckets) + 1]
    /\ UNCHANGED <<now, sleep, clock, at>>

LetThrough(r) ==
    /\ passage' = [passage EXCEPT ![r] = "passed"]
    /\ at' = [at EXCEPT ![r] = now]

\* An address that SplitHostPort does not understand is not limited.
Bypass(r) ==
    /\ passage[r] = "new"
    /\ LetThrough(r)
    /\ UNCHANGED <<now, sleep, ips, buckets, from, limiter, clock>>

\* limiter.Allow, up to time.Now().
ReadClock(r) ==
    /\ passage[r] = "asking"
    /\ passage' = [passage EXCEPT ![r] = "timed"]
    /\ clock' = [clock EXCEPT ![r] = now]
    /\ UNCHANGED <<now, sleep, ips, buckets, from, limiter, at>>

\* The time since a bucket's own; none to a caller whose clock is older.
Idle(k, t) == IF t < buckets[k].last THEN 0 ELSE t - buckets[k].last

\* Mutant of Available: the credit of an idle time is not capped.
AvailableUncapped(k, t) == buckets[k].tokens + Rate * Idle(k, t)

\* advance: the tokens of a bucket by the time t.
Available(k, t) ==
    LET tokens == buckets[k].tokens + Rate * Idle(k, t)
    IN  IF tokens > Burst THEN Burst ELSE tokens

\* Mutant of Enough: the last token is given twice.
EnoughAtZero(k, t) == Available(k, t) >= 0

Enough(k, t) == Available(k, t) >= 1

\* limiter.Allow, from the lock of the bucket on: whoever gets a token sets the
\* bucket's time to its own clock, back perhaps; a refusal leaves it as it is.
Allow(r) ==
    LET k == limiter[r]
        t == clock[r]
    IN
    /\ passage[r] = "timed"
    /\ \/ /\ Enough(k, t)
          /\ buckets' = [buckets EXCEPT ![k] = [tokens |-> Available(k, t) - 1, last |-> t]]
          /\ LetThrough(r)
       \/ /\ ~Enough(k, t)
          /\ passage' = [passage EXCEPT ![r] = "429"]
          /\ UNCHANGED <<buckets, at>>
    /\ UNCHANGED <<now, sleep, ips, from, limiter, clock>>

\* cleanupVisitors wakes up, late perhaps.
Cleanup ==
    /\ sleep = 0
    /\ sleep' = CleanupEvery
    /\ ips' = [a \in Addresses |-> None]
    /\ UNCHANGED <<now, buckets, from, limiter, passage, clock, at>>

LimiterTick ==
    /\ now < MaxTime
    /\ now' = now + 1
    /\ sleep' = IF sleep = 0 THEN 0 ELSE sleep - 1
    /\ UNCHANGED <<ips, buckets, from, limiter, passage, clock, at>>

LimiterNext ==
    \/ LimiterTick
    \/ Cleanup
    \/ \E r \in Requests :
        \/ Bypass(r) \/ ReadClock(r) \/ Allow(r)
        \/ \E a \in Addresses : GetLimiter(r, a)

LimiterSpec == LimiterInit /\ [][LimiterNext]_limiterVars
-----------------------------------------------------------------------------
(* Properties.                                                             *)

\* The requests that the limiter number k has let through since time t.
Through(k, t) == {r \in Requests : passage[r] = "passed" /\ limiter[r] = k /\ at[r] >= t}

\* The time that these requests have spent between the clock and the bucket, a
\* pair for every tick of each.
Delays(k, t) == UNION {{r} \X ((clock[r] + 1)..at[r]) : r \in Through(k, t)}

\* In no stretch of time up to now does a bucket let more requests through than
\* its burst and what flows in during that time and, once more, during the delays
\* of its late requests: a late one can set the time of the bucket back by its
\* own delay and no further, however they overlap, those included that come back
\* to a limiter which the map has forgotten (ratelimit.go:71-74).
BucketBound ==
    \A k \in 1..Len(buckets), t \in 0..now :
        Cardinality(Through(k, t)) <= Burst + Rate * (now - t + Cardinality(Delays(k, t)))

LimitersOf(a) == {limiter[r] : r \in {s \in Requests : from[s] = a}}

\* Only a reset gives an address another bucket, and two resets are five
\* minutes apart, however many first requests of an address arrive at once
\* (the mutex of getLimiter, ratelimit.go:37).
OneBucketPerPeriod ==
    \A a \in Addresses : CleanupEvery * (Cardinality(LimitersOf(a)) - 1) <= now
-----------------------------------------------------------------------------
(* The inductive invariant behind the theorems of RateLimiterProofs.       *)

\* What a bucket has given since t and what it still holds came from its burst or
\* flowed in since, during the delays twice.
BucketsBalance ==
    /\ \A k \in 1..Len(buckets) : buckets[k].last <= now /\ buckets[k].tokens <= Burst
    /\ \A k \in 1..Len(buckets), t \in 0..now :
        Cardinality(Through(k, t)) + Available(k, now)
            <= Burst + Rate * (now - t + Cardinality(Delays(k, t)))

\* An address has a limiter for each reset and the one in the map, which some
\* request of its own was given.
LimitersAreCounted ==
    \A a \in Addresses :
        /\ ips[a] = None => CleanupEvery * Cardinality(LimitersOf(a)) <= now + sleep - CleanupEvery
        /\ ips[a] # None =>
            /\ CleanupEvery * (Cardinality(LimitersOf(a)) - 1) <= now + sleep - CleanupEvery
            /\ ips[a] \in LimitersOf(a)

\* A request has a limiter once it has asked for one, and an address with it.
RequestsAreInOrder ==
    \A r \in Requests :
        /\ passage[r] = "new" => limiter[r] = 0 /\ from[r] = None
        /\ passage[r] \in {"asking", "timed", "429"} => limiter[r] > 0
        /\ from[r] = None => limiter[r] = 0

LimiterInv ==
    /\ LimiterTypeOK
    /\ RequestsAreInOrder
    /\ BucketsBalance
    /\ LimitersAreCounted
=============================================================================

-------------------------- MODULE RateLimiterProofs --------------------------
(***************************************************************************)
(* Theorems of RateLimiter, for any burst, rate and period of the cleanup, *)
(* and any number of addresses and requests.                               *)
(***************************************************************************)
EXTENDS RateLimiter, FiniteSetTheorems, SequenceTheorems, TLAPS

-----------------------------------------------------------------------------
(* Arithmetic and counting.                                                *)

\* The credit of a stretch of time grows by Rate with every tick.
LEMMA CreditGrows ==
    ASSUME NEW d \in Nat
    PROVE  /\ Rate * d \in Nat
           /\ Rate * (d + 1) = Rate * d + Rate
           /\ Rate * 0 = 0
BY RateAssumption

\* Periods of the cleanup, counted.
LEMMA PeriodsAdd ==
    ASSUME NEW n \in Int
    PROVE  /\ CleanupEvery * n \in Int
           /\ CleanupEvery * (n - 1) = CleanupEvery * n - CleanupEvery
           /\ CleanupEvery * ((n + 1) - 1) = CleanupEvery * n
BY CleanupAssumption

LEMMA ThroughIsFinite ==
    ASSUME NEW k, NEW t
    PROVE  IsFiniteSet(Through(k, t)) /\ Cardinality(Through(k, t)) \in Nat
<1>1. Through(k, t) \subseteq Requests
  BY DEF Through
<1> QED
  BY <1>1, RequestsAssumption, FS_Subset, FS_CardinalityType

LEMMA LimitersAreFinite ==
    ASSUME LimiterTypeOK, NEW a
    PROVE  IsFiniteSet(LimitersOf(a)) /\ Cardinality(LimitersOf(a)) \in Nat
<1>1. LimitersOf(a) \subseteq 0..Len(buckets) /\ Len(buckets) \in Nat
  BY DEF LimitersOf, LimiterTypeOK
<1>2. IsFiniteSet(0..Len(buckets))
  BY <1>1, FS_Interval
<1> QED
  BY <1>1, <1>2, FS_Subset, FS_CardinalityType

\* Credit of two stretches of time.
LEMMA CreditAdds ==
    ASSUME NEW d \in Nat, NEW e \in Nat
    PROVE  /\ Rate * d \in Nat /\ Rate * e \in Nat
           /\ Rate * (d + e) = Rate * d + Rate * e
BY RateAssumption

\* The delays of a bucket can be counted.
LEMMA DelaysAreFinite ==
    ASSUME LimiterTypeOK, NEW k, NEW t
    PROVE  IsFiniteSet(Delays(k, t)) /\ Cardinality(Delays(k, t)) \in Nat
<1>1. Delays(k, t) \subseteq Requests \X (0..now)
  BY DEF Delays, Through, LimiterTypeOK
<1>2. IsFiniteSet(0..now)
  BY FS_Interval DEF LimiterTypeOK
<1>3. IsFiniteSet(Requests \X (0..now))
  BY <1>2, RequestsAssumption, FS_Product
<1> QED
  BY <1>1, <1>3, FS_Subset, FS_CardinalityType

\* The delay of one request is as many pairs as ticks.
LEMMA DelayOfOne ==
    ASSUME NEW r, NEW c \in Nat, NEW n \in Nat, c <= n
    PROVE  /\ IsFiniteSet({r} \X ((c + 1)..n))
           /\ Cardinality({r} \X ((c + 1)..n)) = n - c
<1> DEFINE ticks == (c + 1)..n
<1>1. c + 1 \in Int /\ n \in Int
  OBVIOUS
<1>2. IsFiniteSet(ticks) /\ Cardinality(ticks) = IF c + 1 > n THEN 0 ELSE n - (c + 1) + 1
  BY <1>1, FS_Interval
<1>3. Cardinality(ticks) = n - c
  BY <1>2
<1>4. IsFiniteSet({r}) /\ Cardinality({r}) = 1
  BY FS_Singleton
<1> HIDE DEF ticks
<1>5. IsFiniteSet({r} \X ticks) /\ Cardinality({r} \X ticks) = Cardinality({r}) * Cardinality(ticks)
  BY <1>2, <1>4, FS_Product, Zenon
<1>6. 1 * (n - c) = n - c
  OBVIOUS
<1> QED
  BY <1>3, <1>4, <1>5, <1>6 DEF ticks

\* What a bucket holds for a clock: no more than its burst, and no more than its
\* tokens and what flowed in since its own time.
LEMMA AvailableBound ==
    ASSUME LimiterTypeOK, NEW k \in 1..Len(buckets), NEW t \in Nat
    PROVE  /\ buckets[k] \in Bucket
           /\ Idle(k, t) \in Nat /\ Rate * Idle(k, t) \in Nat
           /\ Available(k, t) = IF buckets[k].tokens + Rate * Idle(k, t) > Burst
                                THEN Burst ELSE buckets[k].tokens + Rate * Idle(k, t)
           /\ Available(k, t) \in Nat
           /\ Available(k, t) <= Burst
<1>1. buckets[k] \in Bucket
  BY DEF LimiterTypeOK
<1>2. Idle(k, t) \in Nat /\ buckets[k].tokens \in Nat
  BY <1>1 DEF Bucket, Idle
<1> DEFINE credit == Rate * Idle(k, t)
<1>3. credit \in Nat
  BY <1>2, CreditGrows
<1>4. Available(k, t) = IF buckets[k].tokens + credit > Burst THEN Burst ELSE buckets[k].tokens + credit
  BY DEF Available
<1> HIDE DEF credit
<1>5. Available(k, t) \in Nat /\ Available(k, t) <= Burst
  BY <1>2, <1>3, <1>4, BurstAssumption
<1> QED
  BY <1>1, <1>2, <1>3, <1>4, <1>5 DEF credit
-----------------------------------------------------------------------------
(* The first state.                                                        *)

LEMMA LimiterInitially == LimiterInit => LimiterInv
<1> SUFFICES ASSUME LimiterInit PROVE LimiterInv
  OBVIOUS
<1> USE DEF LimiterInit
<1>1. LimiterTypeOK
  BY CleanupAssumption DEF LimiterTypeOK, Passages
<1>2. RequestsAreInOrder
  BY DEF RequestsAreInOrder
<1>3. BucketsBalance
  BY DEF BucketsBalance
<1>4. LimitersAreCounted
  <2> SUFFICES ASSUME NEW a \in Addresses
               PROVE  CleanupEvery * Cardinality(LimitersOf(a)) <= now + sleep - CleanupEvery
    BY DEF LimitersAreCounted
  <2>1. LimitersOf(a) = {}
    BY NoAddressAssumption DEF LimitersOf
  <2>2. Cardinality(LimitersOf(a)) = 0
    BY <2>1, FS_EmptySet
  <2> QED
    BY <2>2, CleanupAssumption
<1> QED
  BY <1>1, <1>2, <1>3, <1>4 DEF LimiterInv
-----------------------------------------------------------------------------
(* The balance of the buckets.                                             *)

\* Steps that neither let a request of a bucket through nor touch a bucket.
LEMMA BalanceIsKept ==
    ASSUME LimiterInv, buckets' = buckets, now' = now,
           \A k \in 1..Len(buckets), t \in 0..now :
              Through(k, t)' = Through(k, t) /\ Delays(k, t)' = Delays(k, t)
    PROVE  BucketsBalance'
BY DEF LimiterInv, BucketsBalance, Available, Idle

LEMMA TickBalance ==
    ASSUME LimiterInv, LimiterTick
    PROVE  BucketsBalance'
<1> USE DEF LimiterInv
<1>1. /\ now \in Nat /\ now' = now + 1 /\ buckets' = buckets /\ Burst \in Nat /\ Rate \in Nat
      /\ \A r \in Requests : at[r] \in 0..now
      /\ limiter' = limiter /\ passage' = passage /\ at' = at /\ clock' = clock
  BY BurstAssumption, RateAssumption DEF LimiterTick, LimiterTypeOK
<1>2. \A k, t : Through(k, t)' = Through(k, t) /\ Delays(k, t)' = Delays(k, t)
  BY <1>1 DEF Through, Delays
<1>3. \A k \in 1..Len(buckets) :
        buckets[k].last <= now /\ buckets[k].tokens <= Burst /\ buckets[k] \in Bucket
  BY DEF BucketsBalance, LimiterTypeOK
<1>4. ASSUME NEW k \in 1..Len(buckets)
      PROVE  /\ Available(k, now)' \in Int
             /\ Available(k, now)' <= Burst
             /\ Available(k, now)' <= Available(k, now) + Rate
             /\ Available(k, now) \in Int
  <2> DEFINE d == now - buckets[k].last
             credit == Rate * d
             more == Rate * (d + 1)
             tokens == buckets[k].tokens
  <2>1. d \in Nat /\ tokens \in Int /\ d + 1 = now' - buckets[k].last
    BY <1>1, <1>3 DEF Bucket
  <2>2. credit \in Nat /\ more = credit + Rate
    BY <2>1, CreditGrows
  <2>3. Idle(k, now) = d /\ Idle(k, now)' = d + 1
    BY <1>1, <1>3 DEF Idle, Bucket
  <2>4. Available(k, now) = IF tokens + credit > Burst THEN Burst ELSE tokens + credit
    BY <2>3 DEF Available
  <2>5. Available(k, now)' = IF tokens + more > Burst THEN Burst ELSE tokens + more
    BY <1>1, <2>3 DEF Available
  <2>6. Burst \in Nat /\ Rate \in Nat
    BY <1>1
  <2> HIDE DEF d, credit, more, tokens
  <2> QED
    BY <2>1, <2>2, <2>4, <2>5, <2>6
<1>5. ASSUME NEW k \in 1..Len(buckets), NEW t \in 0..(now + 1)
      PROVE  Cardinality(Through(k, t)') + Available(k, now)'
                <= Burst + Rate * (now' - t + Cardinality(Delays(k, t)'))
  <2> DEFINE n == Cardinality(Through(k, t))
             delay == Cardinality(Delays(k, t))
             flow == Rate * (now - t + delay)
             available == Available(k, now)'
  <2>1. n \in Nat /\ delay \in Nat
    BY ThroughIsFinite, DelaysAreFinite
  <2>2. Cardinality(Through(k, t)') = n /\ Cardinality(Delays(k, t)') = delay
    BY <1>2
  <2>3. CASE t = now + 1
    <3>1. Through(k, t) = {}
      BY <1>1, <2>3 DEF Through
    <3>2. n = 0
      BY <3>1, FS_EmptySet
    <3>3. now' - t + delay = delay /\ Rate * delay \in Nat
      BY <1>1, <2>1, <2>3, CreditGrows
    <3> DEFINE more == Rate * (now' - t + delay)
    <3>4. n = 0 /\ more \in Nat /\ available \in Int /\ available <= Burst /\ Burst \in Int
      BY <3>2, <3>3, <1>1, <1>4
    <3> HIDE DEF n, more, available
    <3>5. n + available <= Burst + more
      BY <3>4
    <3> QED
      BY <2>2, <3>5 DEF n, more, available
  <2>4. CASE t \in 0..now
    <3>1. Available(k, now) \in Int /\ available \in Int /\ available <= Available(k, now) + Rate
      BY <1>4
    <3>2. n + Available(k, now) <= Burst + flow
      BY <2>4 DEF BucketsBalance
    <3>3. now - t + delay \in Nat /\ now' - t + delay = (now - t + delay) + 1
      BY <1>1, <2>1, <2>4
    <3>4. flow \in Nat /\ Rate * (now' - t + delay) = flow + Rate
      BY <3>3, CreditGrows
    <3> DEFINE more == Rate * (now' - t + delay)
    <3>5. more = flow + Rate /\ Burst \in Nat /\ Rate \in Nat
      BY <3>4, <1>1
    <3> HIDE DEF n, flow, more, available
    <3>6. n + available <= Burst + more
      BY <2>1, <3>1, <3>2, <3>4, <3>5
    <3> QED
      BY <2>2, <3>6 DEF n, more, available
  <2> QED
    BY <2>3, <2>4, <1>1
<1>6. \A k \in 1..Len(buckets') : buckets'[k].last <= now' /\ buckets'[k].tokens <= Burst
  BY <1>1, <1>3 DEF Bucket
<1>7. \A k \in 1..Len(buckets'), t \in 0..now' :
        Cardinality(Through(k, t)') + Available(k, now)'
            <= Burst + Rate * (now' - t + Cardinality(Delays(k, t)'))
  BY <1>1, <1>5
<1> QED
  BY <1>6, <1>7 DEF BucketsBalance

LEMMA GetLimiterBalance ==
    ASSUME LimiterInv, NEW r \in Requests, NEW a \in Addresses, GetLimiter(r, a)
    PROVE  BucketsBalance'
<1> USE DEF LimiterInv
<1>1. /\ now' = now /\ now \in Nat /\ at' = at /\ clock' = clock
      /\ passage[r] = "new" /\ passage'[r] = "asking"
      /\ \A s \in Requests : s # r => passage'[s] = passage[s] /\ limiter'[s] = limiter[s]
  BY DEF GetLimiter, LimiterTypeOK
<1>2. ASSUME NEW k, NEW t PROVE Through(k, t)' = Through(k, t)
  BY <1>1 DEF Through
<1>3. ASSUME NEW k, NEW t PROVE Delays(k, t)' = Delays(k, t)
  BY <1>1, <1>2 DEF Delays
<1>4. CASE buckets' = buckets
  BY <1>1, <1>2, <1>3, <1>4, BalanceIsKept
<1>5. CASE buckets' = Append(buckets, [tokens |-> Burst, last |-> 0])
  <2>1. /\ Len(buckets) \in Nat /\ Len(buckets') = Len(buckets) + 1
        /\ \A k \in 1..Len(buckets) : buckets'[k] = buckets[k]
        /\ buckets'[Len(buckets) + 1] = [tokens |-> Burst, last |-> 0]
    BY <1>5 DEF LimiterTypeOK
  <2> PICK new : new = Len(buckets) + 1
    OBVIOUS
  <2>2. \A t : Cardinality(Through(new, t)') = 0
    <3>1. \A s \in Requests : limiter[s] # new
      BY <2>1 DEF LimiterTypeOK
    <3>2. \A t : Through(new, t)' = {}
      BY <3>1, <1>2 DEF Through
    <3> QED
      BY <3>2, FS_EmptySet
  <2>3. Available(new, now)' = Burst
    <3> DEFINE credit == Rate * now
    <3>1. credit \in Nat /\ Burst \in Nat
      BY <1>1, CreditGrows, BurstAssumption
    <3>2. Idle(new, now)' = now
      BY <1>1, <2>1 DEF Idle
    <3>3. Available(new, now)' = IF Burst + credit > Burst THEN Burst ELSE Burst + credit
      BY <2>1, <3>2 DEF Available
    <3> HIDE DEF credit
    <3> QED
      BY <3>1, <3>3
  <2>4. \A k \in 1..Len(buckets) : Available(k, now)' = Available(k, now)
    BY <1>1, <2>1 DEF Available, Idle
  <2>5. ASSUME NEW k, NEW t \in 0..now
        PROVE  Burst <= Burst + Rate * (now - t + Cardinality(Delays(k, t)))
    <3> DEFINE d == now - t + Cardinality(Delays(k, t))
               flow == Rate * d
    <3>1. d \in Nat
      BY <1>1, DelaysAreFinite
    <3>2. flow \in Nat /\ Burst \in Nat
      BY <3>1, CreditGrows, BurstAssumption
    <3> HIDE DEF flow, d
    <3>3. Burst <= Burst + flow
      BY <3>2
    <3> QED
      BY <3>3 DEF flow, d
  <2>6. ASSUME NEW k \in 1..Len(buckets'), NEW t \in 0..now
        PROVE  /\ buckets'[k].last <= now /\ buckets'[k].tokens <= Burst
               /\ Cardinality(Through(k, t)') + Available(k, now)'
                    <= Burst + Rate * (now - t + Cardinality(Delays(k, t)'))
    <3>1. CASE k = new
      <4>1. buckets'[k].last <= now /\ buckets'[k].tokens <= Burst
        BY <3>1, <1>1, <2>1, BurstAssumption
      <4>2. Cardinality(Through(k, t)') + Available(k, now)' = Burst
        BY <3>1, <2>2, <2>3, BurstAssumption
      <4> QED
        BY <4>1, <4>2, <2>5, <1>3
    <3>2. CASE k \in 1..Len(buckets)
      BY <3>2, <1>2, <1>3, <2>1, <2>4 DEF BucketsBalance
    <3> QED
      BY <3>1, <3>2, <2>1
  <2>7. 0 \in 0..now
    BY <1>1
  <2> QED
    BY <1>1, <2>6, <2>7 DEF BucketsBalance
<1> QED
  BY <1>4, <1>5 DEF GetLimiter

\* A bucket after it has given a token to a clock that may be old: it holds one
\* less than before, but for what flows in during the delay.
LEMMA OneTokenLess ==
    ASSUME LimiterInv, NEW k \in 1..Len(buckets), NEW c \in 0..now,
           buckets'[k] = [tokens |-> Available(k, c) - 1, last |-> c], now' = now,
           Available(k, c) >= 1
    PROVE  /\ Available(k, now)' \in Int /\ Available(k, now) \in Int
           /\ Available(k, now)' <= Available(k, now) - 1 + Rate * (now - c)
<1> USE DEF LimiterInv
<1> DEFINE tokens == buckets[k].tokens
           last == buckets[k].last
           held == Available(k, c)
           before == Available(k, now)
           after == Available(k, now)'
           credit == Rate * (now - last)
           given == Rate * Idle(k, c)
           delay == Rate * (now - c)
<1>1. /\ now \in Nat /\ c \in Nat /\ c <= now /\ Burst \in Nat
      /\ tokens \in Nat /\ last \in Nat /\ last <= now /\ tokens <= Burst
  <2>1. now \in Nat /\ buckets[k] \in Bucket
    BY DEF LimiterTypeOK
  <2>2. last <= now /\ tokens <= Burst
    BY DEF BucketsBalance
  <2> QED
    BY <2>1, <2>2, BurstAssumption DEF Bucket
<1>2. /\ held \in Nat /\ held <= Burst /\ given \in Nat
      /\ held = IF tokens + given > Burst THEN Burst ELSE tokens + given
  BY <1>1, AvailableBound
<1>3. before = IF tokens + credit > Burst THEN Burst ELSE tokens + credit
  <2>1. Idle(k, now) = now - last
    BY <1>1 DEF Idle
  <2> QED
    BY <2>1 DEF Available
<1>4. after = IF held - 1 + delay > Burst THEN Burst ELSE held - 1 + delay
  <2>1. buckets'[k].tokens = held - 1 /\ buckets'[k].last = c /\ now' = now
    OBVIOUS
  <2>2. Idle(k, now)' = now - c
    BY <1>1, <2>1 DEF Idle
  <2> QED
    BY <2>1, <2>2 DEF Available
<1>5. credit \in Nat /\ delay \in Nat
  <2>1. now - last \in Nat /\ now - c \in Nat
    BY <1>1
  <2> QED
    BY <2>1, CreditGrows
<1>6. given = 0 \/ given + delay = credit
  <2>1. CASE c < last
    BY <2>1, CreditGrows DEF Idle
  <2>2. CASE ~(c < last)
    <3>1. c - last \in Nat /\ now - c \in Nat /\ (c - last) + (now - c) = now - last
      BY <1>1, <2>2
    <3>2. Idle(k, c) = c - last
      BY <2>2 DEF Idle
    <3> QED
      BY <3>1, <3>2, CreditAdds
  <2> QED
    BY <2>1, <2>2
<1>7. held >= 1
  OBVIOUS
<1> HIDE DEF tokens, last, held, before, after, credit, given, delay
<1>8. after \in Int /\ before \in Int
  BY <1>1, <1>2, <1>3, <1>4, <1>5
<1>9. after <= held - 1 + delay
  BY <1>1, <1>2, <1>4, <1>5
<1>10. ASSUME tokens + credit > Burst
       PROVE  after <= before - 1 + delay
  BY <1>10, <1>1, <1>2, <1>3, <1>5, <1>8, <1>9
<1>11. ASSUME ~(tokens + credit > Burst)
       PROVE  after <= before - 1 + delay
  <2>1. held <= tokens + given
    BY <1>1, <1>2
  <2>2. before = tokens + credit
    BY <1>11, <1>3
  <2>3. given <= credit
    BY <1>2, <1>5, <1>6
  <2> QED
    BY <2>1, <2>2, <2>3, <1>1, <1>2, <1>5, <1>8, <1>9
<1>12. after <= before - 1 + delay
  BY <1>10, <1>11
<1> QED
  BY <1>8, <1>12 DEF after, before, delay

LEMMA AllowBalance ==
    ASSUME LimiterInv, NEW r \in Requests, Allow(r)
    PROVE  BucketsBalance'
<1> USE DEF LimiterInv
<1> DEFINE k == limiter[r]
           c == clock[r]
<1>1. /\ now' = now /\ now \in Nat /\ limiter' = limiter /\ clock' = clock
      /\ k \in 1..Len(buckets) /\ c \in 0..now /\ passage[r] = "timed"
      /\ \A s \in Requests : s # r => passage'[s] = passage[s] /\ at'[s] = at[s]
  BY DEF Allow, LetThrough, LimiterTypeOK, RequestsAreInOrder
<1>2. CASE buckets' = buckets /\ passage'[r] = "429"
  <2>1. \A j, t : Through(j, t)' = Through(j, t)
    BY <1>1, <1>2 DEF Through
  <2>2. ASSUME NEW j, NEW t PROVE \A s \in Through(j, t) : at'[s] = at[s]
    BY <1>1 DEF Through
  <2>3. ASSUME NEW j, NEW t PROVE Delays(j, t)' = Delays(j, t)
    BY <1>1, <2>1, <2>2 DEF Delays
  <2> QED
    BY <1>1, <1>2, <2>1, <2>3, BalanceIsKept
<1>3. CASE /\ Enough(k, c)
           /\ buckets' = [buckets EXCEPT ![k] = [tokens |-> Available(k, c) - 1, last |-> c]]
           /\ passage'[r] = "passed" /\ at'[r] = now
  <2>1. Available(k, c) >= 1 /\ Available(k, c) \in Nat /\ Available(k, c) <= Burst
    <3>1. LimiterTypeOK /\ k \in 1..Len(buckets) /\ c \in Nat
      BY <1>1
    <3>2. Available(k, c) >= 1
      BY <1>3 DEF Enough
    <3> HIDE DEF k, c
    <3>3. Available(k, c) \in Nat /\ Available(k, c) <= Burst
      BY <3>1, AvailableBound
    <3> QED
      BY <3>2, <3>3
  <2>2. /\ Len(buckets') = Len(buckets)
        /\ buckets'[k] = [tokens |-> Available(k, c) - 1, last |-> c]
        /\ \A j \in 1..Len(buckets) : j # k => buckets'[j] = buckets[j]
    BY <1>1, <1>3 DEF LimiterTypeOK
  <2>3. ASSUME NEW j \in 1..Len(buckets)
        PROVE  buckets'[j].last <= now /\ buckets'[j].tokens <= Burst
    <3>1. CASE j = k
      BY <3>1, <1>1, <2>1, <2>2, BurstAssumption
    <3>2. CASE j # k
      BY <3>2, <2>2 DEF BucketsBalance
    <3> QED
      BY <3>1, <3>2
  <2>4. ASSUME NEW t \in 0..now
        PROVE  Cardinality(Through(k, t)') + Available(k, now)'
                    <= Burst + Rate * (now - t + Cardinality(Delays(k, t)'))
    <3> DEFINE own == {r} \X ((c + 1)..now)
               n == Cardinality(Through(k, t))
               d == now - t + Cardinality(Delays(k, t))
               flow == Rate * d
               delay == Rate * (now - c)
               before == Available(k, now)
               after == Available(k, now)'
    <3>1. Through(k, t)' = Through(k, t) \cup {r} /\ r \notin Through(k, t)
      BY <1>1, <1>3 DEF Through
    <3>2. Cardinality(Through(k, t)') = n + 1 /\ n \in Nat
      BY <3>1, ThroughIsFinite, FS_AddElement
    <3>3. Delays(k, t)' = Delays(k, t) \cup own
      <4>1. \A s \in Through(k, t) : at'[s] = at[s]
        BY <1>1 DEF Through
      <4>2. Delays(k, t)' = UNION {{s} \X ((clock[s] + 1)..at'[s]) : s \in Through(k, t) \cup {r}}
        BY <1>1, <3>1 DEF Delays
      <4> QED
        BY <4>1, <4>2, <1>3 DEF Delays
    <3>4. Delays(k, t) \cap own = {}
      BY <3>1 DEF Delays
    <3>5. IsFiniteSet(own) /\ Cardinality(own) = now - c
      <4>1. c \in Nat /\ c <= now
        BY <1>1
      <4> QED
        BY <4>1, <1>1, DelayOfOne
    <3>6. Cardinality(Delays(k, t)') = Cardinality(Delays(k, t)) + (now - c)
      <4>1. IsFiniteSet(Delays(k, t)) /\ Cardinality(Delays(k, t)) \in Nat
        BY DelaysAreFinite
      <4>2. Cardinality(Delays(k, t) \cap own) = 0
        BY <3>4, FS_EmptySet
      <4>3. Cardinality(Delays(k, t) \cup own) = Cardinality(Delays(k, t)) + Cardinality(own) - 0
        BY <4>1, <4>2, <3>5, FS_Union
      <4> QED
        BY <4>1, <4>3, <3>3, <3>5, <1>1
    <3>7. d \in Nat /\ now - c \in Nat /\ now - t + Cardinality(Delays(k, t)') = d + (now - c)
      BY <1>1, <3>6, DelaysAreFinite
    <3>8. flow \in Nat /\ delay \in Nat /\ Rate * (d + (now - c)) = flow + delay
      BY <3>7, CreditAdds
    <3>9. after \in Int /\ before \in Int /\ after <= before - 1 + delay
      BY <1>1, <2>1, <2>2, OneTokenLess
    <3>10. n + before <= Burst + flow
      BY <1>1 DEF BucketsBalance
    <3>11. Cardinality(Through(k, t)') + after <= Burst + (flow + delay)
      <4> HIDE DEF n, flow, delay, before, after, d
      <4> QED
        BY <3>2, <3>8, <3>9, <3>10, BurstAssumption
    <3> QED
      BY <3>7, <3>8, <3>11
  <2>5. ASSUME NEW j \in 1..Len(buckets), j # k, NEW t \in 0..now
        PROVE  Cardinality(Through(j, t)') + Available(j, now)'
                    <= Burst + Rate * (now - t + Cardinality(Delays(j, t)'))
    <3>1. Through(j, t)' = Through(j, t)
      BY <1>1, <2>5 DEF Through
    <3>2. \A s \in Through(j, t) : at'[s] = at[s]
      BY <1>1, <2>5 DEF Through
    <3>3. Delays(j, t)' = Delays(j, t)
      BY <1>1, <3>1, <3>2 DEF Delays
    <3>4. Available(j, now)' = Available(j, now)
      BY <1>1, <2>2, <2>5 DEF Available, Idle
    <3> QED
      BY <3>1, <3>3, <3>4 DEF BucketsBalance
  <2> QED
    BY <1>1, <2>2, <2>3, <2>4, <2>5 DEF BucketsBalance
<1>4. passage' = [passage EXCEPT ![r] = "passed"] => passage'[r] = "passed"
  BY DEF LimiterTypeOK
<1>5. passage' = [passage EXCEPT ![r] = "429"] => passage'[r] = "429"
  BY DEF LimiterTypeOK
<1>6. at' = [at EXCEPT ![r] = now] => at'[r] = now
  BY DEF LimiterTypeOK
<1> QED
  BY <1>2, <1>3, <1>4, <1>5, <1>6 DEF Allow, LetThrough
-----------------------------------------------------------------------------
(* The count of the limiters.                                              *)

LEMMA StillAtMost ==
    ASSUME NEW x \in Int, NEW e \in Int,
           NEW i \in Int, NEW j \in Int, NEW k \in Int, NEW l \in Int,
           x <= i + j - e, i + j <= k + l
    PROVE  x <= k + l - e
OBVIOUS

\* Time spent asleep or overdue only adds up.
LEMMA CountGoesOn ==
    ASSUME LimiterInv, ips' = ips, from' = from, limiter' = limiter,
           now' \in Nat, sleep' \in Nat, now + sleep <= now' + sleep'
    PROVE  LimitersAreCounted'
<1> SUFFICES ASSUME NEW a \in Addresses
             PROVE  /\ ips[a] = None => CleanupEvery * Cardinality(LimitersOf(a)) <= now' + sleep' - CleanupEvery
                    /\ ips[a] # None =>
                        /\ CleanupEvery * (Cardinality(LimitersOf(a)) - 1) <= now' + sleep' - CleanupEvery
                        /\ ips[a] \in LimitersOf(a)
  <2>1. \A a \in Addresses : LimitersOf(a)' = LimitersOf(a)
    BY DEF LimitersOf
  <2> QED
    BY <2>1 DEF LimitersAreCounted
<1>1. Cardinality(LimitersOf(a)) \in Int
  BY LimitersAreFinite DEF LimiterInv
<1>2. /\ CleanupEvery * Cardinality(LimitersOf(a)) \in Int
      /\ CleanupEvery * (Cardinality(LimitersOf(a)) - 1) \in Int
  BY <1>1, CleanupAssumption
<1>6. now \in Int /\ sleep \in Int /\ now' \in Int /\ sleep' \in Int /\ CleanupEvery \in Int
  BY CleanupAssumption DEF LimiterInv, LimiterTypeOK
<1>7. now + sleep <= now' + sleep'
  OBVIOUS
<1>3. ASSUME ips[a] = None
      PROVE  CleanupEvery * Cardinality(LimitersOf(a)) <= now' + sleep' - CleanupEvery
  <2>1. CleanupEvery * Cardinality(LimitersOf(a)) <= now + sleep - CleanupEvery
    BY <1>3 DEF LimiterInv, LimitersAreCounted
  <2> QED
    BY <2>1, <1>2, <1>6, <1>7, StillAtMost, Zenon
<1>4. ASSUME ips[a] # None
      PROVE  CleanupEvery * (Cardinality(LimitersOf(a)) - 1) <= now' + sleep' - CleanupEvery
  <2>1. CleanupEvery * (Cardinality(LimitersOf(a)) - 1) <= now + sleep - CleanupEvery
    BY <1>4 DEF LimiterInv, LimitersAreCounted
  <2> QED
    BY <2>1, <1>2, <1>6, <1>7, StillAtMost, Zenon
<1>5. ips[a] # None => ips[a] \in LimitersOf(a)
  BY DEF LimiterInv, LimitersAreCounted
<1> QED
  BY <1>3, <1>4, <1>5, Zenon

LEMMA CleanupCount ==
    ASSUME LimiterInv, Cleanup
    PROVE  LimitersAreCounted'
<1> SUFFICES ASSUME NEW a \in Addresses
             PROVE  CleanupEvery * Cardinality(LimitersOf(a)) <= now
  <2>1. /\ sleep' = CleanupEvery /\ now' = now /\ now \in Nat /\ CleanupEvery \in Nat
        /\ ips' = [b \in Addresses |-> None] /\ from' = from /\ limiter' = limiter
    BY CleanupAssumption DEF Cleanup, LimiterInv, LimiterTypeOK
  <2>2. /\ \A b \in Addresses : ips'[b] = None /\ LimitersOf(b)' = LimitersOf(b)
        /\ now' + sleep' - CleanupEvery = now
    BY <2>1 DEF LimitersOf
  <2> QED
    BY <2>2 DEF LimitersAreCounted
<1> DEFINE n == Cardinality(LimitersOf(a))
           x == CleanupEvery * n
<1>1. n \in Int /\ now \in Nat /\ sleep = 0 /\ CleanupEvery \in Nat
  BY LimitersAreFinite, CleanupAssumption DEF LimiterInv, LimiterTypeOK, Cleanup
<1>2. x \in Int /\ CleanupEvery * (n - 1) = x - CleanupEvery
  BY <1>1, PeriodsAdd
<1>3. x <= now + sleep - CleanupEvery \/ CleanupEvery * (n - 1) <= now + sleep - CleanupEvery
  BY DEF LimiterInv, LimitersAreCounted
<1> HIDE DEF x, n
<1>4. x <= now
  BY <1>1, <1>2, <1>3
<1> QED
  BY <1>4 DEF x, n

LEMMA GetLimiterCount ==
    ASSUME LimiterInv, NEW r \in Requests, NEW b \in Addresses, GetLimiter(r, b)
    PROVE  LimitersAreCounted'
<1> USE DEF LimiterInv
<1>1. /\ now' = now /\ sleep' = sleep /\ now \in Nat /\ sleep \in Nat
      /\ from[r] = None /\ from'[r] = b
      /\ \A s \in Requests : s # r => from'[s] = from[s] /\ limiter'[s] = limiter[s]
  BY DEF GetLimiter, LimiterTypeOK, RequestsAreInOrder
<1>2. \A a \in Addresses : a # b => LimitersOf(a)' = LimitersOf(a)
  BY <1>1, NoAddressAssumption DEF LimitersOf
<1>3. LimitersOf(b)' = LimitersOf(b) \cup {limiter'[r]}
  BY <1>1, NoAddressAssumption DEF LimitersOf
<1>4. ips'[b] # None /\ ips'[b] = limiter'[r] /\ \A a \in Addresses : a # b => ips'[a] = ips[a]
  BY NoAddressAssumption DEF GetLimiter, Stored, LimiterTypeOK
<1> DEFINE n == Cardinality(LimitersOf(b))
           m == Cardinality(LimitersOf(b)')
           limit == now + sleep - CleanupEvery
<1>5. n \in Int /\ IsFiniteSet(LimitersOf(b)) /\ limit \in Int
  BY <1>1, LimitersAreFinite, CleanupAssumption
<1>6. CleanupEvery * (m - 1) <= limit
  <2>1. CASE ips[b] # None
    <3>1. limiter'[r] \in LimitersOf(b)
      BY <2>1 DEF GetLimiter, LimitersAreCounted, LimiterTypeOK
    <3>2. m = n
      BY <3>1, <1>3, <1>5
    <3>3. CleanupEvery * (n - 1) <= limit
      BY <2>1 DEF LimitersAreCounted
    <3> QED
      BY <3>2, <3>3
  <2>2. CASE ips[b] = None
    <3>1. m = n \/ m = n + 1
      BY <1>3, <1>5, FS_AddElement
    <3>2. CleanupEvery * n <= limit
      BY <2>2 DEF LimitersAreCounted
    <3> DEFINE x == CleanupEvery * n
               y == CleanupEvery * (m - 1)
    <3>3. x \in Int /\ (y = x \/ y = x - CleanupEvery)
      BY <1>5, <3>1, PeriodsAdd
    <3>4. x <= limit /\ CleanupEvery \in Nat
      BY <3>2, CleanupAssumption
    <3> HIDE DEF x, y, limit
    <3>5. y <= limit
      BY <3>3, <3>4, <1>5
    <3> QED
      BY <3>5 DEF y
  <2> QED
    BY <2>1, <2>2
<1>7. ips'[b] \in LimitersOf(b)'
  BY <1>3, <1>4
<1>8. ASSUME NEW a \in Addresses
      PROVE  /\ ips'[a] = None => CleanupEvery * Cardinality(LimitersOf(a)') <= limit
             /\ ips'[a] # None =>
                 /\ CleanupEvery * (Cardinality(LimitersOf(a)') - 1) <= limit
                 /\ ips'[a] \in LimitersOf(a)'
  <2>1. CASE a = b
    BY <2>1, <1>4, <1>6, <1>7
  <2>2. CASE a # b
    BY <2>2, <1>2, <1>4 DEF LimitersAreCounted
  <2> QED
    BY <2>1, <2>2
<1> QED
  BY <1>1, <1>8 DEF LimitersAreCounted
-----------------------------------------------------------------------------
(* The theorems.                                                           *)

LEMMA LimiterTypePreserved ==
    ASSUME LimiterInv, [LimiterNext]_limiterVars
    PROVE  LimiterTypeOK' /\ RequestsAreInOrder'
<1> USE DEF LimiterInv
<1>1. CASE UNCHANGED limiterVars
  BY <1>1 DEF limiterVars, LimiterTypeOK, RequestsAreInOrder
<1>2. CASE LimiterTick
  BY <1>2, CleanupAssumption DEF LimiterTick, LimiterTypeOK, RequestsAreInOrder
<1>3. CASE Cleanup
  BY <1>3, CleanupAssumption DEF Cleanup, LimiterTypeOK, RequestsAreInOrder
<1>4. ASSUME NEW r \in Requests, Bypass(r) PROVE LimiterTypeOK' /\ RequestsAreInOrder'
  BY <1>4 DEF Bypass, LetThrough, LimiterTypeOK, RequestsAreInOrder, Passages
<1>5. ASSUME NEW r \in Requests, Allow(r) PROVE LimiterTypeOK' /\ RequestsAreInOrder'
  <2> DEFINE k == limiter[r]
             c == clock[r]
  <2>1. k \in 1..Len(buckets) /\ c \in Nat /\ now \in Nat
    BY <1>5 DEF Allow, LimiterTypeOK, RequestsAreInOrder
  <2>2. CASE /\ Enough(k, c)
             /\ buckets' = [buckets EXCEPT ![k] = [tokens |-> Available(k, c) - 1, last |-> c]]
             /\ LetThrough(r)
    <3>1. Available(k, c) \in Nat
      BY <2>1, AvailableBound
    <3>2. [tokens |-> Available(k, c) - 1, last |-> c] \in Bucket
      BY <2>1, <2>2, <3>1 DEF Bucket, Enough
    <3>3. buckets' \in Seq(Bucket) /\ Len(buckets') = Len(buckets)
      BY <2>1, <2>2, <3>2 DEF LimiterTypeOK
    <3>4. passage' \in [Requests -> Passages] /\ at' \in [Requests -> 0..now]
      BY <2>1, <2>2 DEF LetThrough, LimiterTypeOK, Passages
    <3>5. \A s \in Requests : s = r \/ passage'[s] = passage[s]
      BY <2>2 DEF LetThrough, LimiterTypeOK
    <3>6. passage'[r] = "passed" /\ from[r] # None
      BY <2>1, <2>2 DEF LetThrough, LimiterTypeOK, RequestsAreInOrder
    <3> QED
      BY <1>5, <3>3, <3>4, <3>5, <3>6 DEF Allow, LimiterTypeOK, RequestsAreInOrder
  <2>3. CASE passage' = [passage EXCEPT ![r] = "429"] /\ UNCHANGED <<buckets, at>>
    BY <1>5, <2>1, <2>3 DEF Allow, LimiterTypeOK, RequestsAreInOrder, Passages
  <2> QED
    BY <1>5, <2>2, <2>3 DEF Allow
<1>6. ASSUME NEW r \in Requests, NEW a \in Addresses, GetLimiter(r, a)
      PROVE  LimiterTypeOK' /\ RequestsAreInOrder'
  <2>1. CASE ips[a] # None
    <3>1. ips[a] \in 1..Len(buckets) /\ buckets' = buckets /\ ips' = ips
      BY <1>6, <2>1 DEF GetLimiter, LimiterTypeOK
    <3>2. limiter' = [limiter EXCEPT ![r] = ips[a]]
      BY <1>6, <2>1 DEF GetLimiter
    <3> QED
      BY <1>6, <3>1, <3>2, NoAddressAssumption
      DEF GetLimiter, LimiterTypeOK, RequestsAreInOrder, Passages
  <2>2. CASE ips[a] = None
    <3>1. buckets' = Append(buckets, [tokens |-> Burst, last |-> 0])
      BY <1>6, <2>2 DEF GetLimiter
    <3>2. [tokens |-> Burst, last |-> 0] \in Bucket
      BY BurstAssumption DEF Bucket, LimiterTypeOK
    <3>3. /\ buckets' \in Seq(Bucket) /\ Len(buckets') = Len(buckets) + 1 /\ Len(buckets) \in Nat
      BY <3>1, <3>2 DEF LimiterTypeOK
    <3>4. ips' = [ips EXCEPT ![a] = Len(buckets) + 1] /\ limiter' = [limiter EXCEPT ![r] = Len(buckets) + 1]
      BY <1>6, <2>2 DEF GetLimiter, Stored
    <3>5. ips' \in [Addresses -> 1..Len(buckets') \cup {None}]
      BY <3>3, <3>4 DEF LimiterTypeOK
    <3>6. limiter' \in [Requests -> 0..Len(buckets')]
      BY <3>3, <3>4 DEF LimiterTypeOK
    <3> QED
      BY <1>6, <3>3, <3>4, <3>5, <3>6, NoAddressAssumption
      DEF GetLimiter, LimiterTypeOK, RequestsAreInOrder, Passages
  <2> QED
    BY <2>1, <2>2
<1>7. ASSUME NEW r \in Requests, ReadClock(r) PROVE LimiterTypeOK' /\ RequestsAreInOrder'
  BY <1>7 DEF ReadClock, LimiterTypeOK, RequestsAreInOrder, Passages
<1> QED
  BY <1>1, <1>2, <1>3, <1>4, <1>5, <1>6, <1>7 DEF LimiterNext

LEMMA LimiterInvPreserved == LimiterInv /\ [LimiterNext]_limiterVars => LimiterInv'
<1> SUFFICES ASSUME LimiterInv, [LimiterNext]_limiterVars PROVE LimiterInv'
  OBVIOUS
<1>1. LimiterTypeOK' /\ RequestsAreInOrder'
  BY LimiterTypePreserved
<1>2. now \in Nat /\ sleep \in Nat
  BY DEF LimiterInv, LimiterTypeOK
<1>3. CASE UNCHANGED limiterVars
  <2>1. \A k, t : Through(k, t)' = Through(k, t) /\ Delays(k, t)' = Delays(k, t)
    BY <1>3 DEF limiterVars, Through, Delays
  <2>2. BucketsBalance'
    BY <1>3, <2>1, BalanceIsKept DEF limiterVars
  <2>3. LimitersAreCounted'
    BY <1>2, <1>3, CountGoesOn DEF limiterVars
  <2> QED
    BY <1>1, <2>2, <2>3 DEF LimiterInv
<1>4. CASE LimiterTick
  <2>1. now + sleep <= now' + sleep' /\ now' \in Nat /\ sleep' \in Nat
    BY <1>2, <1>4 DEF LimiterTick
  <2> QED
    BY <1>1, <1>4, <2>1, TickBalance, CountGoesOn DEF LimiterTick, LimiterInv
<1>5. CASE Cleanup
  <2>1. \A k, t : Through(k, t)' = Through(k, t) /\ Delays(k, t)' = Delays(k, t)
    BY <1>5 DEF Cleanup, Through, Delays
  <2>2. BucketsBalance'
    BY <1>5, <2>1, BalanceIsKept DEF Cleanup
  <2> QED
    BY <1>1, <1>5, <2>2, CleanupCount DEF LimiterInv
<1>6. ASSUME NEW r \in Requests, Bypass(r) PROVE LimiterInv'
  <2>1. ASSUME NEW k \in 1..Len(buckets), NEW t
        PROVE  Through(k, t)' = Through(k, t) /\ Delays(k, t)' = Delays(k, t)
    <3>1. /\ limiter[r] = 0 /\ limiter' = limiter /\ clock' = clock
          /\ \A s \in Requests : s # r => passage'[s] = passage[s] /\ at'[s] = at[s]
      BY <1>6 DEF Bypass, LetThrough, LimiterInv, LimiterTypeOK, RequestsAreInOrder
    <3>2. Through(k, t)' = Through(k, t)
      BY <3>1 DEF Through
    <3>3. \A s \in Through(k, t) : at'[s] = at[s]
      BY <3>1 DEF Through
    <3> QED
      BY <3>1, <3>2, <3>3 DEF Delays
  <2>2. BucketsBalance'
    BY <1>6, <2>1, BalanceIsKept DEF Bypass
  <2>3. LimitersAreCounted'
    BY <1>2, <1>6, CountGoesOn DEF Bypass
  <2> QED
    BY <1>1, <2>2, <2>3 DEF LimiterInv
<1>7. ASSUME NEW r \in Requests, Allow(r) PROVE LimiterInv'
  <2>1. LimitersAreCounted'
    BY <1>2, <1>7, CountGoesOn DEF Allow
  <2> QED
    BY <1>1, <1>7, <2>1, AllowBalance DEF LimiterInv
<1>8. ASSUME NEW r \in Requests, NEW a \in Addresses, GetLimiter(r, a) PROVE LimiterInv'
  BY <1>1, <1>8, GetLimiterBalance, GetLimiterCount DEF LimiterInv
<1>9. ASSUME NEW r \in Requests, ReadClock(r) PROVE LimiterInv'
  <2>1. /\ limiter' = limiter /\ at' = at
        /\ \A s \in Requests : s # r => passage'[s] = passage[s] /\ clock'[s] = clock[s]
        /\ passage[r] = "asking" /\ passage'[r] = "timed"
    BY <1>9 DEF ReadClock, LimiterInv, LimiterTypeOK
  <2>2. ASSUME NEW k, NEW t
        PROVE  Through(k, t)' = Through(k, t) /\ Delays(k, t)' = Delays(k, t)
    <3>1. Through(k, t)' = Through(k, t)
      BY <2>1 DEF Through
    <3>2. \A s \in Through(k, t) : clock'[s] = clock[s]
      BY <2>1 DEF Through
    <3> QED
      BY <2>1, <3>1, <3>2 DEF Delays
  <2>3. BucketsBalance'
    BY <1>9, <2>2, BalanceIsKept DEF ReadClock
  <2>4. LimitersAreCounted'
    BY <1>2, <1>9, CountGoesOn DEF ReadClock
  <2> QED
    BY <1>1, <2>3, <2>4 DEF LimiterInv
<1> QED
  BY <1>3, <1>4, <1>5, <1>6, <1>7, <1>8, <1>9 DEF LimiterNext

\* Every state of the limiter satisfies the inductive invariant.
THEOREM LimiterInvariance == LimiterSpec => []LimiterInv
BY LimiterInitially, LimiterInvPreserved, PTL DEF LimiterSpec

LEMMA InvImpliesBound == LimiterInv => BucketBound
<1> SUFFICES ASSUME LimiterInv, NEW k \in 1..Len(buckets), NEW t \in 0..now
             PROVE  Cardinality(Through(k, t))
                        <= Burst + Rate * (now - t + Cardinality(Delays(k, t)))
  BY DEF BucketBound
<1> DEFINE n == Cardinality(Through(k, t))
           d == now - t + Cardinality(Delays(k, t))
           flow == Rate * d
           available == Available(k, now)
<1>1. n + available <= Burst + flow
  BY DEF LimiterInv, BucketsBalance
<1>2. available \in Nat
  BY AvailableBound DEF LimiterInv, LimiterTypeOK
<1>3. n \in Nat /\ d \in Nat
  BY ThroughIsFinite, DelaysAreFinite DEF LimiterInv, LimiterTypeOK
<1>4. flow \in Nat
  BY <1>3, CreditGrows
<1> HIDE DEF n, d, flow, available
<1>5. n <= Burst + flow
  BY <1>1, <1>2, <1>3, <1>4, BurstAssumption
<1> QED
  BY <1>5 DEF n, d, flow

LEMMA InvImpliesOneBucket == LimiterInv => OneBucketPerPeriod
<1> SUFFICES ASSUME LimiterInv, NEW a \in Addresses
             PROVE  CleanupEvery * (Cardinality(LimitersOf(a)) - 1) <= now
  BY DEF OneBucketPerPeriod
<1> DEFINE n == Cardinality(LimitersOf(a))
           x == CleanupEvery * n
           y == CleanupEvery * (n - 1)
<1>1. n \in Int
  BY LimitersAreFinite DEF LimiterInv
<1>2. /\ now \in Nat /\ sleep \in 0..CleanupEvery
      /\ CleanupEvery \in Nat
  BY CleanupAssumption DEF LimiterInv, LimiterTypeOK
<1>3. x \in Int /\ y = x - CleanupEvery
  BY <1>1, PeriodsAdd
<1>4. x <= now + sleep - CleanupEvery \/ y <= now + sleep - CleanupEvery
  BY DEF LimiterInv, LimitersAreCounted
<1> HIDE DEF x, y, n
<1>5. y <= now
  BY <1>2, <1>3, <1>4
<1> QED
  BY <1>5 DEF y, n

\* A bucket never lets more through in any stretch of time than its burst and
\* what flows in, in that time and once more in the delays of its late requests
\* (Allow), stragglers and resets of the map included.
THEOREM BucketsAreBounded == LimiterSpec => []BucketBound
BY LimiterInvariance, InvImpliesBound, PTL

\* An address gets one more bucket for every whole period of the cleanup, and
\* no other (getLimiter and cleanupVisitors under the mutex).
THEOREM BucketsAreCounted == LimiterSpec => []OneBucketPerPeriod
BY LimiterInvariance, InvImpliesOneBucket, PTL
=============================================================================

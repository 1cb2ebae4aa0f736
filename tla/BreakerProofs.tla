---------------------------- MODULE BreakerProofs ----------------------------
(***************************************************************************)
(* Theorems about Breaker, for any number of calls, any MaxRequests and    *)
(* any intervals.                                                          *)
(***************************************************************************)
EXTENDS Breaker, FiniteSetTheorems, TLAPS

USE CallsAssumption, MaxRequestsAssumption, IntervalAssumption, TimeoutAssumption

\* currentState is the state as it is, or the next generation of a closed or
\* open one.
LEMMA CurrentState ==
    ASSUME breaker \in BreakerState
    PROVE  /\ Current(breaker) \in BreakerState
           /\ \/ Current(breaker) = breaker
              \/ breaker.mode = "closed" /\ Current(breaker) = Generation(breaker, "closed")
              \/ breaker.mode = "open" /\ Current(breaker) = Generation(breaker, "halfOpen")
BY DEF Current, Generation, BreakerState

\* The sets of calls that the invariant counts are finite.
LEMMA OfIsFinite ==
    ASSUME NEW outcome
    PROVE  IsFiniteSet(Of(outcome)) /\ IsFiniteSet(Members)
<1>1. \A o : Of(o) \subseteq Calls
  BY DEF Of
<1>2. Members \subseteq Calls
  BY <1>1 DEF Members
<1> QED
  BY <1>1, <1>2, FS_Subset

\* No call belongs to a generation that has just begun.
LEMMA FreshGenerationIsEmpty ==
    ASSUME NEW outcome, NEW t \in [Calls -> Nat], NEW v, NEW b,
           \A c \in Calls : t[c] < b.generation
    PROVE  {c \in Calls : v[c] = outcome /\ t[c] = b.generation} = {}
BY SMT

\* Failures that have been told stay told: what was earned stays earned when
\* no ticket changes hands and no failure is forgotten.
LEMMA EarnedIsKept ==
    ASSUME BreakerTypeOK, Earned,
           ticket' \in [Calls -> Nat], verdict' \in [Calls -> Verdicts],
           \A c \in Calls : verdict[c] = "failed" => verdict'[c] = "failed" /\ ticket'[c] = ticket[c]
    PROVE  Earned'
<1>1. PICK d \in Calls :
        Cardinality({c \in Calls : ticket[c] = ticket[d] /\ verdict[c] = "failed"}) >= 3
  BY DEF Earned
<1> DEFINE F == {c \in Calls : ticket[c] = ticket[d] /\ verdict[c] = "failed"}
<1>2. F # {}
  BY <1>1, FS_EmptySet
<1>3. PICK e \in F : TRUE
  BY <1>2
<1> DEFINE G == {c \in Calls : ticket'[c] = ticket'[e] /\ verdict'[c] = "failed"}
<1>4. F \subseteq G
  OBVIOUS
<1>5. IsFiniteSet(G) /\ IsFiniteSet(F)
  BY FS_Subset
<1>6. Cardinality(F) <= Cardinality(G) /\ Cardinality(G) \in Nat /\ Cardinality(F) \in Nat
  BY <1>4, <1>5, FS_Subset, FS_CardinalityType
<1>7. Cardinality(G) >= 3
  BY <1>1, <1>6
<1> QED
  BY <1>3, <1>7 DEF Earned
-----------------------------------------------------------------------------
\* The breaker starts with clear counters and no call admitted.
LEMMA InitInv == BreakerInit => BreakerInv
<1> SUFFICES ASSUME BreakerInit PROVE BreakerInv
  OBVIOUS
<1>1. BreakerTypeOK
  BY DEF BreakerInit, BreakerTypeOK, BreakerState, Verdicts
<1>2. \A o : Of(o) = {}
  BY DEF BreakerInit, Of
<1>3. Members = {}
  BY <1>2 DEF Members
<1>4. CountsAreHistory
  BY <1>2, <1>3, FS_EmptySet DEF CountsAreHistory, BreakerInit
<1>5. PeriodsAreKept /\ RefusalsAreEarned
  BY <1>3 DEF PeriodsAreKept, RefusalsAreEarned, BreakerInit, Refusals
<1>6. TicketsAreOld /\ OpeningIsEarned
  BY DEF TicketsAreOld, OpeningIsEarned, BreakerInit, Refusals
<1> QED
  BY <1>1, <1>4, <1>5, <1>6 DEF BreakerInv
-----------------------------------------------------------------------------
(* What each step does to the calls of the current generation.             *)

\* All calls of the generation that a step begins are the given ones.
StartsWith(calls) ==
    /\ Of("waiting")' = calls
    /\ Of("ok")' = {}
    /\ Of("failed")' = {}
    /\ breaker'.generation = breaker.generation + 1
    /\ breaker'.requests = Cardinality(calls)
    /\ breaker'.failures = 0
    /\ breaker'.streak = 0

\* What a step that begins the next generation of its own accord does.
Lapses(calls) ==
    /\ StartsWith(calls)
    /\ \/ breaker.mode = "closed" /\ breaker'.mode = "closed"
       \/ breaker.mode = "open" /\ breaker'.mode = "halfOpen"

Keeps == /\ Of("waiting")' = Of("waiting")
         /\ Of("ok")' = Of("ok")
         /\ Of("failed")' = Of("failed")
         /\ breaker'.mode = breaker.mode
         /\ breaker'.generation = breaker.generation
         /\ breaker'.requests = breaker.requests
         /\ breaker'.failures = breaker.failures
         /\ breaker'.streak = breaker.streak

Admitting(c) ==
    /\ Admits(breaker)
    /\ c \notin Members
    /\ Of("waiting")' = Of("waiting") \cup {c}
    /\ Of("ok")' = Of("ok")
    /\ Of("failed")' = Of("failed")
    /\ breaker' = [breaker EXCEPT !.requests = @ + 1]

LEMMA TickEffect ==
    ASSUME BreakerTypeOK, BreakerTick
    PROVE  Keeps /\ BreakerTypeOK'
BY DEF BreakerTick, Elapse, Keeps, Of, BreakerTypeOK, BreakerState

LEMMA EnterEffect ==
    ASSUME BreakerInv, NEW c \in Calls, Enter(c)
    PROVE  /\ BreakerTypeOK'
           /\ \A d \in Calls : d # c => ticket'[d] = ticket[d] /\ verdict'[d] = verdict[d]
           /\ verdict[c] = "none"
           /\ \/ Admitting(c) /\ verdict'[c] = "waiting" /\ ticket'[c] = breaker.generation
              \/ Lapses({c}) /\ verdict'[c] = "waiting" /\ ticket'[c] = breaker'.generation
              \/ /\ Keeps
                 /\ breaker.mode # "closed"
                 /\ verdict'[c] \in Refusals
                 /\ ticket'[c] = ticket[c]
<1> DEFINE b == Current(breaker)
<1>1. BreakerTypeOK /\ TicketsAreOld /\ PeriodsAreKept
  BY DEF BreakerInv
<1>2. /\ b \in BreakerState
      /\ \/ b = breaker
         \/ breaker.mode = "closed" /\ b = Generation(breaker, "closed")
         \/ breaker.mode = "open" /\ b = Generation(breaker, "halfOpen")
  BY <1>1, CurrentState DEF BreakerTypeOK
<1>3. verdict[c] = "none" /\ ticket[c] = 0 /\ breaker.generation > 0
  BY <1>1 DEF Enter, TicketsAreOld
<1>4. \A d \in Calls : ticket[d] \in Nat /\ ticket[d] <= breaker.generation
  BY <1>1 DEF BreakerTypeOK, TicketsAreOld
<1>5. CASE Admits(b)
  <2>1. /\ breaker' = [b EXCEPT !.requests = @ + 1]
        /\ ticket' = [ticket EXCEPT ![c] = b.generation]
        /\ verdict' = [verdict EXCEPT ![c] = "waiting"]
    BY <1>5 DEF Enter
  <2>2. BreakerTypeOK'
    BY <2>1, <1>1, <1>2 DEF BreakerTypeOK, BreakerState, Verdicts
  <2>3. /\ \A d \in Calls : d # c => ticket'[d] = ticket[d] /\ verdict'[d] = verdict[d]
        /\ ticket'[c] = b.generation /\ verdict'[c] = "waiting"
    BY <2>1, <1>1 DEF BreakerTypeOK
  <2>4. breaker'.generation = b.generation
    BY <2>1, <1>2 DEF BreakerState
  <2>5. CASE b = breaker
    <3>1. c \notin Members
      BY <1>3 DEF Members, Of
    <3>2. /\ Of("waiting")' = Of("waiting") \cup {c}
          /\ Of("ok")' = Of("ok") /\ Of("failed")' = Of("failed")
      BY <1>3, <2>3, <2>4, <2>5 DEF Of
    <3> QED
      BY <1>3, <1>5, <2>1, <2>2, <2>3, <2>5, <3>1, <3>2 DEF Admitting
  <2>6. CASE b # breaker
    <3>1. /\ b.generation = breaker.generation + 1 /\ b.requests = 0
          /\ b.failures = 0 /\ b.streak = 0
      BY <1>2, <2>6 DEF Generation
    <3>2. \/ breaker.mode = "closed" /\ b.mode = "closed"
          \/ breaker.mode = "open" /\ b.mode = "halfOpen"
      BY <1>2, <2>6 DEF Generation
    <3>3. /\ breaker'.requests = 1 /\ breaker'.failures = 0 /\ breaker'.streak = 0
          /\ breaker'.mode = b.mode
      BY <1>2, <2>1, <3>1 DEF BreakerState
    <3>4. Of("waiting")' = {c} /\ Of("ok")' = {} /\ Of("failed")' = {}
      BY <1>3, <1>4, <2>3, <2>4, <3>1, <1>1 DEF Of, BreakerTypeOK, BreakerState
    <3>5. Cardinality({c}) = 1
      BY FS_Singleton
    <3>6. Lapses({c})
      BY <2>4, <3>1, <3>2, <3>3, <3>4, <3>5 DEF Lapses, StartsWith
    <3> QED
      BY <1>3, <2>2, <2>3, <2>4, <3>6
  <2> QED
    BY <2>5, <2>6
<1>6. CASE ~Admits(b)
  <2>1. /\ breaker' = b /\ ticket' = ticket
        /\ verdict' = [verdict EXCEPT ![c] =
              IF b.mode = "open" THEN "ErrOpenState" ELSE "ErrTooManyRequests"]
    BY <1>6 DEF Enter
  <2>2. b = breaker /\ breaker.mode # "closed"
    BY <1>2, <1>6 DEF Admits, Generation
  <2>3. /\ \A d \in Calls : d # c => ticket'[d] = ticket[d] /\ verdict'[d] = verdict[d]
        /\ verdict'[c] \in Refusals /\ ticket'[c] = ticket[c]
    BY <2>1, <1>1 DEF BreakerTypeOK, Refusals
  <2>4. BreakerTypeOK'
    BY <2>1, <2>2, <1>1 DEF BreakerTypeOK, Verdicts, Refusals
  <2>5. Keeps
    BY <1>3, <2>1, <2>2, <2>3 DEF Keeps, Of, Refusals
  <2> QED
    BY <1>3, <2>2, <2>3, <2>4, <2>5
<1> QED
  BY <1>5, <1>6

\* The answer of a call of this generation that ends neither it nor the call's
\* membership: one more success, or one more failure.
Succeeding(c) ==
    /\ breaker.mode = "halfOpen" => breaker.streak + 1 < MaxRequests
    /\ breaker' = [breaker EXCEPT !.streak = @ + 1]
    /\ Of("ok")' = Of("ok") \cup {c}
    /\ Of("failed")' = Of("failed")

Failing(c) ==
    /\ breaker.mode # "halfOpen"
    /\ breaker' = [breaker EXCEPT !.failures = @ + 1, !.streak = 0]
    /\ Of("ok")' = Of("ok")
    /\ Of("failed")' = Of("failed") \cup {c}

\* The answers that end the generation.
Recovering ==
    /\ breaker.mode = "halfOpen"
    /\ breaker.streak + 1 >= MaxRequests
    /\ breaker'.mode = "closed"
    /\ StartsWith({})

Tripping ==
    /\ breaker.mode # "halfOpen" => breaker.failures + 1 >= 3
    /\ breaker'.mode = "open"
    /\ StartsWith({})

LEMMA LeaveEffect ==
    ASSUME BreakerInv, NEW c \in Calls, NEW success \in BOOLEAN, Leave(c, success)
    PROVE  /\ BreakerTypeOK'
           /\ \A d \in Calls : d # c => verdict'[d] = verdict[d]
           /\ ticket' = ticket
           /\ verdict[c] = "waiting"
           /\ verdict'[c] = IF success THEN "ok" ELSE "failed"
           /\ \/ /\ c \in Of("waiting")
                 /\ Of("waiting")' = Of("waiting") \ {c}
                 /\ \/ success /\ Succeeding(c)
                    \/ ~success /\ Failing(c)
              \/ c \in Of("waiting") /\ success /\ Recovering
              \/ c \in Of("waiting") /\ ~success /\ Tripping
              \/ c \notin Of("waiting") /\ Keeps
              \/ Lapses({})
<1> DEFINE b == Current(breaker)
<1>1. BreakerTypeOK /\ TicketsAreOld /\ PeriodsAreKept
  BY DEF BreakerInv
<1>2. /\ b \in BreakerState
      /\ \/ b = breaker
         \/ breaker.mode = "closed" /\ b = Generation(breaker, "closed")
         \/ breaker.mode = "open" /\ b = Generation(breaker, "halfOpen")
  BY <1>1, CurrentState DEF BreakerTypeOK
<1>3. /\ verdict[c] = "waiting"
      /\ ticket' = ticket
      /\ verdict' = [verdict EXCEPT ![c] = IF success THEN "ok" ELSE "failed"]
  BY DEF Leave
<1>4. /\ \A d \in Calls : d # c => verdict'[d] = verdict[d]
      /\ verdict'[c] = IF success THEN "ok" ELSE "failed"
      /\ verdict' \in [Calls -> Verdicts]
  BY <1>1, <1>3 DEF BreakerTypeOK, Verdicts
<1>5. \A d \in Calls : ticket[d] \in Nat /\ ticket[d] <= breaker.generation
  BY <1>1 DEF BreakerTypeOK, TicketsAreOld
<1>6. breaker \in BreakerState /\ ticket \in [Calls -> Nat]
  BY <1>1 DEF BreakerTypeOK
<1> HIDE DEF b
<1>7. ASSUME breaker'.generation = breaker.generation + 1
      PROVE  Of("waiting")' = {} /\ Of("ok")' = {} /\ Of("failed")' = {}
  BY <1>3, <1>5, <1>6, <1>7 DEF Of, BreakerState
<1>8. CASE ~Counts(c, b)
  <2>1. breaker' = b
    BY <1>8 DEF Leave, b
  <2>2. BreakerTypeOK'
    BY <2>1, <1>2, <1>3, <1>4, <1>6 DEF BreakerTypeOK
  <2>3. CASE b = breaker
    <3>1. ticket[c] # breaker.generation
      BY <1>8, <2>3 DEF Counts
    <3>2. c \notin Of("waiting") /\ Keeps
      BY <3>1, <2>1, <2>3, <1>3, <1>4 DEF Of, Keeps
    <3> QED
      BY <3>2, <2>2, <1>3, <1>4
  <2>4. CASE b # breaker
    <3>1. /\ breaker'.generation = breaker.generation + 1 /\ breaker'.requests = 0
          /\ breaker'.failures = 0 /\ breaker'.streak = 0
          /\ \/ breaker.mode = "closed" /\ breaker'.mode = "closed"
             \/ breaker.mode = "open" /\ breaker'.mode = "halfOpen"
      BY <1>2, <2>1, <2>4 DEF Generation
    <3>2. Lapses({})
      BY <3>1, <1>7, FS_EmptySet DEF Lapses, StartsWith
    <3> QED
      BY <3>2, <2>2, <1>3, <1>4
  <2> QED
    BY <2>3, <2>4
<1>9. CASE Counts(c, b)
  <2>1. b = breaker /\ ticket[c] = breaker.generation
    BY <1>2, <1>5, <1>6, <1>9 DEF Counts, Generation, BreakerState
  <2>2. c \in Of("waiting")
    BY <1>3, <2>1 DEF Of
  <2>3. breaker.mode # "open"
    BY <1>1, <2>2 DEF PeriodsAreKept, Members
  <2>4. breaker' = IF success THEN OnSuccess(breaker) ELSE OnFailure(breaker)
    BY <1>9, <2>1 DEF Leave, b
  <2>5. ASSUME breaker'.generation = breaker.generation
        PROVE  /\ Of("waiting")' = Of("waiting") \ {c}
               /\ Of("ok")' = IF success THEN Of("ok") \cup {c} ELSE Of("ok")
               /\ Of("failed")' = IF success THEN Of("failed") ELSE Of("failed") \cup {c}
    BY <1>3, <1>4, <2>1, <2>5 DEF Of
  <2>6. CASE success
    <3> DEFINE s == [breaker EXCEPT !.streak = @ + 1]
    <3>1. s \in BreakerState /\ s.streak = breaker.streak + 1 /\ s.generation = breaker.generation
      BY <1>6 DEF BreakerState
    <3>2. CASE breaker.mode = "halfOpen" /\ s.streak >= MaxRequests
      <4>1. breaker' = Generation(breaker, "closed")
        BY <2>4, <2>6, <3>2 DEF OnSuccess
      <4>2. /\ breaker' \in BreakerState /\ breaker'.generation = breaker.generation + 1
            /\ breaker'.mode = "closed" /\ breaker'.requests = 0 /\ breaker'.failures = 0
            /\ breaker'.streak = 0
        BY <4>1, <1>6 DEF Generation, BreakerState
      <4>3. Recovering
        BY <4>2, <3>1, <3>2, <1>7, FS_EmptySet DEF Recovering, StartsWith
      <4> QED
        BY <4>2, <4>3, <2>2, <2>6, <1>3, <1>4, <1>6 DEF BreakerTypeOK
    <3>3. CASE ~(breaker.mode = "halfOpen" /\ s.streak >= MaxRequests)
      <4>1. breaker' = s
        BY <2>4, <2>6, <3>3 DEF OnSuccess
      <4>2. Succeeding(c) /\ Of("waiting")' = Of("waiting") \ {c}
        BY <4>1, <3>1, <3>3, <2>5, <2>6, <1>6 DEF Succeeding, BreakerState
      <4> QED
        BY <4>1, <4>2, <3>1, <2>2, <2>6, <1>3, <1>4, <1>6 DEF BreakerTypeOK
    <3> QED
      BY <3>2, <3>3
  <2>7. CASE ~success
    <3> DEFINE f == [breaker EXCEPT !.failures = @ + 1, !.streak = 0]
    <3>1. f \in BreakerState /\ f.failures = breaker.failures + 1
      <4> DEFINE g == [breaker EXCEPT !.failures = @ + 1]
      <4>1. g \in BreakerState /\ g.failures = breaker.failures + 1
        BY <1>6 DEF BreakerState
      <4>2. f = [g EXCEPT !.streak = 0]
        BY <1>6 DEF BreakerState
      <4> QED
        BY <4>1, <4>2 DEF BreakerState
    <3>2. CASE breaker.mode = "halfOpen" \/ ReadyToTrip(f)
      <4>1. breaker' = Generation(breaker, "open")
        BY <2>4, <2>7, <3>2 DEF OnFailure
      <4>2. /\ breaker' \in BreakerState /\ breaker'.generation = breaker.generation + 1
            /\ breaker'.mode = "open" /\ breaker'.requests = 0 /\ breaker'.failures = 0
            /\ breaker'.streak = 0
        BY <4>1, <1>6 DEF Generation, BreakerState
      <4>3. Tripping
        BY <4>2, <3>1, <3>2, <1>7, FS_EmptySet DEF Tripping, StartsWith, ReadyToTrip
      <4> QED
        BY <4>2, <4>3, <2>2, <2>7, <1>3, <1>4, <1>6 DEF BreakerTypeOK
    <3>3. CASE ~(breaker.mode = "halfOpen" \/ ReadyToTrip(f))
      <4>1. breaker' = f
        BY <2>4, <2>7, <3>3 DEF OnFailure
      <4>2. breaker'.generation = breaker.generation
        BY <4>1, <1>6 DEF BreakerState
      <4>3. Failing(c) /\ Of("waiting")' = Of("waiting") \ {c}
        BY <4>1, <4>2, <3>3, <2>5, <2>7 DEF Failing
      <4> QED
        BY <4>1, <4>3, <3>1, <2>2, <2>7, <1>3, <1>4, <1>6 DEF BreakerTypeOK
    <3> QED
      BY <3>2, <3>3
  <2> QED
    BY <2>6, <2>7
<1> QED
  BY <1>8, <1>9
-----------------------------------------------------------------------------
(* The invariant.                                                          *)

\* The ways in which a call c changes what the generation has counted.
Moves(c) ==
    \/ Admitting(c)
    \/ Lapses({c})
    \/ Lapses({})
    \/ /\ c \in Of("waiting")
       /\ Of("waiting")' = Of("waiting") \ {c}
       /\ Succeeding(c) \/ Failing(c)
    \/ c \in Of("waiting") /\ (Recovering \/ Tripping)

\* The counts and the periods survive every such change.
LEMMA MovesKeepCounts ==
    ASSUME BreakerInv, NEW c \in Calls, Moves(c)
    PROVE  CountsAreHistory' /\ PeriodsAreKept'
<1>1. /\ BreakerTypeOK /\ CountsAreHistory /\ PeriodsAreKept
  BY DEF BreakerInv
<1>2. /\ \A o : IsFiniteSet(Of(o)) /\ Cardinality(Of(o)) \in Nat
      /\ IsFiniteSet(Members) /\ Cardinality(Members) \in Nat
  BY OfIsFinite, FS_CardinalityType
<1>3. breaker \in BreakerState
  BY <1>1 DEF BreakerTypeOK
<1>4. Cardinality({}) = 0 /\ Cardinality({c}) = 1
  BY FS_EmptySet, FS_Singleton
<1>5. ASSUME NEW calls \in {{}, {c}}, StartsWith(calls)
      PROVE  /\ CountsAreHistory'
             /\ breaker'.mode = "open" /\ calls = {} => PeriodsAreKept'
             /\ breaker'.mode # "open" => PeriodsAreKept'
  <2>1. Members' = calls
    BY <1>5 DEF StartsWith, Members
  <2>2. /\ breaker'.requests = Cardinality(calls) /\ breaker'.failures = 0
        /\ breaker'.streak = 0 /\ Of("failed")' = {} /\ Of("ok")' = {}
    BY <1>5 DEF StartsWith
  <2>3. CountsAreHistory'
    BY <2>1, <2>2, <1>4 DEF CountsAreHistory
  <2>4. breaker'.requests <= MaxRequests /\ breaker'.streak < MaxRequests
    BY <2>2, <1>4
  <2> QED
    BY <2>1, <2>2, <2>3, <2>4, <1>4 DEF PeriodsAreKept
<1>6. CASE Admitting(c)
  <2>1. /\ c \notin Members /\ Admits(breaker)
        /\ Of("ok")' = Of("ok") /\ Of("failed")' = Of("failed")
        /\ Members' = Members \cup {c}
        /\ breaker' = [breaker EXCEPT !.requests = @ + 1]
    BY <1>6 DEF Admitting, Members
  <2>2. Cardinality(Members') = Cardinality(Members) + 1
    BY <2>1, <1>2, FS_AddElement
  <2>3. /\ breaker'.requests = breaker.requests + 1 /\ breaker'.failures = breaker.failures
        /\ breaker'.streak = breaker.streak /\ breaker'.mode = breaker.mode
    BY <2>1, <1>3 DEF BreakerState
  <2>4. CountsAreHistory'
    BY <2>1, <2>2, <2>3, <1>1 DEF CountsAreHistory
  <2>5. breaker.mode = "halfOpen" => breaker.requests + 1 <= MaxRequests
    BY <2>1, <1>3 DEF Admits, BreakerState
  <2>6. breaker.mode # "open"
    BY <2>1 DEF Admits
  <2>7. PeriodsAreKept'
    BY <2>1, <2>3, <2>5, <2>6, <1>1 DEF PeriodsAreKept
  <2> QED
    BY <2>4, <2>7
<1>7. CASE Lapses({c}) \/ Lapses({})
  BY <1>5, <1>7 DEF Lapses
<1>8. CASE c \in Of("waiting") /\ (Recovering \/ Tripping)
  BY <1>5, <1>8 DEF Recovering, Tripping
<1>9. CASE /\ c \in Of("waiting")
           /\ Of("waiting")' = Of("waiting") \ {c}
           /\ Succeeding(c) \/ Failing(c)
  <2>1. c \notin Of("ok") /\ c \notin Of("failed") /\ c \in Members
    BY <1>9 DEF Of, Members
  <2>2. breaker.mode # "open"
    BY <2>1, <1>1 DEF PeriodsAreKept
  <2>3. Members' = Members
    BY <1>9 DEF Members, Succeeding, Failing
  <2>4. CASE Succeeding(c)
    <3>1. /\ breaker'.requests = breaker.requests /\ breaker'.failures = breaker.failures
          /\ breaker'.streak = breaker.streak + 1 /\ breaker'.mode = breaker.mode
      BY <2>4, <1>3 DEF Succeeding, BreakerState
    <3>2. /\ Of("failed")' = Of("failed")
          /\ Cardinality(Of("ok")') = Cardinality(Of("ok")) + 1
          /\ breaker.mode = "halfOpen" => breaker.streak + 1 < MaxRequests
      BY <2>1, <2>4, <1>2, FS_AddElement DEF Succeeding
    <3>3. CountsAreHistory'
      BY <2>3, <3>1, <3>2, <1>1 DEF CountsAreHistory
    <3>4. PeriodsAreKept'
      BY <2>2, <3>1, <3>2, <1>1 DEF PeriodsAreKept
    <3> QED
      BY <3>3, <3>4
  <2>5. CASE Failing(c)
    <3> DEFINE g == [breaker EXCEPT !.failures = @ + 1]
    <3>1. g \in BreakerState /\ g.requests = breaker.requests
          /\ g.failures = breaker.failures + 1 /\ g.mode = breaker.mode
      BY <1>3 DEF BreakerState
    <3>2. breaker' = [g EXCEPT !.streak = 0]
      BY <2>5, <1>3 DEF Failing, BreakerState
    <3>3. /\ breaker'.requests = breaker.requests
          /\ breaker'.failures = breaker.failures + 1 /\ breaker'.mode = breaker.mode
      BY <3>1, <3>2 DEF BreakerState
    <3>4. /\ Cardinality(Of("failed")') = Cardinality(Of("failed")) + 1
          /\ breaker.mode # "halfOpen"
      BY <2>1, <2>5, <1>2, FS_AddElement DEF Failing
    <3>5. CountsAreHistory'
      BY <2>3, <3>3, <3>4, <1>1 DEF CountsAreHistory
    <3>6. PeriodsAreKept'
      BY <2>2, <3>3, <3>4 DEF PeriodsAreKept
    <3> QED
      BY <3>5, <3>6
  <2> QED
    BY <1>9, <2>4, <2>5
<1> QED
  BY <1>6, <1>7, <1>8, <1>9 DEF Moves

LEMMA KeepsKeepsCounts ==
    ASSUME BreakerInv, Keeps
    PROVE  CountsAreHistory' /\ PeriodsAreKept'
<1>1. Members' = Members
  BY DEF Keeps, Members
<1> QED
  BY <1>1 DEF Keeps, BreakerInv, CountsAreHistory, PeriodsAreKept

\* The failure that opens a closed circuit is the third of its generation.
LEMMA TrippingIsEarned ==
    ASSUME BreakerInv, NEW c \in Of("waiting"), breaker.failures + 1 >= 3,
           ticket' = ticket, verdict'[c] = "failed",
           \A d \in Calls : d # c => verdict'[d] = verdict[d]
    PROVE  Earned'
<1> DEFINE G == {d \in Calls : ticket'[d] = ticket'[c] /\ verdict'[d] = "failed"}
<1>1. G = Of("failed") \cup {c} /\ c \in Calls /\ c \notin Of("failed")
  BY DEF Of
<1>2. IsFiniteSet(Of("failed")) /\ Cardinality(Of("failed")) \in Nat
  BY OfIsFinite, FS_CardinalityType
<1>3. Cardinality(G) = Cardinality(Of("failed")) + 1
  BY <1>1, <1>2, FS_AddElement
<1>4. breaker.failures = Cardinality(Of("failed"))
  BY DEF BreakerInv, CountsAreHistory
<1> QED
  BY <1>1, <1>3, <1>4 DEF Earned

LEMMA EnterInv ==
    ASSUME BreakerInv, NEW c \in Calls, Enter(c)
    PROVE  BreakerInv'
<1>1. /\ BreakerTypeOK /\ TicketsAreOld /\ OpeningIsEarned /\ RefusalsAreEarned
      /\ breaker \in BreakerState
  BY DEF BreakerInv, BreakerTypeOK
<1>2. /\ BreakerTypeOK'
      /\ \A d \in Calls : d # c => ticket'[d] = ticket[d] /\ verdict'[d] = verdict[d]
      /\ verdict[c] = "none"
      /\ \/ Admitting(c) /\ verdict'[c] = "waiting" /\ ticket'[c] = breaker.generation
         \/ Lapses({c}) /\ verdict'[c] = "waiting" /\ ticket'[c] = breaker'.generation
         \/ /\ Keeps
            /\ breaker.mode # "closed"
            /\ verdict'[c] \in Refusals
            /\ ticket'[c] = ticket[c]
  BY EnterEffect
<1>3. CountsAreHistory' /\ PeriodsAreKept'
  BY <1>2, MovesKeepCounts, KeepsKeepsCounts DEF Moves
<1>4. ASSUME Earned PROVE Earned'
  BY <1>1, <1>2, <1>4, EarnedIsKept DEF BreakerTypeOK
<1>5. \/ /\ breaker'.generation = breaker.generation
         /\ breaker'.mode = breaker.mode
      \/ /\ breaker'.generation = breaker.generation + 1
         /\ breaker.mode = "closed" => breaker'.mode = "closed"
  BY <1>1, <1>2 DEF Admitting, Lapses, StartsWith, Keeps, BreakerState
<1>6. OpeningIsEarned'
  BY <1>1, <1>4, <1>5 DEF OpeningIsEarned
<1>7. RefusalsAreEarned'
  <2>1. CASE verdict'[c] \in Refusals
    BY <2>1, <1>1, <1>2, <1>4 DEF RefusalsAreEarned, OpeningIsEarned, Refusals
  <2>2. CASE verdict'[c] \notin Refusals
    BY <2>2, <1>1, <1>2, <1>4 DEF RefusalsAreEarned
  <2> QED
    BY <2>1, <2>2
<1>8. TicketsAreOld'
  <2>1. /\ breaker.generation \in Nat /\ breaker'.generation \in Nat
        /\ \A d \in Calls : ticket[d] \in Nat /\ ticket'[d] \in Nat
    BY <1>1, <1>2 DEF BreakerTypeOK, BreakerState
  <2>2. ticket'[c] <= breaker'.generation
    BY <2>1, <1>1, <1>2, <1>5 DEF TicketsAreOld, Keeps
  <2>3. verdict'[c] = "none" \/ verdict'[c] \in Refusals => ticket'[c] = 0
    BY <1>1, <1>2 DEF TicketsAreOld, Refusals
  <2> QED
    BY <2>1, <2>2, <2>3, <1>1, <1>2, <1>5 DEF TicketsAreOld
<1> QED
  BY <1>2, <1>3, <1>6, <1>7, <1>8 DEF BreakerInv

LEMMA LeaveInv ==
    ASSUME BreakerInv, NEW c \in Calls, NEW success \in BOOLEAN, Leave(c, success)
    PROVE  BreakerInv'
<1>1. /\ BreakerTypeOK /\ TicketsAreOld /\ OpeningIsEarned /\ RefusalsAreEarned
      /\ breaker \in BreakerState
  BY DEF BreakerInv, BreakerTypeOK
<1>2. /\ BreakerTypeOK'
      /\ \A d \in Calls : d # c => verdict'[d] = verdict[d]
      /\ ticket' = ticket
      /\ verdict[c] = "waiting"
      /\ verdict'[c] = IF success THEN "ok" ELSE "failed"
      /\ \/ Keeps
         \/ Lapses({})
         \/ c \in Of("waiting") /\ Recovering
         \/ c \in Of("waiting") /\ ~success /\ Tripping
         \/ /\ c \in Of("waiting")
            /\ Of("waiting")' = Of("waiting") \ {c}
            /\ Succeeding(c) \/ Failing(c)
  BY LeaveEffect
<1>3. CountsAreHistory' /\ PeriodsAreKept'
  BY <1>2, MovesKeepCounts, KeepsKeepsCounts DEF Moves
<1>4. ASSUME Earned PROVE Earned'
  BY <1>1, <1>2, <1>4, EarnedIsKept DEF BreakerTypeOK
<1>5. ASSUME Succeeding(c) \/ Failing(c)
      PROVE  breaker'.generation = breaker.generation /\ breaker'.mode = breaker.mode
  <2>1. CASE Succeeding(c)
    BY <2>1, <1>1 DEF Succeeding, BreakerState
  <2>2. CASE Failing(c)
    <3> DEFINE g == [breaker EXCEPT !.failures = @ + 1]
    <3>1. g \in BreakerState /\ g.generation = breaker.generation /\ g.mode = breaker.mode
      BY <1>1 DEF BreakerState
    <3>2. breaker' = [g EXCEPT !.streak = 0]
      BY <2>2, <1>1 DEF Failing, BreakerState
    <3> QED
      BY <3>1, <3>2 DEF BreakerState
  <2> QED
    BY <2>1, <2>2, <1>5
<1>6. breaker'.generation \in {breaker.generation, breaker.generation + 1}
  BY <1>2, <1>5 DEF Keeps, Lapses, StartsWith, Recovering, Tripping
<1>7. OpeningIsEarned'
  <2>1. CASE c \in Of("waiting") /\ ~success /\ Tripping /\ breaker.mode # "halfOpen"
    BY <2>1, <1>2, TrippingIsEarned DEF Tripping, OpeningIsEarned
  <2>2. CASE ~(c \in Of("waiting") /\ ~success /\ Tripping /\ breaker.mode # "halfOpen")
    BY <2>2, <1>1, <1>2, <1>4, <1>5
    DEF Keeps, Lapses, Recovering, Tripping, OpeningIsEarned
  <2> QED
    BY <2>1, <2>2
<1>8. RefusalsAreEarned'
  BY <1>1, <1>2, <1>4 DEF RefusalsAreEarned, Refusals
<1>9. TicketsAreOld'
  <2>1. /\ breaker.generation \in Nat /\ \A d \in Calls : ticket[d] \in Nat
    BY <1>1 DEF BreakerTypeOK, BreakerState
  <2>2. verdict'[c] # "none" /\ verdict'[c] \notin Refusals
    BY <1>2 DEF Refusals
  <2> QED
    BY <2>1, <2>2, <1>1, <1>2, <1>6 DEF TicketsAreOld
<1> QED
  BY <1>2, <1>3, <1>7, <1>8, <1>9 DEF BreakerInv

LEMMA TickInv ==
    ASSUME BreakerInv, BreakerTick
    PROVE  BreakerInv'
<1>1. Keeps /\ BreakerTypeOK' /\ ticket' = ticket /\ verdict' = verdict
  BY TickEffect DEF BreakerInv, BreakerTick
<1>2. CountsAreHistory' /\ PeriodsAreKept'
  BY <1>1, KeepsKeepsCounts
<1>3. TicketsAreOld' /\ OpeningIsEarned' /\ RefusalsAreEarned'
  BY <1>1 DEF Keeps, BreakerInv, TicketsAreOld, OpeningIsEarned, RefusalsAreEarned, Earned
<1> QED
  BY <1>1, <1>2, <1>3 DEF BreakerInv

\* Every state of the breaker satisfies the inductive invariant.
THEOREM BreakerInvariance == BreakerSpec => []BreakerInv
<1>1. BreakerInit => BreakerInv
  BY InitInv
<1>2. BreakerInv /\ [BreakerNext]_breakerVars => BreakerInv'
  <2>1. ASSUME BreakerInv, UNCHANGED breakerVars PROVE BreakerInv'
    BY <2>1 DEF breakerVars, BreakerInv, BreakerTypeOK, CountsAreHistory, TicketsAreOld,
        PeriodsAreKept, OpeningIsEarned, RefusalsAreEarned, Earned, Members, Of
  <2> QED
    BY <2>1, TickInv, EnterInv, LeaveInv DEF BreakerNext
<1> QED
  BY <1>1, <1>2, PTL DEF BreakerSpec

\* The breaker, the tickets and the verdicts keep their types (gobreaker's
\* counters never go below zero).
THEOREM BreakerTypeCorrect == BreakerSpec => []BreakerTypeOK
BY BreakerInvariance, PTL DEF BreakerInv

\* The counters of gobreaker are the history of the calls of one generation,
\* whatever answers come late (the generation check of afterRequest).
THEOREM CountersTellHistory == BreakerSpec => []CountsAreHistory
BY BreakerInvariance, PTL DEF BreakerInv

\* A call is turned away only after three failures of one interval
\* (breaker.go:20-27).
THEOREM RefusalsFollowFailures == BreakerSpec => []RefusalsAreEarned
BY BreakerInvariance, PTL DEF BreakerInv

\* A half-open circuit is tried out by MaxRequests calls at most (breaker.go:19).
THEOREM OneProbeAtATime == BreakerSpec => []SingleProbe
<1>1. BreakerInv => SingleProbe
  <2> SUFFICES ASSUME BreakerInv, breaker.mode = "halfOpen"
               PROVE  Cardinality(Of("waiting")) <= MaxRequests
    BY DEF SingleProbe
  <2>1. Cardinality(Members) <= MaxRequests
    BY DEF BreakerInv, CountsAreHistory, PeriodsAreKept
  <2>2. Of("waiting") \subseteq Members
    BY DEF Members
  <2>3. IsFiniteSet(Members) /\ IsFiniteSet(Of("waiting"))
    BY OfIsFinite
  <2>4. /\ Cardinality(Of("waiting")) <= Cardinality(Members)
        /\ Cardinality(Of("waiting")) \in Nat /\ Cardinality(Members) \in Nat
    BY <2>2, <2>3, FS_Subset, FS_CardinalityType
  <2> QED
    BY <2>1, <2>4
<1> QED
  BY <1>1, BreakerInvariance, PTL
-----------------------------------------------------------------------------
(* The refinement.                                                         *)

LEMMA InitRefines ==
    ASSUME BreakerInit
    PROVE  Contract!ContractInit
BY DEF BreakerInit, Of, Contract!ContractInit

LEMMA KeepsStutters ==
    ASSUME Keeps
    PROVE  UNCHANGED Contract!contractVars
BY DEF Keeps, Contract!contractVars

\* The two modules count alike.
LEMMA SameCardinality ==
    ASSUME NEW S
    PROVE  Contract!Cardinality(S) = Cardinality(S)
BY DEF Cardinality, Contract!Cardinality

LEMMA LapseRefines ==
    ASSUME NEW c \in Calls, Lapses({c}) \/ Lapses({})
    PROVE  Contract!ContractNext
BY DEF Lapses, StartsWith, Contract!ContractNext, Contract!AdmitAfterLapse, Contract!Lapse,
    Contract!NewPeriod, Contract!NextMode

LEMMA EnterRefines ==
    ASSUME BreakerInv, NEW c \in Calls, Enter(c)
    PROVE  [Contract!ContractNext]_Contract!contractVars
<1>1. Admitting(c) \/ Lapses({c}) \/ Keeps
  BY EnterEffect
<1>2. CASE Admitting(c)
  <2>1. breaker \in BreakerState /\ breaker.requests = Cardinality(Members)
    BY DEF BreakerInv, BreakerTypeOK, CountsAreHistory
  <2>2. Contract!Admitted = Members
    BY DEF Contract!Admitted, Members
  <2>3. breaker'.mode = breaker.mode
    BY <1>2, <2>1 DEF Admitting, BreakerState
  <2>4. Contract!Admit(c)
    BY <1>2, <2>1, <2>2, <2>3, SameCardinality DEF Admitting, Admits, Contract!Admit
  <2> QED
    BY <2>4 DEF Contract!ContractNext
<1> QED
  BY <1>1, <1>2, LapseRefines, KeepsStutters

LEMMA LeaveRefines ==
    ASSUME BreakerInv, NEW c \in Calls, NEW success \in BOOLEAN, Leave(c, success)
    PROVE  [Contract!ContractNext]_Contract!contractVars
<1>1. breaker \in BreakerState /\ CountsAreHistory /\ PeriodsAreKept
  BY DEF BreakerInv, BreakerTypeOK
<1>2. \A o : IsFiniteSet(Of(o)) /\ Cardinality(Of(o)) \in Nat
  BY OfIsFinite, FS_CardinalityType
<1>3. \/ Keeps
      \/ Lapses({})
      \/ c \in Of("waiting") /\ Recovering
      \/ c \in Of("waiting") /\ Tripping
      \/ /\ c \in Of("waiting")
         /\ Of("waiting")' = Of("waiting") \ {c}
         /\ Succeeding(c) \/ Failing(c)
  BY LeaveEffect
<1>4. c \in Of("waiting") => c \notin Of("ok") /\ c \notin Of("failed")
  BY DEF Of
<1>5. CASE c \in Of("waiting") /\ Recovering
  <2>1. Cardinality(Of("ok") \cup {c}) = Cardinality(Of("ok")) + 1
    BY <1>2, <1>4, <1>5, FS_AddElement
  <2>2. Cardinality(Of("ok") \cup {c}) = MaxRequests
    BY <2>1, <1>1, <1>2, <1>5 DEF Recovering, PeriodsAreKept
  <2>3. Contract!Recover(c)
    BY <2>2, <1>5, SameCardinality DEF Recovering, StartsWith, Contract!Recover, Contract!NewPeriod
  <2> QED
    BY <2>3 DEF Contract!ContractNext
<1>6. CASE c \in Of("waiting") /\ Tripping
  <2>1. Cardinality(Of("failed") \cup {c}) = Cardinality(Of("failed")) + 1
    BY <1>2, <1>4, <1>6, FS_AddElement
  <2>2. breaker.mode # "halfOpen" => Cardinality(Of("failed") \cup {c}) >= 3
    BY <2>1, <1>1, <1>6 DEF Tripping, CountsAreHistory
  <2>3. Contract!Trip(c)
    BY <2>2, <1>6, SameCardinality DEF Tripping, StartsWith, Contract!Trip, Contract!NewPeriod
  <2> QED
    BY <2>3 DEF Contract!ContractNext
<1>7. CASE /\ c \in Of("waiting")
           /\ Of("waiting")' = Of("waiting") \ {c}
           /\ Succeeding(c)
  <2>1. breaker'.mode = breaker.mode
    BY <1>1, <1>7 DEF Succeeding, BreakerState
  <2>2. Contract!Succeed(c)
    BY <2>1, <1>7 DEF Succeeding, Contract!Succeed
  <2> QED
    BY <2>2 DEF Contract!ContractNext
<1>8. CASE /\ c \in Of("waiting")
           /\ Of("waiting")' = Of("waiting") \ {c}
           /\ Failing(c)
  <2>1. breaker.mode = "closed"
    BY <1>1, <1>8 DEF Failing, PeriodsAreKept, Members, BreakerState
  <2> DEFINE g == [breaker EXCEPT !.failures = @ + 1]
  <2>2. g \in BreakerState /\ g.mode = breaker.mode
    BY <1>1 DEF BreakerState
  <2>3. breaker' = [g EXCEPT !.streak = 0]
    BY <1>8, <1>1 DEF Failing, BreakerState
  <2>4. breaker'.mode = breaker.mode
    BY <2>2, <2>3 DEF BreakerState
  <2>5. Contract!Fail(c)
    BY <2>1, <2>4, <1>8 DEF Failing, Contract!Fail
  <2> QED
    BY <2>5 DEF Contract!ContractNext
<1> QED
  BY <1>3, <1>5, <1>6, <1>7, <1>8, LapseRefines, KeepsStutters

\* The breaker of the code implements its contract: every step of gobreaker is
\* one step of BreakerContract or leaves its state alone.
THEOREM BreakerImplementsContract == BreakerSpec => ImplementsContract
<1>1. BreakerInit => Contract!ContractInit
  BY InitRefines
<1>2. BreakerInv /\ [BreakerNext]_breakerVars => [Contract!ContractNext]_Contract!contractVars
  <2>1. ASSUME UNCHANGED breakerVars PROVE UNCHANGED Contract!contractVars
    BY <2>1 DEF breakerVars, Of, Contract!contractVars
  <2>2. ASSUME BreakerInv, BreakerTick PROVE UNCHANGED Contract!contractVars
    BY <2>2, TickEffect, KeepsStutters DEF BreakerInv
  <2> QED
    BY <2>1, <2>2, EnterRefines, LeaveRefines DEF BreakerNext
<1> QED
  BY <1>1, <1>2, BreakerInvariance, PTL DEF BreakerSpec, ImplementsContract, Contract!ContractSpec
=============================================================================

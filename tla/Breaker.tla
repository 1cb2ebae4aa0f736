------------------------------- MODULE Breaker -------------------------------
(***************************************************************************)
(* The circuit breaker "product-db-query": gobreaker v1.0.0 with the       *)
(* settings of pkg/resiliency/breaker.go, as GetAll uses it.  The library  *)
(* takes its lock twice for a call of Execute, before and after the call;  *)
(* everything the calls do in between interleaves.                         *)
(***************************************************************************)
EXTENDS Integers, FiniteSets

CONSTANTS
    Calls,         \* the calls of Execute; each goroutine makes one (a bound)
    MaxRequests,   \* Settings.MaxRequests: 1 in the code
    Interval,      \* Settings.Interval, in ticks: 60 seconds
    Timeout        \* Settings.Timeout, in ticks: 30 seconds

ASSUME CallsAssumption == IsFiniteSet(Calls)
ASSUME MaxRequestsAssumption == MaxRequests \in Nat \ {0}
ASSUME IntervalAssumption == Interval \in Nat \ {0}
ASSUME TimeoutAssumption == Timeout \in Nat \ {0}

VARIABLES
    breaker,   \* the fields of the CircuitBreaker
    ticket,    \* the generation beforeRequest gave to a call
    verdict    \* what has become of a call

breakerVars == <<breaker, ticket, verdict>>

\* left: the ticks until expiry, 0 when it has passed (and while half-open).
BreakerState ==
    [mode : {"closed", "halfOpen", "open"}, generation : Nat, requests : Nat,
     failures : Nat, streak : Nat, left : Nat]
Refusals == {"ErrOpenState", "ErrTooManyRequests"}
Verdicts == {"none", "waiting", "ok", "failed"} \cup Refusals

BreakerTypeOK ==
    /\ breaker \in BreakerState
    /\ ticket \in [Calls -> Nat]
    /\ verdict \in [Calls -> Verdicts]

\* Mutant of Generation: the counts survive a change of state.
GenerationKeepingCounts(b, mode) ==
    [b EXCEPT !.mode = mode, !.generation = @ + 1,
              !.left = IF mode = "closed" THEN Interval ELSE IF mode = "open" THEN Timeout ELSE 0]

\* toNewGeneration: the counts are cleared and the expiry is set anew.
Generation(b, mode) ==
    [mode |-> mode, generation |-> b.generation + 1,
     requests |-> 0, failures |-> 0, streak |-> 0,
     left |-> IF mode = "closed" THEN Interval ELSE IF mode = "open" THEN Timeout ELSE 0]

BreakerInit ==
    /\ breaker = [mode |-> "closed", generation |-> 1,
                  requests |-> 0, failures |-> 0, streak |-> 0, left |-> Interval]
    /\ ticket = [c \in Calls |-> 0]
    /\ verdict = [c \in Calls |-> "none"]

\* currentState: an expiry that has passed is noticed by the next call only.
Current(b) ==
    CASE b.left > 0 \/ b.mode = "halfOpen" -> b
      [] b.left = 0 /\ b.mode = "closed" -> Generation(b, "closed")
      [] b.left = 0 /\ b.mode = "open" -> Generation(b, "halfOpen")

\* Mutant of Admits: half-open lets every call through.
AdmitsAll(b) == b.mode # "open"

Admits(b) == b.mode = "closed" \/ (b.mode = "halfOpen" /\ b.requests < MaxRequests)

\* beforeRequest.
Enter(c) ==
    LET b == Current(breaker) IN
    /\ verdict[c] = "none"
    /\ \/ /\ Admits(b)
          /\ breaker' = [b EXCEPT !.requests = @ + 1]
          /\ ticket' = [ticket EXCEPT ![c] = b.generation]
          /\ verdict' = [verdict EXCEPT ![c] = "waiting"]
       \/ /\ ~Admits(b)
          /\ breaker' = b
          /\ verdict' = [verdict EXCEPT ![c] =
                IF b.mode = "open" THEN "ErrOpenState" ELSE "ErrTooManyRequests"]
          /\ UNCHANGED ticket

\* Mutant of ReadyToTrip: a ratio of failures without a minimum of them.
ReadyToTripOnRatio(b) == 10 * b.failures >= 6 * b.requests

\* Settings.ReadyToTrip.  The comment asks for more than 60% of at least five
\* requests; the code takes three.
ReadyToTrip(b) ==
    /\ b.requests >= 3
    /\ b.failures >= 3
    /\ 10 * b.failures >= 6 * b.requests

OnSuccess(b) ==
    LET s == [b EXCEPT !.streak = @ + 1]
    IN  IF b.mode = "halfOpen" /\ s.streak >= MaxRequests THEN Generation(b, "closed") ELSE s

OnFailure(b) ==
    LET f == [b EXCEPT !.failures = @ + 1, !.streak = 0]
    IN  IF b.mode = "halfOpen" \/ ReadyToTrip(f) THEN Generation(b, "open") ELSE f

\* Mutant of Counts: the answer of an older generation counts as well.
CountsAlways(c, b) == ticket[c] <= b.generation

Counts(c, b) == ticket[c] = b.generation

\* afterRequest.
Leave(c, success) ==
    LET b == Current(breaker) IN
    /\ verdict[c] = "waiting"
    /\ breaker' = IF ~Counts(c, b) THEN b
                  ELSE IF success THEN OnSuccess(b) ELSE OnFailure(b)
    /\ verdict' = [verdict EXCEPT ![c] = IF success THEN "ok" ELSE "failed"]
    /\ UNCHANGED ticket

\* Mutant of Elapse: the expiry runs on below zero.
ElapseForEver == breaker' = [breaker EXCEPT !.left = @ - 1]

\* A tick of the clock.
Elapse == breaker' = [breaker EXCEPT !.left = IF @ > 0 THEN @ - 1 ELSE 0]

BreakerTick == Elapse /\ UNCHANGED <<ticket, verdict>>

BreakerNext ==
    \/ BreakerTick
    \/ \E c \in Calls : Enter(c) \/ \E success \in BOOLEAN : Leave(c, success)

BreakerSpec == BreakerInit /\ [][BreakerNext]_breakerVars
-----------------------------------------------------------------------------
(* Properties.                                                             *)

\* The calls that the current generation admitted, by their outcome.
Of(outcome) ==
    {c \in Calls : verdict[c] = outcome /\ ticket[c] = breaker.generation}

Members == Of("waiting") \cup Of("ok") \cup Of("failed")

\* The counters tell the history of the calls admitted since the last change
\* of state or interval, and of no others: answers that arrive late, of a
\* generation that is over, are in none of them (generation check of
\* afterRequest), so three failures in breaker.go:26 are three calls of one
\* interval.
CountsAreHistory ==
    /\ breaker.requests = Cardinality(Members)
    /\ breaker.failures = Cardinality(Of("failed"))

\* While the circuit is half-open no more calls than MaxRequests are trying it
\* out, however many arrive at once and however many old ones are still out.
SingleProbe ==
    breaker.mode = "halfOpen" => Cardinality(Of("waiting")) <= MaxRequests

\* Three calls that one and the same generation admitted have failed.
Earned ==
    \E d \in Calls :
        Cardinality({c \in Calls : ticket[c] = ticket[d] /\ verdict[c] = "failed"}) >= 3

\* Nobody is turned away, with 503 or as one too many beside a probe, unless
\* three queries of one interval had failed: failures spread over several
\* intervals, or told late, do not add up (breaker.go:20 and :26).
RefusalsAreEarned ==
    (\E c \in Calls : verdict[c] \in Refusals) => Earned

\* The breaker is the contract: its periods are the generations.
Contract == INSTANCE BreakerContract WITH
    MaxProbes <- MaxRequests,
    MinFailures <- 3,
    mode <- breaker.mode,
    inside <- Of("waiting"),
    passed <- Of("ok"),
    failed <- Of("failed")
ImplementsContract == Contract!ContractSpec
-----------------------------------------------------------------------------
(* The inductive invariant behind the theorems of BreakerProofs.           *)

\* No ticket is from the future, and a call without one was not admitted.
TicketsAreOld ==
    /\ breaker.generation > 0
    /\ \A c \in Calls : ticket[c] <= breaker.generation
    /\ \A c \in Calls : verdict[c] = "none" \/ verdict[c] \in Refusals => ticket[c] = 0

\* An open circuit has admitted nobody; a half-open one holds its probes, of
\* which all that answered have succeeded.
PeriodsAreKept ==
    /\ breaker.mode = "open" => Members = {}
    /\ breaker.mode = "halfOpen" =>
        /\ Of("failed") = {}
        /\ breaker.requests <= MaxRequests
        /\ breaker.streak = Cardinality(Of("ok"))
        /\ breaker.streak < MaxRequests

OpeningIsEarned == breaker.mode # "closed" => Earned

BreakerInv ==
    /\ BreakerTypeOK
    /\ CountsAreHistory
    /\ TicketsAreOld
    /\ PeriodsAreKept
    /\ OpeningIsEarned
    /\ RefusalsAreEarned
=============================================================================

--------------------------- MODULE BreakerContract ---------------------------
(***************************************************************************)
(* What the circuit breaker of pkg/resiliency/breaker.go promises to the   *)
(* calls it guards, without counters, generations or clocks: the life of   *)
(* the breaker falls into periods; the answer of a call counts in the      *)
(* period that admitted it and in no other; only enough failures of one    *)
(* period open the circuit; and an open circuit is tried out by a limited  *)
(* number of probes, whose answers decide.  Breaker implements this.       *)
(***************************************************************************)
EXTENDS Naturals, FiniteSets

CONSTANTS Calls,         \* the calls of Execute
          MaxProbes,     \* how many of them try out an open circuit
          MinFailures    \* no fewer failures open it

VARIABLES mode,          \* "closed", "halfOpen" or "open"
          inside,        \* calls admitted in this period, not answered yet
          passed,        \* calls of this period that succeeded
          failed         \* calls of this period that failed

contractVars == <<mode, inside, passed, failed>>

Admitted == inside \cup passed \cup failed

ContractInit ==
    /\ mode = "closed"
    /\ inside = {}
    /\ passed = {}
    /\ failed = {}

\* A period in the given mode, with the given calls admitted so far.
NewPeriod(m, calls) ==
    /\ mode' = m
    /\ inside' = calls
    /\ passed' = {}
    /\ failed' = {}

\* The period that follows when a closed or open one has lasted long enough.
NextMode == IF mode = "closed" THEN "closed" ELSE "halfOpen"

Admit(c) ==
    /\ \/ mode = "closed"
       \/ mode = "halfOpen" /\ Cardinality(Admitted) < MaxProbes
    /\ c \notin Admitted
    /\ inside' = inside \cup {c}
    /\ UNCHANGED <<mode, passed, failed>>

AdmitAfterLapse(c) ==
    /\ mode # "halfOpen"
    /\ NewPeriod(NextMode, {c})

Lapse ==
    /\ mode # "halfOpen"
    /\ NewPeriod(NextMode, {})

Succeed(c) ==
    /\ c \in inside
    /\ inside' = inside \ {c}
    /\ passed' = passed \cup {c}
    /\ UNCHANGED <<mode, failed>>

Recover(c) ==
    /\ mode = "halfOpen"
    /\ c \in inside
    /\ Cardinality(passed \cup {c}) = MaxProbes
    /\ NewPeriod("closed", {})

Fail(c) ==
    /\ mode = "closed"
    /\ c \in inside
    /\ inside' = inside \ {c}
    /\ failed' = failed \cup {c}
    /\ UNCHANGED <<mode, passed>>

\* A failure opens the circuit: in the closed state only as one of enough.
Trip(c) ==
    /\ c \in inside
    /\ mode = "closed" => Cardinality(failed \cup {c}) >= MinFailures
    /\ NewPeriod("open", {})

ContractNext ==
    \/ Lapse
    \/ \E c \in Calls :
        \/ Admit(c) \/ AdmitAfterLapse(c)
        \/ Succeed(c) \/ Recover(c) \/ Fail(c) \/ Trip(c)

ContractSpec == ContractInit /\ [][ContractNext]_contractVars
=============================================================================

------------------------------ MODULE Lifecycle ------------------------------
(***************************************************************************)
(* The life of one API process, as main.go writes it: the connections it   *)
(* makes, its two servers, the signal that stops it, http.Server.Shutdown  *)
(* with its deadline, and the closing of the connections, first the one    *)
(* main closes itself and then the deferred ones, last one first.          *)
(* The gRPC server is never told to stop.                                  *)
(***************************************************************************)
EXTENDS Integers, Sequences

CONSTANTS
    HttpRequests,   \* the requests on port 8080 (a bound)
    GrpcRequests,   \* the requests on port 50051 (a bound)
    Deadline        \* the ticks that Shutdown is given: 10 seconds

ASSUME ProtocolsAssumption == HttpRequests \cap GrpcRequests = {}
ASSUME DeadlineAssumption == Deadline \in Nat

VARIABLES
    main,    \* where main is
    open,    \* the connections that are open
    http,    \* the HTTP server
    grpc,    \* the gRPC server
    left,    \* what is left of the deadline
    state,   \* where a request is
    calls,   \* the connections it has yet to use
    met      \* the connections it found closed

serverVars == <<main, open, http, grpc, left>>
requestVars == <<state, calls, met>>
vars == <<serverVars, requestVars>>

Requests == HttpRequests \cup GrpcRequests
Connections == {"redis", "kafka", "postgres"}
Ended == {"quiet", "noisy", "fatal", "killed"}

TypeOK ==
    /\ main \in {"boot", "starting", "serving", "shutdown", "tracer"} \cup Connections \cup Ended
    /\ open \subseteq Connections
    /\ http \in {"starting", "listening", "closed"}
    /\ grpc \in {"starting", "listening"}
    /\ left \in 0..Deadline
    /\ state \in [Requests -> {"new", "running", "answered"}]
    /\ calls \in [Requests -> Seq(Connections)]
    /\ met \in [Requests -> SUBSET Connections]

Init ==
    /\ main = "boot"
    /\ open = {}
    /\ http = "starting"
    /\ grpc = "starting"
    /\ left = Deadline
    /\ state = [r \in Requests |-> "new"]
    /\ calls = [r \in Requests |-> << >>]
    /\ met = [r \in Requests |-> {}]
-----------------------------------------------------------------------------
(* The process.                                                            *)

Alive == main \notin Ended

\* Every part is made or log.Fatal ends the process, whose deferred calls are
\* skipped then.
Boot ==
    /\ main = "boot"
    /\ \/ main' = "starting" /\ open' = Connections
       \/ main' = "fatal" /\ UNCHANGED open
    /\ UNCHANGED <<http, grpc, left, requestVars>>

\* signal.Notify, after the servers are on their way.
Notify ==
    /\ main = "starting"
    /\ main' = "serving"
    /\ UNCHANGED <<open, http, grpc, left, requestVars>>

\* The goroutine of a server gets its port, or takes the process with it.
ListenGrpc ==
    /\ Alive /\ main # "boot"
    /\ grpc = "starting"
    /\ \/ grpc' = "listening" /\ UNCHANGED main
       \/ main' = "fatal" /\ UNCHANGED grpc
    /\ UNCHANGED <<open, http, left, requestVars>>

\* A server that was shut down before it listened does not listen any more.
ListenHttp ==
    /\ Alive /\ main # "boot"
    /\ http = "starting"
    /\ \/ http' = "listening" /\ UNCHANGED main
       \/ main' = "fatal" /\ UNCHANGED http
    /\ UNCHANGED <<open, grpc, left, requestVars>>

\* A server that listens may fail later, when it accepts, and takes the process
\* with it; one that was shut down returns ErrServerClosed.
ServerFails ==
    /\ Alive
    /\ "listening" \in {http, grpc}
    /\ main' = "fatal"
    /\ UNCHANGED <<open, http, grpc, left, requestVars>>

\* Mutant of After: the connections go first, then the server is shut down.
AfterClosingFirst ==
    [serving |-> "redis", redis |-> "kafka", kafka |-> "postgres", postgres |-> "shutdown",
     shutdown |-> "tracer"]

\* What main does next: rdb.Close, then the deferred kafkaProducer.Close and
\* db.Close, and the shutdown of the tracer.
After ==
    [serving |-> "shutdown", shutdown |-> "redis", redis |-> "kafka", kafka |-> "postgres",
     postgres |-> "tracer"]

\* SIGTERM: before Notify it kills; the channel holds one, and only one is
\* received.
Terminate ==
    /\ main \in {"boot", "starting", "serving"}
    /\ IF main = "serving"
       THEN main' = After[main] /\ http' = "closed"
       ELSE main' = "killed" /\ UNCHANGED http
    /\ UNCHANGED <<open, grpc, left, requestVars>>

Drained == \A r \in HttpRequests : state[r] # "running"

\* Mutant of TimedOut: context.Background() without a timeout.
TimedOutNever == left < 0

TimedOut == left = 0

\* Shutdown returns once the HTTP requests are through, or at the deadline.
ShutdownReturns ==
    /\ main = "shutdown"
    /\ Drained \/ TimedOut
    /\ main' = After[main]
    /\ UNCHANGED <<open, http, grpc, left, requestVars>>

\* Mutant of Remaining: a deadline that runs on.
RemainingBelowZero(ticks) == ticks - 1

Remaining(ticks) == IF ticks = 0 THEN 0 ELSE ticks - 1

Tick ==
    /\ main = "shutdown"
    /\ left' = Remaining(left)
    /\ UNCHANGED <<main, open, http, grpc, requestVars>>

Close(c) ==
    /\ main = c
    /\ open' = open \ {c}
    /\ main' = After[c]
    /\ UNCHANGED <<http, grpc, left, requestVars>>

\* The last spans are sent, or that ends in log.Fatalf; main returns.
StopTracer ==
    /\ main = "tracer"
    /\ main' \in {"quiet", "noisy"}
    /\ UNCHANGED <<open, http, grpc, left, requestVars>>
-----------------------------------------------------------------------------
(* The requests.                                                           *)

\* The connections a request uses.  A read goes to the cache, to the table and
\* back to the cache; a write to the table, the cache and the topic; a checkout to
\* the table and the topic.  PUT and DELETE write what they have read, from the
\* cache or from the table.  Over gRPC there are only reads.
Uses(r) ==
    LET read == <<"redis", "postgres", "redis">>
        write == <<"postgres", "redis", "kafka">>
    IN  {read} \cup IF r \in GrpcRequests THEN {}
                    ELSE {write, <<"redis">> \o write, read \o write, <<"postgres", "kafka">>}

Begin(r) ==
    /\ Alive
    /\ state[r] = "new"
    /\ (IF r \in HttpRequests THEN http ELSE grpc) = "listening"
    /\ state' = [state EXCEPT ![r] = "running"]
    /\ \E u \in Uses(r) : calls' = [calls EXCEPT ![r] = u]
    /\ UNCHANGED <<serverVars, met>>

\* A call.  A closed Redis is like a failing one, and the request goes on; a
\* closed database or producer ends it, and so may every answer.
Use(r) ==
    LET c == Head(calls[r]) IN
    /\ Alive
    /\ state[r] = "running"
    /\ calls[r] # << >>
    /\ met' = [met EXCEPT ![r] = @ \cup ({c} \ open)]
    /\ \/ calls' = [calls EXCEPT ![r] = << >>]
       \/ c \in open \cup {"redis"} /\ calls' = [calls EXCEPT ![r] = Tail(@)]
    /\ UNCHANGED <<serverVars, state>>

Answer(r) ==
    /\ Alive
    /\ state[r] = "running"
    /\ calls[r] = << >>
    /\ state' = [state EXCEPT ![r] = "answered"]
    /\ UNCHANGED <<serverVars, calls, met>>
-----------------------------------------------------------------------------
Next ==
    \/ Boot \/ Notify \/ ListenGrpc \/ ListenHttp \/ ServerFails \/ Terminate
    \/ ShutdownReturns \/ Tick \/ StopTracer
    \/ \E c \in Connections : Close(c)
    \/ \E r \in Requests : Begin(r) \/ Use(r) \/ Answer(r)

Spec == Init /\ [][Next]_vars

\* The goroutine of main is scheduled and the clock runs.  Nothing is assumed
\* of the requests: a handler may hang.
FairSpec ==
    /\ Spec
    /\ WF_vars(ShutdownReturns)
    /\ WF_vars(Tick)
    /\ WF_vars(StopTracer)
    /\ \A c \in Connections : WF_vars(Close(c))
-----------------------------------------------------------------------------
(* Properties.                                                             *)

\* A request that the end of the process cut off, or that met a connection
\* which main had closed: a checkout without its message, a sale without its
\* invoice.
CutOff(r) == met[r] # {} \/ (state[r] = "running" /\ main \in Ended)

\* "Server mati dengan tenang" (main.go:238): only the gRPC requests and those
\* that outlast the deadline of Shutdown are cut off, unless the process is
\* killed before Notify or by the goroutine of a server.
HttpRequestsAreServed ==
    \A r \in HttpRequests : CutOff(r) => left = 0 \/ main \in {"killed", "fatal"}

\* Once it is told to stop the process ends, also when a handler hangs
\* (context.WithTimeout, main.go:230).
StopsWhenTold == main = "shutdown" ~> main \in Ended
-----------------------------------------------------------------------------
(* The inductive invariant behind the theorems of LifecycleProofs.         *)

\* The states of main in which it has been told to stop.
Stopping == {"shutdown", "tracer", "quiet", "noisy"} \cup Connections

\* Nothing is closed before Shutdown has returned, and requests come only to a
\* process that has its connections.
ClosedAfterShutdown ==
    /\ main \in {"starting", "serving", "shutdown"} => open = Connections
    /\ main = "boot" => http = "starting" /\ grpc = "starting"
    /\ http = "starting" \/ main = "boot" => \A r \in HttpRequests : state[r] = "new"
    /\ main \in Stopping => http = "closed"

\* From then on no HTTP request is running that came in time.
DrainedBeforeClosing ==
    main \in Stopping \ {"shutdown"} => Drained \/ left = 0

LifecycleInv ==
    /\ TypeOK
    /\ ClosedAfterShutdown
    /\ DrainedBeforeClosing
    /\ HttpRequestsAreServed
=============================================================================

--------------------------- MODULE LifecycleProofs ---------------------------
(***************************************************************************)
(* What Lifecycle promises, for any number of requests and any deadline.   *)
(***************************************************************************)
EXTENDS Lifecycle, TLAPS

LEMMA LifecycleStarts == Init => LifecycleInv
<1> SUFFICES ASSUME Init PROVE LifecycleInv
  OBVIOUS
<1>1. TypeOK
  BY DeadlineAssumption DEF Init, TypeOK
<1>2. ClosedAfterShutdown /\ DrainedBeforeClosing /\ HttpRequestsAreServed
  BY DEF Init, ClosedAfterShutdown, DrainedBeforeClosing, HttpRequestsAreServed, Stopping,
         Connections, Requests, CutOff, Ended
<1> QED
  BY <1>1, <1>2 DEF LifecycleInv

-----------------------------------------------------------------------------
(* The type invariant, one lemma for the process and one for the requests. *)

LEMMA ProcessKeepsTypes ==
    ASSUME TypeOK,
           \/ Boot \/ Notify \/ ListenGrpc \/ ListenHttp \/ ServerFails \/ Terminate
           \/ ShutdownReturns \/ Tick \/ StopTracer \/ \E c \in Connections : Close(c)
    PROVE  TypeOK'
<1> USE DEF TypeOK
<1>1. CASE Boot
  BY <1>1 DEF Boot, requestVars, Ended
<1>2. CASE Notify
  BY <1>2 DEF Notify, requestVars
<1>3. CASE ListenGrpc
  BY <1>3 DEF ListenGrpc, requestVars, Ended
<1>4. CASE ListenHttp
  BY <1>4 DEF ListenHttp, requestVars, Ended
<1>5. CASE Terminate
  BY <1>5 DEF Terminate, requestVars, Ended, After
<1>6. CASE ShutdownReturns
  BY <1>6 DEF ShutdownReturns, requestVars, After, Connections
<1>7. CASE Tick
  <2>1. Remaining(left) \in 0..Deadline
    BY DeadlineAssumption DEF Remaining
  <2> QED
    BY <1>7, <2>1 DEF Tick, requestVars
<1>8. CASE StopTracer
  BY <1>8 DEF StopTracer, requestVars, Ended
<1>9. ASSUME NEW c \in Connections, Close(c) PROVE TypeOK'
  BY <1>9 DEF Close, requestVars, After, Connections
<1>10. CASE ServerFails
  BY <1>10 DEF ServerFails, requestVars, Ended
<1> QED
  BY <1>1, <1>2, <1>3, <1>4, <1>5, <1>6, <1>7, <1>8, <1>9, <1>10

LEMMA UsesAreCalls ==
    ASSUME NEW r \in Requests PROVE Uses(r) \subseteq Seq(Connections)
<1> DEFINE read == <<"redis", "postgres", "redis">>
           write == <<"postgres", "redis", "kafka">>
<1>1. read \in Seq(Connections) /\ write \in Seq(Connections)
  BY DEF Connections
<1>2. <<"redis">> \in Seq(Connections) /\ <<"postgres", "kafka">> \in Seq(Connections)
  BY DEF Connections
<1>3. <<"redis">> \o write \in Seq(Connections) /\ read \o write \in Seq(Connections)
  <2> HIDE DEF read, write
  <2> QED
    BY <1>1, <1>2
<1> QED
  BY <1>1, <1>2, <1>3 DEF Uses

LEMMA RequestsKeepTypes ==
    ASSUME TypeOK, NEW r \in Requests, Begin(r) \/ Use(r) \/ Answer(r)
    PROVE  TypeOK'
<1> USE DEF TypeOK
<1>1. CASE Begin(r)
  BY <1>1, UsesAreCalls DEF Begin, serverVars
<1>2. CASE Use(r)
  <2>1. calls[r] \in Seq(Connections) /\ calls[r] # << >>
    BY <1>2 DEF Use
  <2>2. Head(calls[r]) \in Connections /\ Tail(calls[r]) \in Seq(Connections)
    BY <2>1
  <2>3. calls' \in [Requests -> Seq(Connections)]
    <3>1. << >> \in Seq(Connections)
      OBVIOUS
    <3>2. PICK rest \in Seq(Connections) : calls' = [calls EXCEPT ![r] = rest]
      BY <1>2, <2>2, <3>1 DEF Use
    <3> QED
      BY <3>2
  <2>4. met' \in [Requests -> SUBSET Connections]
    BY <1>2, <2>2 DEF Use
  <2> QED
    BY <1>2, <2>3, <2>4 DEF Use, serverVars
<1>3. CASE Answer(r)
  BY <1>3 DEF Answer, serverVars
<1> QED
  BY <1>1, <1>2, <1>3
-----------------------------------------------------------------------------
(* The order of the shutdown.                                              *)

LEMMA ProcessKeepsOrder ==
    ASSUME LifecycleInv,
           \/ Boot \/ Notify \/ ListenGrpc \/ ListenHttp \/ ServerFails \/ Terminate
           \/ ShutdownReturns \/ Tick \/ StopTracer \/ \E c \in Connections : Close(c)
    PROVE  ClosedAfterShutdown' /\ DrainedBeforeClosing' /\ HttpRequestsAreServed'
<1> USE DEF LifecycleInv, ClosedAfterShutdown, DrainedBeforeClosing, HttpRequestsAreServed,
            CutOff, Drained, Stopping, Ended, Connections, requestVars
<1>1. CASE Boot
  BY <1>1 DEF Boot
<1>2. CASE Notify
  BY <1>2 DEF Notify
<1>3. CASE ListenGrpc
  BY <1>3 DEF ListenGrpc, Alive
<1>4. CASE ListenHttp
  BY <1>4 DEF ListenHttp, Alive
<1>5. CASE Terminate
  BY <1>5 DEF Terminate, After
<1>6. CASE ShutdownReturns
  BY <1>6 DEF ShutdownReturns, TimedOut, After
<1>7. CASE Tick
  <2>1. left = 0 => left' = 0
    BY <1>7 DEF Tick, Remaining
  <2> QED
    BY <1>7, <2>1 DEF Tick
<1>8. CASE StopTracer
  BY <1>8 DEF StopTracer
<1>9. ASSUME NEW c \in Connections, Close(c)
      PROVE  ClosedAfterShutdown' /\ DrainedBeforeClosing' /\ HttpRequestsAreServed'
  BY <1>9 DEF Close, After
<1>10. CASE ServerFails
  BY <1>10 DEF ServerFails, Alive
<1> QED
  BY <1>1, <1>2, <1>3, <1>4, <1>5, <1>6, <1>7, <1>8, <1>9, <1>10

LEMMA RequestsKeepOrder ==
    ASSUME LifecycleInv, NEW r \in Requests, Begin(r) \/ Use(r) \/ Answer(r)
    PROVE  ClosedAfterShutdown' /\ DrainedBeforeClosing' /\ HttpRequestsAreServed'
<1> USE DEF LifecycleInv, ClosedAfterShutdown, DrainedBeforeClosing, HttpRequestsAreServed,
            CutOff, Drained, Stopping, Ended, serverVars, Alive
<1>1. TypeOK /\ HttpRequests \subseteq Requests
  BY DEF Requests
<1>2. CASE Begin(r)
  <2>1. r \in HttpRequests => main \in {"starting", "serving"}
    BY <1>2, <1>1 DEF Begin, TypeOK
  <2>2. /\ \A s \in HttpRequests : s # r => state'[s] = state[s]
        /\ met' = met /\ main' = main /\ open' = open /\ http' = http /\ grpc' = grpc /\ left' = left
        /\ main \notin Ended
    BY <1>1, <1>2 DEF Begin, TypeOK
  <2>3. r \in HttpRequests => http # "starting"
    BY <1>2 DEF Begin
  <2>4. ClosedAfterShutdown'
    BY <1>1, <2>1, <2>2, <2>3
  <2>5. DrainedBeforeClosing'
    BY <1>1, <2>1, <2>2 DEF Connections
  <2>6. HttpRequestsAreServed'
    BY <1>1, <2>2
  <2> QED
    BY <2>4, <2>5, <2>6
<1>3. CASE Use(r)
  <2>1. /\ \A s \in HttpRequests : s # r => met'[s] = met[s]
        /\ state' = state /\ main' = main /\ open' = open /\ http' = http /\ grpc' = grpc /\ left' = left
        /\ main \notin Ended
    BY <1>1, <1>3 DEF Use, TypeOK
  <2>2. ASSUME r \in HttpRequests, left # 0 PROVE met'[r] = met[r]
    <3>1. main \in {"starting", "serving", "shutdown"}
      BY <1>1, <1>3, <2>2 DEF Use, TypeOK
    <3>2. Head(calls[r]) \in open
      BY <1>1, <1>3, <3>1 DEF Use, TypeOK
    <3> QED
      BY <1>1, <1>3, <3>2 DEF Use, TypeOK
  <2> QED
    BY <2>1, <2>2
<1>4. CASE Answer(r)
  <2>1. /\ \A s \in Requests : state'[s] = state[s] \/ (s = r /\ state'[s] = "answered")
        /\ met' = met /\ main' = main /\ open' = open /\ http' = http /\ grpc' = grpc /\ left' = left
        /\ main \notin Ended
    BY <1>1, <1>4 DEF Answer, TypeOK
  <2>2. state[r] = "running"
    BY <1>4 DEF Answer
  <2> QED
    BY <1>1, <2>1, <2>2
<1> QED
  BY <1>2, <1>3, <1>4
-----------------------------------------------------------------------------
(* The theorems.                                                           *)

\* main closes no connection before Shutdown has drained the HTTP requests or
\* its deadline has passed (main.go:230-237).
THEOREM LifecycleInvariance == Spec => []LifecycleInv
<1>1. Init => LifecycleInv
  BY LifecycleStarts
<1>2. LifecycleInv /\ [Next]_vars => LifecycleInv'
  <2>1. ASSUME LifecycleInv, UNCHANGED vars PROVE LifecycleInv'
    BY <2>1 DEF vars, serverVars, requestVars, LifecycleInv, TypeOK, ClosedAfterShutdown,
                DrainedBeforeClosing, HttpRequestsAreServed, Stopping, Drained, CutOff
  <2>2. ASSUME LifecycleInv, Next PROVE LifecycleInv'
    BY <2>2, ProcessKeepsTypes, ProcessKeepsOrder, RequestsKeepTypes, RequestsKeepOrder
       DEF Next, LifecycleInv
  <2> QED
    BY <2>1, <2>2
<1> QED
  BY <1>1, <1>2, PTL DEF Spec

\* Every variable keeps its type, the deadline included, which ends at zero.
THEOREM LifecycleTypeCorrect == Spec => []TypeOK
BY LifecycleInvariance, PTL DEF LifecycleInv

\* "Server mati dengan tenang" (main.go:238) is true of the HTTP requests that
\* keep the deadline.
THEOREM HttpRequestsComeThrough == Spec => []HttpRequestsAreServed
BY LifecycleInvariance, PTL DEF LifecycleInv
=============================================================================

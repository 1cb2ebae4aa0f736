-------------------------- MODULE SearchWorkerProofs --------------------------
(***************************************************************************)
(* What SearchWorker promises for any number of workers, partitions,       *)
(* messages and faults.                                                    *)
(***************************************************************************)
EXTENDS SearchWorker, FiniteSetTheorems, TLAPS

LEMMA WorkerStarts == Init => WorkerInv
<1> SUFFICES ASSUME Init PROVE WorkerInv
  OBVIOUS
<1>1. \A p \in Partitions : log[p] = << >> /\ committed[p] = 0
  BY DEF Init
<1>2. TypeOK
  BY <1>1, MaxMessagesAssumption, MaxRetriesAssumption DEF Init, TypeOK, Phases, Stages
<1>3. SessionsAreInOrder /\ OwnersAreAhead
  BY DEF Init, SessionsAreInOrder, OwnersAreAhead, Idle
<1> QED
  BY <1>2, <1>3 DEF WorkerInv
-----------------------------------------------------------------------------
(* Where the messages are and how the claims go through them.              *)

\* The message a claim is at work on is one of its topic.
LEMMA CurrentIsAnEvent ==
    ASSUME WorkerInv, NEW w \in Workers, NEW p \in Partitions, stage[w][p] = "sync"
    PROVE  Current(w, p) \in Event
<1>1. /\ position[w][p] \in Nat /\ position[w][p] < Len(log[p]) /\ p \in ProductPartitions
      /\ log[p] \in Seq(MessagesOf(p))
  BY DEF WorkerInv, SessionsAreInOrder, TypeOK
<1>2. position[w][p] + 1 \in 1..Len(log[p])
  BY <1>1
<1>3. Current(w, p) \in MessagesOf(p)
  BY <1>1, <1>2 DEF Current
<1>4. p \notin InvoicePartitions
  BY <1>1, TopicsAssumption
<1> QED
  BY <1>3, <1>4 DEF MessagesOf

\* The stage a step takes a claim to, which may be the one it is at.
MovesTo(w, p, s) == stage' = [stage EXCEPT ![w][p] = s]

LEMMA StagedIsMoved ==
    ASSUME WorkerInv, NEW w \in Workers, NEW p \in Partitions, NEW s, Stage(w, p, s)
    PROVE  /\ MovesTo(w, p, s)
           /\ attempts' \in [Workers -> [Partitions -> 0..MaxRetries]]
<1>1. attempts' = [attempts EXCEPT ![w] = [attempts[w] EXCEPT ![p] = 0]]
  BY DEF Stage
<1>2. attempts \in [Workers -> [Partitions -> 0..MaxRetries]] /\ 0 \in 0..MaxRetries
  BY MaxRetriesAssumption DEF WorkerInv, TypeOK
<1>3. attempts[w] \in [Partitions -> 0..MaxRetries]
  BY <1>2
<1>4. [attempts[w] EXCEPT ![p] = 0] \in [Partitions -> 0..MaxRetries]
  BY <1>2, <1>3
<1> QED
  BY <1>1, <1>2, <1>4 DEF Stage, MovesTo

\* A failed request leaves its claim where it is, to be repeated, or takes it on.
LEMMA FailedIsMoved ==
    ASSUME WorkerInv, NEW w \in Workers, NEW p \in Partitions, NEW stages, Failed(w, p, stages)
    PROVE  /\ Strike("es")
           /\ \E s \in stages \cup {stage[w][p]} : MovesTo(w, p, s)
           /\ attempts' \in [Workers -> [Partitions -> 0..MaxRetries]]
<1>1. CASE \E s \in stages : Stage(w, p, s)
  BY <1>1, StagedIsMoved DEF Failed
<1>2. CASE /\ attempts[w][p] < MaxRetries
           /\ attempts' = [attempts EXCEPT ![w] = [attempts[w] EXCEPT ![p] = attempts[w][p] + 1]]
           /\ UNCHANGED stage
  <2>1. attempts \in [Workers -> [Partitions -> 0..MaxRetries]]
    BY DEF WorkerInv, TypeOK
  <2>2. attempts[w] \in [Partitions -> 0..MaxRetries] /\ attempts[w][p] + 1 \in 0..MaxRetries
    BY <1>2, <2>1, MaxRetriesAssumption
  <2>3. [attempts[w] EXCEPT ![p] = attempts[w][p] + 1] \in [Partitions -> 0..MaxRetries]
    BY <2>2
  <2>4. MovesTo(w, p, stage[w][p])
    BY <1>2 DEF MovesTo, WorkerInv, TypeOK
  <2> QED
    BY <1>2, <2>1, <2>3, <2>4 DEF Failed
<1> QED
  BY <1>1, <1>2 DEF Failed

\* A claim moves on while its session lasts; nothing else of the group changes.
LEMMA StageMoves ==
    ASSUME WorkerInv, NEW w \in Workers, NEW p \in Partitions, NEW s \in Stages,
           InSession(w), MovesTo(w, p, s), UNCHANGED <<groupVars, processVars, claims, position>>,
           s # "idle" => p \in claims[w] /\ position[w][p] < Len(log[p]),
           s \in {"sync", "audit"} => p \in ProductPartitions
    PROVE  /\ stage' \in [Workers -> [Partitions -> Stages]]
           /\ SessionsAreInOrder'
           /\ OwnersAreAhead'
<1>1. stage' = [stage EXCEPT ![w] = [stage[w] EXCEPT ![p] = s]]
  BY DEF MovesTo
<1>2. /\ stage' \in [Workers -> [Partitions -> Stages]]
      /\ stage'[w][p] = s
      /\ \A v \in Workers, q \in Partitions : v # w \/ q # p => stage'[v][q] = stage[v][q]
  BY <1>1 DEF WorkerInv, TypeOK
<1>3. SessionsAreInOrder'
  BY <1>2 DEF WorkerInv, SessionsAreInOrder, Idle, InSession, groupVars, processVars
<1>4. OwnersAreAhead'
  BY DEF WorkerInv, OwnersAreAhead, groupVars, processVars
<1> QED
  BY <1>2, <1>3, <1>4

LEMMA AtWorkIsInSession ==
    ASSUME WorkerInv, NEW w \in Workers, NEW p \in Partitions, stage[w][p] # "idle"
    PROVE  InSession(w)
BY DEF WorkerInv, SessionsAreInOrder, Idle

LEMMA TakeKeeps ==
    ASSUME WorkerInv, NEW w \in Workers, NEW p \in Partitions, Take(w, p)
    PROVE  WorkerInv'
<1>1. /\ p \in claims[w] /\ position[w][p] < Len(log[p])
      /\ UNCHANGED <<groupVars, processVars, claims, position>>
  BY DEF Take
<1>2. PICK s \in {"sync", "mark"} : Stage(w, p, s) /\ (s = "sync" => p \in ProductPartitions)
  BY DEF Take
<1>3. stage' \in [Workers -> [Partitions -> Stages]] /\ SessionsAreInOrder' /\ OwnersAreAhead'
  BY <1>1, <1>2, StageMoves, StagedIsMoved DEF Take, Stages
<1>4. position[w][p] + 1 \in 1..MaxMessages
  BY <1>1, MaxMessagesAssumption DEF WorkerInv, TypeOK
<1>5. emailed' \in [Partitions -> SUBSET (1..MaxMessages)]
  BY <1>4 DEF Take, WorkerInv, TypeOK
<1>6. TypeOK'
  BY <1>1, <1>2, <1>3, <1>5, StagedIsMoved DEF Take, WorkerInv, TypeOK, groupVars, processVars
<1> QED
  BY <1>3, <1>6 DEF WorkerInv

LEMMA StrikeCounts ==
    ASSUME TypeOK, NEW kind \in FaultKinds, Strike(kind)
    PROVE  faults' \in [FaultKinds -> Nat]
BY DEF Strike, TypeOK

LEMMA SyncKeeps ==
    ASSUME WorkerInv, NEW w \in Workers, NEW p \in Partitions, Sync(w, p)
    PROVE  WorkerInv'
<1>1. /\ stage[w][p] = "sync" /\ UNCHANGED <<groupVars, processVars, claims, position>>
      /\ audited' = audited /\ emailed' = emailed
  BY DEF Sync
<1>2. /\ InSession(w) /\ p \in claims[w] /\ position[w][p] < Len(log[p])
      /\ p \in ProductPartitions
  BY <1>1, AtWorkIsInSession DEF WorkerInv, SessionsAreInOrder
<1>3. PICK s \in {"sync", "audit", "mark"} :
        MovesTo(w, p, s) /\ attempts' \in [Workers -> [Partitions -> 0..MaxRetries]]
  BY <1>1, StagedIsMoved, FailedIsMoved DEF Sync
<1>4. stage' \in [Workers -> [Partitions -> Stages]] /\ SessionsAreInOrder' /\ OwnersAreAhead'
  BY <1>1, <1>2, <1>3, StageMoves DEF Stages
<1>5. Document(Current(w, p)) \in Rows \cup {None}
  BY <1>1, CurrentIsAnEvent DEF Document, Event
<1>6. index' \in [Products -> Rows \cup {None}]
  BY <1>5 DEF Sync, WorkerInv, TypeOK
<1>7. faults' \in [FaultKinds -> Nat]
  BY StrikeCounts DEF Sync, Failed, WorkerInv, TypeOK, FaultKinds
<1>8. TypeOK'
  BY <1>1, <1>3, <1>4, <1>6, <1>7 DEF WorkerInv, TypeOK, groupVars, processVars
<1> QED
  BY <1>4, <1>8 DEF WorkerInv

LEMMA AuditKeeps ==
    ASSUME WorkerInv, NEW w \in Workers, NEW p \in Partitions, Audit(w, p)
    PROVE  WorkerInv'
<1>1. /\ stage[w][p] = "audit" /\ UNCHANGED <<groupVars, processVars, claims, position>>
      /\ index' = index /\ emailed' = emailed
  BY DEF Audit
<1>2. /\ InSession(w) /\ p \in claims[w] /\ position[w][p] < Len(log[p])
      /\ p \in ProductPartitions
  BY <1>1, AtWorkIsInSession DEF WorkerInv, SessionsAreInOrder
<1>3. PICK s \in {"audit", "mark"} :
        MovesTo(w, p, s) /\ attempts' \in [Workers -> [Partitions -> 0..MaxRetries]]
  BY <1>1, StagedIsMoved, FailedIsMoved DEF Audit
<1>4. stage' \in [Workers -> [Partitions -> Stages]] /\ SessionsAreInOrder' /\ OwnersAreAhead'
  BY <1>1, <1>2, <1>3, StageMoves DEF Stages
<1>5. audited' \in [Partitions -> [1..MaxMessages -> Nat]]
  <2>1. position[w][p] + 1 \in 1..MaxMessages
    BY <1>2, MaxMessagesAssumption DEF WorkerInv, TypeOK
  <2>2. PICK o \in 1..MaxMessages :
          \/ audited' = [audited EXCEPT ![p] = [audited[p] EXCEPT ![o] = audited[p][o] + 1]]
          \/ audited' = audited
    BY <2>1 DEF Audit
  <2>3. audited[p] \in [1..MaxMessages -> Nat]
    BY DEF WorkerInv, TypeOK
  <2>4. ASSUME NEW f \in [1..MaxMessages -> Nat]
        PROVE  [f EXCEPT ![o] = f[o] + 1] \in [1..MaxMessages -> Nat]
    <3>1. f[o] + 1 \in Nat
      OBVIOUS
    <3> QED
      BY <3>1
  <2> QED
    BY <2>2, <2>3, <2>4 DEF WorkerInv, TypeOK
<1>6. faults' \in [FaultKinds -> Nat]
  BY StrikeCounts DEF Audit, Failed, WorkerInv, TypeOK, FaultKinds
<1>7. TypeOK'
  BY <1>1, <1>4, <1>5, <1>6, <1>3 DEF WorkerInv, TypeOK, groupVars, processVars
<1> QED
  BY <1>4, <1>7 DEF WorkerInv

LEMMA MarkKeeps ==
    ASSUME WorkerInv, NEW w \in Workers, NEW p \in Partitions, Mark(w, p)
    PROVE  WorkerInv'
<1>1. /\ stage[w][p] = "mark" /\ UNCHANGED <<groupVars, processVars, claims, outputVars, faults>>
      /\ position' = [position EXCEPT ![w] = [position[w] EXCEPT ![p] = position[w][p] + 1]]
      /\ stage' = [stage EXCEPT ![w] = [stage[w] EXCEPT ![p] = "idle"]]
      /\ attempts' \in [Workers -> [Partitions -> 0..MaxRetries]]
  BY StagedIsMoved DEF Mark, MovesTo
<1>2. position[w][p] < Len(log[p])
  BY <1>1 DEF WorkerInv, SessionsAreInOrder
<1>3. /\ position' \in [Workers -> [Partitions -> Nat]]
      /\ position'[w][p] = position[w][p] + 1
      /\ \A v \in Workers, q \in Partitions : v # w \/ q # p => position'[v][q] = position[v][q]
  BY <1>1 DEF WorkerInv, TypeOK
<1>4. /\ stage' \in [Workers -> [Partitions -> Stages]]
      /\ stage'[w][p] = "idle"
      /\ \A v \in Workers, q \in Partitions : v # w \/ q # p => stage'[v][q] = stage[v][q]
  BY <1>1 DEF WorkerInv, TypeOK, Stages
<1>5. position[w][p] \in Nat /\ Len(log[p]) \in Nat
  BY DEF WorkerInv, TypeOK
<1>6. \A v \in Workers, q \in Partitions : position'[v][q] <= Len(log[q])
  <2> SUFFICES ASSUME NEW v \in Workers, NEW q \in Partitions PROVE position'[v][q] <= Len(log[q])
    OBVIOUS
  <2>1. CASE v = w /\ q = p
    BY <2>1, <1>2, <1>3, <1>5
  <2>2. CASE v # w \/ q # p
    BY <2>2, <1>3 DEF WorkerInv, TypeOK
  <2> QED
    BY <2>1, <2>2
<1>7. TypeOK'
  BY <1>1, <1>3, <1>4, <1>6 DEF WorkerInv, TypeOK, groupVars, processVars, outputVars
<1>8. SessionsAreInOrder'
  BY <1>1, <1>3, <1>4 DEF WorkerInv, SessionsAreInOrder, Idle, InSession, groupVars, processVars
<1>9. OwnersAreAhead'
  <2> SUFFICES ASSUME NEW v \in members, NEW q \in claims[v], owner[q] = v
               PROVE  committed[q] <= position'[v][q]
    BY <1>1 DEF OwnersAreAhead, groupVars
  <2>1. committed[q] <= position[v][q] /\ v \in Workers /\ q \in Partitions
    BY DEF WorkerInv, OwnersAreAhead, TypeOK
  <2>2. committed[q] \in Nat /\ position[v][q] \in Nat
    BY <2>1 DEF WorkerInv, TypeOK
  <2> QED
    BY <1>3, <2>1, <2>2
<1> QED
  BY <1>7, <1>8, <1>9 DEF WorkerInv
-----------------------------------------------------------------------------
(* The process and the group.                                              *)

LEMMA PublishKeeps ==
    ASSUME WorkerInv, NEW p \in Partitions, Publish(p)
    PROVE  WorkerInv'
<1>1. UNCHANGED <<committed, members, owner, processVars, sessionVars, outputVars, faults>>
  BY DEF Publish
<1>2. PICK m \in MessagesOf(p) : log' = [log EXCEPT ![p] = Append(log[p], m)]
  BY DEF Publish
<1>3. log[p] \in Seq(MessagesOf(p)) /\ Len(log[p]) < MaxMessages
  BY DEF Publish, WorkerInv, TypeOK
<1>4. /\ DOMAIN log' = Partitions
      /\ log'[p] \in Seq(MessagesOf(p)) /\ Len(log'[p]) = Len(log[p]) + 1
      /\ \A q \in Partitions : q # p => log'[q] = log[q]
  BY <1>2, <1>3 DEF WorkerInv, TypeOK
<1>5. \A q \in Partitions :
        /\ log'[q] \in Seq(MessagesOf(q)) /\ Len(log[q]) \in Nat
        /\ Len(log[q]) <= Len(log'[q]) /\ Len(log'[q]) <= MaxMessages
  <2> TAKE q \in Partitions
  <2>1. log[q] \in Seq(MessagesOf(q)) /\ Len(log[q]) <= MaxMessages /\ Len(log[q]) \in Nat
    BY DEF WorkerInv, TypeOK
  <2>2. CASE q = p
    BY <2>1, <2>2, <1>3, <1>4, MaxMessagesAssumption
  <2>3. CASE q # p
    BY <2>1, <2>3, <1>4
  <2> QED
    BY <2>2, <2>3
<1>6. \A q \in Partitions :
        /\ committed[q] <= Len(log'[q])
        /\ \A w \in Workers : position[w][q] <= Len(log'[q])
        /\ \A w \in Workers : stage[w][q] # "idle" => position[w][q] < Len(log'[q])
  <2> TAKE q \in Partitions
  <2>1. committed[q] \in Nat /\ \A w \in Workers : position[w][q] \in Nat
    BY DEF WorkerInv, TypeOK
  <2>2. Len(log[q]) \in Nat /\ Len(log'[q]) \in Nat /\ Len(log[q]) <= Len(log'[q])
    BY <1>5
  <2> QED
    BY <2>1, <2>2 DEF WorkerInv, TypeOK, SessionsAreInOrder
<1>7. TypeOK'
  BY <1>1, <1>4, <1>5, <1>6
  DEF WorkerInv, TypeOK, processVars, sessionVars, outputVars, MessagesOf
<1>8. SessionsAreInOrder'
  BY <1>1, <1>6 DEF WorkerInv, SessionsAreInOrder, Idle, InSession, processVars, sessionVars
<1>9. OwnersAreAhead'
  BY <1>1 DEF WorkerInv, OwnersAreAhead, sessionVars
<1> QED
  BY <1>7, <1>8, <1>9 DEF WorkerInv

\* A process that is gone has no session and no claims.
LEMMA EndKeeps ==
    ASSUME WorkerInv, NEW w \in Workers, End(w), log' = log, members' = members,
           owner' = owner, position' = position, outputVars' = outputVars,
           stopping' \subseteq Workers, faults' \in [FaultKinds -> Nat],
           committed' \in [Partitions -> Nat],
           \A p \in Partitions : committed'[p] <= Len(log[p]),
           \A v \in members, p \in Partitions :
               v # w /\ p \in claims[v] /\ owner[p] = v => committed'[p] = committed[p]
    PROVE  WorkerInv'
<1>1. /\ phase' \in [Workers -> Phases] /\ phase'[w] = "down"
      /\ claims' \in [Workers -> SUBSET Partitions] /\ claims'[w] = {}
      /\ stage' \in [Workers -> [Partitions -> Stages]]
      /\ \A p \in Partitions : stage'[w][p] = "idle"
      /\ \A v \in Workers \ {w} :
           phase'[v] = phase[v] /\ claims'[v] = claims[v] /\ stage'[v] = stage[v]
  BY DEF End, WorkerInv, TypeOK, Phases, Stages
<1>2. attempts' \in [Workers -> [Partitions -> 0..MaxRetries]]
  BY MaxRetriesAssumption DEF End, WorkerInv, TypeOK
<1>3. TypeOK'
  BY <1>1, <1>2 DEF WorkerInv, TypeOK, outputVars
<1>4. SessionsAreInOrder'
  <2>1. ASSUME NEW v \in Workers, ~InSession(v)' PROVE claims'[v] = {} /\ Idle(v)'
    <3>1. CASE v = w
      BY <3>1, <1>1 DEF Idle
    <3>2. CASE v # w
      <4>1. phase'[v] = phase[v] /\ claims'[v] = claims[v] /\ stage'[v] = stage[v]
        BY <3>2, <1>1
      <4>2. ~InSession(v)
        BY <2>1, <4>1 DEF InSession
      <4> QED
        BY <4>1, <4>2 DEF WorkerInv, SessionsAreInOrder, Idle
    <3> QED
      BY <3>1, <3>2
  <2>2. ASSUME NEW v \in Workers, NEW p \in Partitions
        PROVE  /\ stage'[v][p] # "idle" => p \in claims'[v] /\ position[v][p] < Len(log[p])
               /\ stage'[v][p] \in {"sync", "audit"} => p \in ProductPartitions
    <3>1. stage'[v][p] # "idle" => v # w
      BY <1>1
    <3> QED
      BY <3>1, <1>1 DEF WorkerInv, SessionsAreInOrder
  <2> QED
    BY <2>1, <2>2 DEF SessionsAreInOrder
<1>5. OwnersAreAhead'
  <2> SUFFICES ASSUME NEW v \in members, NEW p \in claims'[v], owner[p] = v
               PROVE  committed'[p] <= position[v][p]
    BY DEF OwnersAreAhead
  <2>1. v # w /\ v \in Workers
    BY <1>1 DEF WorkerInv, TypeOK
  <2>2. p \in claims[v] /\ p \in Partitions
    BY <1>1, <2>1 DEF WorkerInv, TypeOK
  <2> QED
    BY <2>1, <2>2 DEF WorkerInv, OwnersAreAhead
<1> QED
  BY <1>3, <1>4, <1>5 DEF WorkerInv

\* A commit moves offsets to what the owner has marked, and never back.
LEMMA CommitMovesOn ==
    ASSUME WorkerInv, NEW w \in Workers, CommitOffsets(w)
    PROVE  /\ committed' \in [Partitions -> Nat]
           /\ \A p \in Partitions :
                /\ committed[p] <= committed'[p] /\ committed'[p] <= Len(log[p])
                /\ committed'[p] # committed[p] =>
                     owner[p] = w /\ p \in claims[w] /\ committed'[p] = position[w][p]
                /\ owner[p] = w /\ p \in claims[w] /\ w \in members =>
                     committed'[p] = position[w][p]
<1>1. ASSUME NEW p \in Partitions
      PROVE  /\ committed'[p] \in Nat
             /\ committed[p] <= committed'[p] /\ committed'[p] <= Len(log[p])
             /\ committed'[p] # committed[p] =>
                  owner[p] = w /\ p \in claims[w] /\ committed'[p] = position[w][p]
             /\ owner[p] = w /\ p \in claims[w] /\ w \in members =>
                  committed'[p] = position[w][p]
  <2>1. /\ committed[p] \in Nat /\ position[w][p] \in Nat
        /\ committed[p] <= Len(log[p]) /\ position[w][p] <= Len(log[p])
    BY DEF WorkerInv, TypeOK
  <2>2. CASE p \in claims[w] /\ w \in members /\ owner[p] = w
    <3>1. committed'[p] = position[w][p]
      BY <2>2 DEF CommitOffsets
    <3>2. committed[p] <= position[w][p]
      BY <2>2 DEF WorkerInv, OwnersAreAhead
    <3> QED
      BY <2>1, <2>2, <3>1, <3>2
  <2>3. CASE ~(p \in claims[w] /\ w \in members /\ owner[p] = w)
    <3>1. committed'[p] = committed[p]
      BY <2>3 DEF CommitOffsets
    <3> QED
      BY <2>1, <2>3, <3>1
  <2> QED
    BY <2>2, <2>3
<1>2. committed' = [p \in Partitions |-> committed'[p]]
  BY DEF CommitOffsets
<1>3. committed' \in [Partitions -> Nat]
  BY <1>1, <1>2
<1> QED
  BY <1>1, <1>3

LEMMA EndSessionKeeps ==
    ASSUME WorkerInv, NEW w \in Workers, EndSession(w)
    PROVE  WorkerInv'
<1>1. /\ End(w)
      /\ UNCHANGED <<log, members, owner, stopping, position, outputVars>>
  BY DEF EndSession, Returned
<1>2. CASE CommitOffsets(w) /\ UNCHANGED faults
  <2>1. \A v \in members, p \in Partitions :
          v # w /\ p \in claims[v] /\ owner[p] = v => committed'[p] = committed[p]
    BY <1>2, CommitMovesOn
  <2> QED
    BY <1>1, <1>2, <2>1, CommitMovesOn, EndKeeps DEF WorkerInv, TypeOK
<1>3. CASE Strike("commit") /\ UNCHANGED committed
  <2>1. faults' \in [FaultKinds -> Nat]
    BY <1>3, StrikeCounts DEF WorkerInv, FaultKinds
  <2> QED
    BY <1>1, <1>3, <2>1, EndKeeps DEF WorkerInv, TypeOK
<1> QED
  BY <1>2, <1>3 DEF EndSession

LEMMA AutoCommitKeeps ==
    ASSUME WorkerInv, NEW w \in Workers, AutoCommit(w)
    PROVE  WorkerInv'
<1>1. /\ CommitOffsets(w)
      /\ UNCHANGED <<log, members, owner, processVars, sessionVars, outputVars, faults>>
  BY DEF AutoCommit
<1>2. TypeOK'
  BY <1>1, CommitMovesOn DEF WorkerInv, TypeOK, processVars, sessionVars, outputVars
<1>3. SessionsAreInOrder'
  BY <1>1 DEF WorkerInv, SessionsAreInOrder, Idle, InSession, processVars, sessionVars
<1>4. OwnersAreAhead'
  <2> SUFFICES ASSUME NEW v \in members, NEW p \in claims[v], owner[p] = v
               PROVE  committed'[p] <= position[v][p]
    BY <1>1 DEF OwnersAreAhead, sessionVars
  <2>1. v \in Workers /\ p \in Partitions /\ position[v][p] \in Nat
    BY DEF WorkerInv, TypeOK
  <2>2. CASE v = w
    BY <1>1, <2>1, <2>2, CommitMovesOn
  <2>3. CASE v # w
    BY <1>1, <2>1, <2>3, CommitMovesOn DEF WorkerInv, OwnersAreAhead
  <2> QED
    BY <2>2, <2>3
<1> QED
  BY <1>2, <1>3, <1>4 DEF WorkerInv

LEMMA CrashKeeps ==
    ASSUME WorkerInv, NEW w \in Workers, Crash(w)
    PROVE  WorkerInv'
<1>1. faults' \in [FaultKinds -> Nat]
  BY StrikeCounts DEF Crash, WorkerInv, FaultKinds
<1> QED
  BY <1>1, EndKeeps DEF Crash, WorkerInv, TypeOK, groupVars

LEMMA JoinFailsKeeps ==
    ASSUME WorkerInv, NEW w \in Workers, JoinFails(w)
    PROVE  WorkerInv'
BY EndKeeps DEF JoinFails, WorkerInv, TypeOK, groupVars

LEMMA TerminateKeeps ==
    ASSUME WorkerInv, NEW w \in Workers, Terminate(w)
    PROVE  WorkerInv'
<1>1. faults' \in [FaultKinds -> Nat]
  BY StrikeCounts DEF Terminate, WorkerInv, FaultKinds
<1>2. /\ stopping' \subseteq Workers
      /\ UNCHANGED <<groupVars, phase, sessionVars, outputVars>>
  BY DEF Terminate, WorkerInv, TypeOK
<1>3. TypeOK'
  BY <1>1, <1>2 DEF WorkerInv, TypeOK, groupVars, sessionVars, outputVars
<1>4. SessionsAreInOrder' /\ OwnersAreAhead'
  BY <1>2 DEF WorkerInv, SessionsAreInOrder, OwnersAreAhead, Idle, InSession, groupVars, sessionVars
<1> QED
  BY <1>3, <1>4 DEF WorkerInv

\* Start and LeaveSession: a process moves on without touching a claim.
LEMMA PhaseKeeps ==
    ASSUME WorkerInv, NEW w \in Workers, Start(w) \/ LeaveSession(w)
    PROVE  WorkerInv'
<1>1. UNCHANGED <<groupVars, stopping, sessionVars, outputVars, faults>>
  BY DEF Start, LeaveSession
<1>2. PICK s \in {"joining", "leaving"} :
        phase' = [phase EXCEPT ![w] = s] /\ (s = "joining" => ~InSession(w))
  BY DEF Start, LeaveSession, InSession
<1>3. /\ phase' \in [Workers -> Phases] /\ phase'[w] = s
      /\ \A v \in Workers \ {w} : phase'[v] = phase[v]
  BY <1>2 DEF WorkerInv, TypeOK, Phases
<1>4. TypeOK'
  BY <1>1, <1>3 DEF WorkerInv, TypeOK, groupVars, sessionVars, outputVars
<1>5. SessionsAreInOrder'
  BY <1>1, <1>2, <1>3 DEF WorkerInv, SessionsAreInOrder, Idle, InSession, groupVars, sessionVars
<1>6. OwnersAreAhead'
  BY <1>1 DEF WorkerInv, OwnersAreAhead, groupVars, sessionVars
<1> QED
  BY <1>4, <1>5, <1>6 DEF WorkerInv

\* In a new generation everyone starts where the group has committed.
LEMMA RebalanceKeeps == ASSUME WorkerInv, Rebalance PROVE WorkerInv'
<1>1. /\ members' = Joiners
      /\ phase' = [w \in Workers |-> IF w \in Joiners THEN "running" ELSE phase[w]]
      /\ position' = [w \in Workers |->
            IF w \in Joiners THEN [p \in Partitions |-> committed[p]] ELSE position[w]]
      /\ UNCHANGED <<log, committed, stage, attempts, stopping, outputVars>>
  BY DEF Rebalance, StartOffset
<1>2. PICK assignment \in [Partitions -> Joiners] :
        /\ owner' = assignment
        /\ claims' = [w \in Workers |->
              IF w \in Joiners THEN {p \in Partitions : assignment[p] = w} ELSE claims[w]]
  BY DEF Rebalance
<1>3. Joiners \subseteq Workers
  BY DEF Joiners
<1>4. faults' \in [FaultKinds -> Nat]
  BY StrikeCounts DEF Rebalance, WorkerInv, TypeOK, FaultKinds
<1>5. committed \in [Partitions -> Nat] /\ position \in [Workers -> [Partitions -> Nat]]
  BY DEF WorkerInv, TypeOK
<1>6. /\ position' \in [Workers -> [Partitions -> Nat]]
      /\ \A w \in Joiners, p \in Partitions : position'[w][p] = committed[p]
      /\ \A w \in Workers \ Joiners : position'[w] = position[w]
  BY <1>1, <1>3, <1>5
<1>7. \A w \in Workers, p \in Partitions : position'[w][p] <= Len(log[p])
  <2>1. /\ \A p \in Partitions : committed[p] <= Len(log[p])
        /\ \A w \in Workers, p \in Partitions : position[w][p] <= Len(log[p])
    BY DEF WorkerInv, TypeOK
  <2> QED
    BY <2>1, <1>6
<1>8. claims' \in [Workers -> SUBSET Partitions] /\ owner' \in [Partitions -> Workers \cup {None}]
  BY <1>2, <1>3 DEF WorkerInv, TypeOK
<1>9. TypeOK'
  BY <1>1, <1>3, <1>4, <1>6, <1>7, <1>8 DEF WorkerInv, TypeOK, Phases, outputVars
<1>10. \A w \in Joiners : ~InSession(w)
  BY DEF Joiners, InSession
<1>11. SessionsAreInOrder'
  <2>1. ASSUME NEW w \in Workers, ~InSession(w)' PROVE claims'[w] = {} /\ Idle(w)'
    <3>1. w \notin Joiners
      BY <2>1, <1>1 DEF InSession
    <3> QED
      BY <2>1, <3>1, <1>1, <1>2 DEF WorkerInv, SessionsAreInOrder, Idle, InSession
  <2>2. ASSUME NEW w \in Workers, NEW p \in Partitions
        PROVE  /\ stage[w][p] # "idle" => p \in claims'[w] /\ position'[w][p] < Len(log[p])
               /\ stage[w][p] \in {"sync", "audit"} => p \in ProductPartitions
    <3>1. stage[w][p] # "idle" => w \notin Joiners
      BY <1>10 DEF WorkerInv, SessionsAreInOrder, Idle
    <3> QED
      BY <3>1, <1>2, <1>6 DEF WorkerInv, SessionsAreInOrder
  <2> QED
    BY <2>1, <2>2, <1>1 DEF SessionsAreInOrder
<1>12. OwnersAreAhead'
  <2> SUFFICES ASSUME NEW w \in Joiners, NEW p \in claims'[w]
               PROVE  committed[p] <= position'[w][p]
    BY <1>1 DEF OwnersAreAhead
  <2>1. p \in Partitions
    BY <1>3, <1>8
  <2> QED
    BY <2>1, <1>5, <1>6
<1> QED
  BY <1>9, <1>11, <1>12 DEF WorkerInv

LEMMA WorkerStutters == WorkerInv /\ UNCHANGED vars => WorkerInv'
<1> SUFFICES ASSUME WorkerInv, UNCHANGED vars PROVE WorkerInv'
  OBVIOUS
<1> USE DEF vars, groupVars, processVars, sessionVars, outputVars
<1>1. TypeOK'
  BY DEF WorkerInv, TypeOK
<1>2. SessionsAreInOrder' /\ OwnersAreAhead'
  BY DEF WorkerInv, SessionsAreInOrder, OwnersAreAhead, Idle, InSession
<1> QED
  BY <1>1, <1>2 DEF WorkerInv

LEMMA WorkerSteps == WorkerInv /\ [Next]_vars => WorkerInv'
<1> SUFFICES ASSUME WorkerInv, [Next]_vars PROVE WorkerInv'
  OBVIOUS
<1>1. ASSUME NEW w \in Workers, NEW p \in Partitions, Claim(w, p) PROVE WorkerInv'
  BY <1>1, TakeKeeps, SyncKeeps, AuditKeeps, MarkKeeps DEF Claim
<1>2. ASSUME NEW w \in Workers,
             \/ Start(w) \/ LeaveSession(w) \/ EndSession(w) \/ JoinFails(w)
             \/ AutoCommit(w) \/ Terminate(w) \/ Crash(w)
      PROVE  WorkerInv'
  BY <1>2, PhaseKeeps, EndSessionKeeps, JoinFailsKeeps, AutoCommitKeeps, TerminateKeeps, CrashKeeps
<1> QED
  BY <1>1, <1>2, PublishKeeps, RebalanceKeeps, WorkerStutters DEF Next

\* The inductive invariant: sessions, claims and offsets belong together.
THEOREM WorkerInvariance == Spec => []WorkerInv
BY WorkerStarts, WorkerSteps, PTL DEF Spec

\* Every variable of the workers and their group stays of its type.
THEOREM WorkerTypeCorrect == Spec => []TypeOK
<1>1. WorkerInv => TypeOK
  BY DEF WorkerInv
<1> QED
  BY <1>1, WorkerInvariance, PTL

\* No worker takes the group back behind what it has committed, however many
\* there are and however late a replaced one commits.
THEOREM NobodyRewinds == Spec => CommitsNeverRewind
<1>1. WorkerInv /\ [Next]_vars =>
        [\A p \in Partitions : committed'[p] >= committed[p]]_committed
  <2> SUFFICES ASSUME WorkerInv, [Next]_vars, committed' # committed
               PROVE  \A p \in Partitions : committed'[p] >= committed[p]
    OBVIOUS
  <2>1. PICK w \in Workers : CommitOffsets(w)
    <3> USE DEF groupVars, processVars, sessionVars, outputVars
    <3>1. ASSUME NEW w \in Workers, NEW p \in Partitions, Claim(w, p) PROVE committed' = committed
      BY <3>1 DEF Claim, Take, Sync, Audit, Mark
    <3>2. ASSUME NEW w \in Workers,
                 Start(w) \/ LeaveSession(w) \/ JoinFails(w) \/ Terminate(w) \/ Crash(w)
          PROVE  committed' = committed
      BY <3>2 DEF Start, LeaveSession, JoinFails, Terminate, Crash
    <3>3. ASSUME NEW w \in Workers, EndSession(w) \/ AutoCommit(w)
          PROVE  CommitOffsets(w) \/ committed' = committed
      BY <3>3 DEF EndSession, AutoCommit
    <3>4. Rebalance \/ UNCHANGED vars \/ (\E p \in Partitions : Publish(p)) =>
            committed' = committed
      BY DEF Rebalance, vars, Publish
    <3> QED
      BY <3>1, <3>2, <3>3, <3>4 DEF Next
  <2>2. \A p \in Partitions :
          committed[p] <= committed'[p] /\ committed[p] \in Nat /\ committed'[p] \in Nat
    BY <2>1, CommitMovesOn DEF WorkerInv, TypeOK
  <2> QED
    BY <2>2
<1> QED
  BY <1>1, WorkerInvariance, PTL DEF Spec, CommitsNeverRewind
-----------------------------------------------------------------------------
(* The loss of events.  A session passes an event by without an entry only *)
(* in a step in which Elasticsearch fails it, and no other step adds to    *)
(* what has been passed by: a commit stores, and a new generation starts   *)
(* from, what some session had marked before.                              *)

\* The steps that are not such a failure: nothing is skipped anew.
LEMMA NoMoreSkips ==
    ASSUME TypeOK, EachSkipIsAFailure, faults' \in [FaultKinds -> Nat],
           faults["es"] <= faults'["es"],
           \A e \in Entries :
               /\ audited'[e.partition][e.offset] = 0
               /\ e.offset <= committed'[e.partition] \/ \E w \in Workers : PassedBy(w, e)'
               => e \in Skipped
    PROVE  EachSkipIsAFailure'
<1>1. Skipped' \in SUBSET Skipped
  BY DEF Skipped, Entries
<1>2. /\ IsFiniteSet(Skipped') /\ Cardinality(Skipped') <= Cardinality(Skipped)
      /\ Cardinality(Skipped') \in Nat /\ Cardinality(Skipped) \in Nat
  BY <1>1, FS_Subset, FS_CardinalityType DEF EachSkipIsAFailure
<1>3. faults["es"] \in Nat /\ faults'["es"] \in Nat
  BY DEF TypeOK, FaultKinds
<1> QED
  BY <1>2, <1>3 DEF EachSkipIsAFailure

\* A failure of Elasticsearch: one event is skipped at most.
LEMMA OneMoreSkip ==
    ASSUME TypeOK, EachSkipIsAFailure, NEW x, Strike("es"),
           \A e \in Entries :
               /\ audited'[e.partition][e.offset] = 0
               /\ e.offset <= committed'[e.partition] \/ \E w \in Workers : PassedBy(w, e)'
               => e \in Skipped \cup {x}
    PROVE  EachSkipIsAFailure'
<1>1. Skipped' \in SUBSET (Skipped \cup {x})
  BY DEF Skipped, Entries
<1>2. /\ IsFiniteSet(Skipped \cup {x}) /\ Cardinality(Skipped) \in Nat
      /\ Cardinality(Skipped \cup {x}) \in {Cardinality(Skipped), Cardinality(Skipped) + 1}
  BY FS_AddElement, FS_CardinalityType DEF EachSkipIsAFailure
<1>3. /\ IsFiniteSet(Skipped') /\ Cardinality(Skipped') \in Nat
      /\ Cardinality(Skipped') <= Cardinality(Skipped \cup {x})
  BY <1>1, <1>2, FS_Subset, FS_CardinalityType
<1>4. faults["es"] \in Nat /\ faults'["es"] = faults["es"] + 1
  BY DEF Strike, TypeOK, FaultKinds
<1> QED
  BY <1>2, <1>3, <1>4 DEF EachSkipIsAFailure

\* Whatever is struck, the failures of Elasticsearch do not become fewer.
LEMMA FailuresGrow ==
    ASSUME TypeOK, faults' = faults \/ \E kind \in FaultKinds : Strike(kind)
    PROVE  faults' \in [FaultKinds -> Nat] /\ faults["es"] <= faults'["es"]
<1>1. "es" \in FaultKinds /\ faults \in [FaultKinds -> Nat] /\ faults["es"] \in Nat
  BY DEF TypeOK, FaultKinds
<1>2. ASSUME NEW kind \in FaultKinds, Strike(kind)
      PROVE  faults' \in [FaultKinds -> Nat] /\ faults["es"] <= faults'["es"]
  <2>1. faults' \in [FaultKinds -> Nat]
    BY <1>2, StrikeCounts
  <2>2. faults'["es"] \in {faults["es"], faults["es"] + 1}
    BY <1>1, <1>2 DEF Strike
  <2> QED
    BY <1>1, <2>1, <2>2
<1> QED
  BY <1>1, <1>2

\* Steps that touch no claim.
LEMMA OthersSkipNothing ==
    ASSUME WorkerInv, EachSkipIsAFailure,
           faults' = faults \/ \E kind \in FaultKinds : Strike(kind),
           UNCHANGED <<committed, position, stage, audited>>
    PROVE  EachSkipIsAFailure'
BY FailuresGrow, NoMoreSkips DEF WorkerInv, Skipped, PassedBy

\* The end of a session, with or without a commit, and a commit within it.
LEMMA CommitSkipsNothing ==
    ASSUME WorkerInv, EachSkipIsAFailure, NEW w \in Workers,
           faults' = faults \/ \E kind \in FaultKinds : Strike(kind),
           committed' = committed \/ CommitOffsets(w),
           stage' = stage \/ End(w), UNCHANGED <<position, audited>>
    PROVE  EachSkipIsAFailure'
<1>1. ASSUME NEW e \in Entries, audited'[e.partition][e.offset] = 0,
             e.offset <= committed'[e.partition] \/ \E v \in Workers : PassedBy(v, e)'
      PROVE  e \in Skipped
  <2>1. e.partition \in Partitions /\ e.offset \in Nat
    BY DEF Entries, Partitions
  <2>2. ASSUME e.offset <= committed'[e.partition]
        PROVE  e.offset <= committed[e.partition] \/ PassedBy(w, e)
    <3>1. committed'[e.partition] \in {committed[e.partition], position[w][e.partition]}
      BY <2>1, CommitMovesOn
    <3> QED
      BY <2>2, <3>1 DEF PassedBy
  <2>3. ASSUME NEW v \in Workers, PassedBy(v, e)' PROVE PassedBy(v, e)
    <3>1. stage'[v][e.partition] = "mark" => stage[v][e.partition] = "mark"
      <4>1. CASE stage' = stage
        BY <4>1
      <4>2. CASE stage' = [stage EXCEPT ![w] = [p \in Partitions |-> "idle"]]
        <5>1. CASE v = w
          BY <2>1, <4>2, <5>1 DEF WorkerInv, TypeOK
        <5>2. CASE v # w
          BY <4>2, <5>2 DEF WorkerInv, TypeOK
        <5> QED
          BY <5>1, <5>2
      <4> QED
        BY <4>1, <4>2 DEF End
    <3> QED
      BY <2>3, <3>1 DEF PassedBy
  <2> QED
    BY <1>1, <2>2, <2>3 DEF Skipped
<1> QED
  BY <1>1, FailuresGrow, NoMoreSkips DEF WorkerInv

LEMMA RebalanceSkipsNothing ==
    ASSUME WorkerInv, EachSkipIsAFailure, Rebalance
    PROVE  EachSkipIsAFailure'
<1>1. /\ UNCHANGED <<committed, stage, audited>>
      /\ position' = [w \in Workers |->
            IF w \in Joiners THEN [p \in Partitions |-> committed[p]] ELSE position[w]]
  BY DEF Rebalance, StartOffset, outputVars
<1>2. faults' = faults \/ Strike("pause")
  BY DEF Rebalance
<1>3. \A w \in Joiners : Idle(w)
  BY DEF Joiners, InSession, WorkerInv, SessionsAreInOrder
<1>4. ASSUME NEW e \in Entries, NEW w \in Workers, PassedBy(w, e)'
      PROVE  e.offset <= committed[e.partition] \/ PassedBy(w, e)
  <2>1. e.partition \in Partitions
    BY DEF Entries, Partitions
  <2>2. CASE w \in Joiners
    <3>1. stage[w][e.partition] = "idle" /\ position'[w][e.partition] = committed[e.partition]
      BY <1>1, <1>3, <2>1, <2>2 DEF Idle
    <3> QED
      BY <1>1, <1>4, <3>1 DEF PassedBy
  <2>3. CASE w \notin Joiners
    BY <1>1, <1>4, <2>3 DEF PassedBy
  <2> QED
    BY <2>2, <2>3
<1>5. \A e \in Entries :
        /\ audited'[e.partition][e.offset] = 0
        /\ e.offset <= committed'[e.partition] \/ \E w \in Workers : PassedBy(w, e)'
        => e \in Skipped
  BY <1>1, <1>4 DEF Skipped
<1> QED
  BY <1>2, <1>5, FailuresGrow, NoMoreSkips DEF WorkerInv, FaultKinds

\* Where a claim has gone, and that all others have stayed where they were.
LEMMA Staged ==
    ASSUME WorkerInv, NEW w \in Workers, NEW p \in Partitions, NEW s, MovesTo(w, p, s)
    PROVE  /\ stage'[w][p] = s
           /\ \A v \in Workers, q \in Partitions : v # w \/ q # p => stage'[v][q] = stage[v][q]
<1>1. stage' = [stage EXCEPT ![w] = [stage[w] EXCEPT ![p] = s]]
  BY DEF MovesTo
<1> QED
  BY <1>1 DEF WorkerInv, TypeOK

\* A claim that does not go to "mark" passes nothing by.
LEMMA AdvanceSkipsNothing ==
    ASSUME WorkerInv, EachSkipIsAFailure, NEW w \in Workers, NEW p \in Partitions, NEW s,
           MovesTo(w, p, s), s # "mark" \/ p \notin ProductPartitions,
           faults' = faults \/ \E kind \in FaultKinds : Strike(kind),
           UNCHANGED <<committed, position, audited>>
    PROVE  EachSkipIsAFailure'
<1>1. ASSUME NEW e \in Entries, NEW v \in Workers, PassedBy(v, e)' PROVE PassedBy(v, e)
  <2>1. e.partition \in Partitions /\ e.partition \in ProductPartitions
    BY DEF Entries, Partitions
  <2>2. stage'[v][e.partition] = "mark" => stage[v][e.partition] = "mark"
    BY <2>1, Staged
  <2> QED
    BY <1>1, <2>2 DEF PassedBy
<1>2. \A e \in Entries :
        /\ audited'[e.partition][e.offset] = 0
        /\ e.offset <= committed'[e.partition] \/ \E v \in Workers : PassedBy(v, e)'
        => e \in Skipped
  BY <1>1 DEF Skipped
<1> QED
  BY <1>2, FailuresGrow, NoMoreSkips DEF WorkerInv

\* A claim that moves passes by the message it is at, if any.
LEMMA AdvanceSkipsOne ==
    ASSUME WorkerInv, NEW w \in Workers, NEW p \in Partitions, NEW s, MovesTo(w, p, s),
           UNCHANGED <<committed, position>>,
           NEW e \in Entries, audited[e.partition][e.offset] = 0,
           e.offset <= committed'[e.partition] \/ \E v \in Workers : PassedBy(v, e)'
    PROVE  e \in Skipped \cup {[partition |-> p, offset |-> position[w][p] + 1]}
<1>1. e.partition \in Partitions /\ e = [partition |-> e.partition, offset |-> e.offset]
  BY DEF Entries, Partitions
<1>2. CASE e.partition = p /\ e.offset = position[w][p] + 1
  BY <1>1, <1>2
<1>3. CASE ~(e.partition = p /\ e.offset = position[w][p] + 1)
  <2>1. ASSUME NEW v \in Workers, PassedBy(v, e)' PROVE PassedBy(v, e)
    <3>1. v # w \/ e.partition # p => stage'[v][e.partition] = stage[v][e.partition]
      BY <1>1, Staged
    <3> QED
      BY <1>3, <2>1, <3>1 DEF PassedBy
  <2> QED
    BY <2>1 DEF Skipped
<1> QED
  BY <1>2, <1>3

LEMMA SyncSkipsOne ==
    ASSUME WorkerInv, EachSkipIsAFailure, NEW w \in Workers, NEW p \in Partitions, Sync(w, p)
    PROVE  EachSkipIsAFailure'
<1>1. /\ UNCHANGED <<committed, position, audited>>
      /\ faults' = faults \/ \E kind \in FaultKinds : Strike(kind)
  BY DEF Sync, Failed, groupVars, FaultKinds
<1>2. ASSUME NEW s, s # "mark", MovesTo(w, p, s) PROVE EachSkipIsAFailure'
  BY <1>1, <1>2, AdvanceSkipsNothing
<1>3. CASE MovesTo(w, p, "mark") /\ Strike("es")
  <2>1. \A e \in Entries :
          /\ audited'[e.partition][e.offset] = 0
          /\ e.offset <= committed'[e.partition] \/ \E v \in Workers : PassedBy(v, e)'
          => e \in Skipped \cup {[partition |-> p, offset |-> position[w][p] + 1]}
    BY <1>1, <1>3, AdvanceSkipsOne
  <2> QED
    BY <1>3, <2>1, OneMoreSkip DEF WorkerInv
<1>4. \/ MovesTo(w, p, "audit") \/ MovesTo(w, p, "sync")
      \/ (MovesTo(w, p, "mark") /\ Strike("es"))
  BY StagedIsMoved, FailedIsMoved DEF Sync
<1> QED
  BY <1>2, <1>3, <1>4

LEMMA AuditSkipsOne ==
    ASSUME WorkerInv, EachSkipIsAFailure, NEW w \in Workers, NEW p \in Partitions, Audit(w, p)
    PROVE  EachSkipIsAFailure'
<1> DEFINE o == position[w][p] + 1
<1>1. /\ UNCHANGED <<committed, position>> /\ stage[w][p] = "audit"
      /\ faults' = faults \/ \E kind \in FaultKinds : Strike(kind)
  BY DEF Audit, Failed, groupVars, FaultKinds
<1>2. PICK s \in {"audit", "mark"} : MovesTo(w, p, s)
  BY <1>1, StagedIsMoved, FailedIsMoved DEF Audit
<1>3. o \in 1..MaxMessages
  <2>1. position[w][p] < Len(log[p])
    BY <1>1 DEF WorkerInv, SessionsAreInOrder
  <2>2. /\ position[w][p] \in Nat /\ Len(log[p]) \in Nat /\ Len(log[p]) <= MaxMessages
    BY DEF WorkerInv, TypeOK
  <2> QED
    BY <2>1, <2>2, MaxMessagesAssumption
<1>4. CASE audited' = [audited EXCEPT ![p] = [audited[p] EXCEPT ![o] = audited[p][o] + 1]]
  <2>1. audited[p] \in [1..MaxMessages -> Nat] /\ audited \in [Partitions -> [1..MaxMessages -> Nat]]
    BY DEF WorkerInv, TypeOK
  <2>2. audited'[p] = [audited[p] EXCEPT ![o] = audited[p][o] + 1]
    BY <1>4, <2>1
  <2>3. audited'[p][o] = audited[p][o] + 1 /\ audited[p][o] \in Nat
    BY <1>3, <2>1, <2>2
  <2>4. ASSUME NEW e \in Entries, audited'[e.partition][e.offset] = 0
        PROVE  audited[e.partition][e.offset] = 0 /\ ~(e.partition = p /\ e.offset = o)
    <3>1. e.partition \in Partitions /\ e.offset \in 1..MaxMessages
      BY DEF Entries, Partitions
    <3>2. ~(e.partition = p /\ e.offset = o)
      BY <2>3, <2>4
    <3>3. e.partition # p => audited'[e.partition] = audited[e.partition]
      BY <1>4, <2>1, <3>1
    <3>4. e.partition = p => audited'[p][e.offset] = audited[p][e.offset]
      BY <2>1, <2>2, <3>1, <3>2
    <3> QED
      BY <2>4, <3>2, <3>3, <3>4
  <2>5. \A e \in Entries :
          /\ audited'[e.partition][e.offset] = 0
          /\ e.offset <= committed'[e.partition] \/ \E v \in Workers : PassedBy(v, e)'
          => e \in Skipped
    BY <1>1, <1>2, <2>4, AdvanceSkipsOne
  <2> QED
    BY <1>1, <2>5, FailuresGrow, NoMoreSkips DEF WorkerInv
<1>5. CASE UNCHANGED audited
  <2>1. CASE Strike("es")
    <3>1. \A e \in Entries :
            /\ audited'[e.partition][e.offset] = 0
            /\ e.offset <= committed'[e.partition] \/ \E v \in Workers : PassedBy(v, e)'
            => e \in Skipped \cup {[partition |-> p, offset |-> position[w][p] + 1]}
      BY <1>1, <1>2, <1>5, AdvanceSkipsOne
    <3> QED
      BY <2>1, <3>1, OneMoreSkip DEF WorkerInv
  <2>2. Strike("es") \/ audited' = [audited EXCEPT ![p] = [audited[p] EXCEPT ![o] = audited[p][o] + 1]]
    BY DEF Audit, Failed
  <2> QED
    BY <1>4, <2>1, <2>2
<1> QED
  BY <1>4, <1>5 DEF Audit

\* What a claim marks it had passed by before.
LEMMA MarkSkipsNothing ==
    ASSUME WorkerInv, EachSkipIsAFailure, NEW w \in Workers, NEW p \in Partitions, Mark(w, p)
    PROVE  EachSkipIsAFailure'
<1>1. /\ UNCHANGED <<committed, audited, faults>> /\ MovesTo(w, p, "idle") /\ stage[w][p] = "mark"
      /\ position' = [position EXCEPT ![w] = [position[w] EXCEPT ![p] = position[w][p] + 1]]
  BY StagedIsMoved DEF Mark, groupVars, outputVars
<1>2. /\ position'[w][p] = position[w][p] + 1 /\ position[w][p] \in Nat
      /\ \A v \in Workers, q \in Partitions : v # w \/ q # p => position'[v][q] = position[v][q]
  BY <1>1 DEF WorkerInv, TypeOK
<1>3. ASSUME NEW e \in Entries, NEW v \in Workers, PassedBy(v, e)' PROVE PassedBy(v, e)
  <2>1. e.partition \in Partitions /\ e.offset \in Nat
    BY DEF Entries, Partitions
  <2>2. CASE v = w /\ e.partition = p
    <3>1. e.offset <= position[w][p] + 1
      BY <1>1, <1>2, <1>3, <2>2, Staged DEF PassedBy
    <3> QED
      BY <1>1, <1>2, <2>1, <2>2, <3>1 DEF PassedBy
  <2>3. CASE v # w \/ e.partition # p
    BY <1>1, <1>2, <1>3, <2>1, <2>3, Staged DEF PassedBy
  <2> QED
    BY <2>2, <2>3
<1>4. \A e \in Entries :
        /\ audited'[e.partition][e.offset] = 0
        /\ e.offset <= committed'[e.partition] \/ \E v \in Workers : PassedBy(v, e)'
        => e \in Skipped
  BY <1>1, <1>3 DEF Skipped
<1> QED
  BY <1>1, <1>4, FailuresGrow, NoMoreSkips DEF WorkerInv

LEMMA TakeSkipsNothing ==
    ASSUME WorkerInv, EachSkipIsAFailure, NEW w \in Workers, NEW p \in Partitions, Take(w, p)
    PROVE  EachSkipIsAFailure'
<1>1. PICK s \in {"sync", "mark"} : MovesTo(w, p, s) /\ (s = "mark" => p \notin ProductPartitions)
  BY StagedIsMoved DEF Take
<1> QED
  BY <1>1, AdvanceSkipsNothing DEF Take, groupVars

LEMMA SkippingSteps == WorkerInv /\ EachSkipIsAFailure /\ [Next]_vars => EachSkipIsAFailure'
<1> SUFFICES ASSUME WorkerInv, EachSkipIsAFailure, [Next]_vars PROVE EachSkipIsAFailure'
  OBVIOUS
<1> USE DEF groupVars, processVars, sessionVars, outputVars
<1>1. ASSUME NEW w \in Workers, NEW p \in Partitions, Claim(w, p) PROVE EachSkipIsAFailure'
  BY <1>1, TakeSkipsNothing, SyncSkipsOne, AuditSkipsOne, MarkSkipsNothing DEF Claim
<1>2. ASSUME NEW w \in Workers, Start(w) \/ LeaveSession(w) \/ Terminate(w)
      PROVE  EachSkipIsAFailure'
  BY <1>2, OthersSkipNothing DEF Start, LeaveSession, Terminate, FaultKinds
<1>3. ASSUME NEW w \in Workers, EndSession(w) \/ JoinFails(w) \/ AutoCommit(w) \/ Crash(w)
      PROVE  EachSkipIsAFailure'
  BY <1>3, CommitSkipsNothing DEF EndSession, Returned, JoinFails, AutoCommit, Crash, FaultKinds
<1>4. ASSUME UNCHANGED vars \/ \E p \in Partitions : Publish(p) PROVE EachSkipIsAFailure'
  BY <1>4, OthersSkipNothing DEF Publish, vars
<1> QED
  BY <1>1, <1>2, <1>3, <1>4, RebalanceSkipsNothing DEF Next

LEMMA SkipsAreFailures == Spec => []EachSkipIsAFailure
<1>1. Init => EachSkipIsAFailure
  <2> SUFFICES ASSUME Init PROVE EachSkipIsAFailure
    OBVIOUS
  <2>1. \A e \in Entries : ~(e.offset <= committed[e.partition]) /\ \A w \in Workers : ~PassedBy(w, e)
    BY DEF Init, Entries, Partitions, PassedBy
  <2>2. Skipped = {}
    BY <2>1 DEF Skipped
  <2> QED
    BY <2>2, FS_EmptySet DEF Init, EachSkipIsAFailure, FaultKinds
<1> QED
  BY <1>1, SkippingSteps, WorkerInvariance, PTL DEF Spec

\* For each event that is committed without an audit entry Elasticsearch has
\* failed once, for any number of workers, crashes and rebalances.
THEOREM LossesAreFailures == Spec => []EachLossIsAFailure
<1>1. WorkerInv /\ EachSkipIsAFailure => EachLossIsAFailure
  <2> SUFFICES ASSUME WorkerInv, EachSkipIsAFailure PROVE EachLossIsAFailure
    OBVIOUS
  <2>1. Missed \in SUBSET Skipped
    BY DEF Missed, Skipped
  <2>2. /\ Cardinality(Missed) <= Cardinality(Skipped)
        /\ Cardinality(Missed) \in Nat /\ Cardinality(Skipped) \in Nat
    BY <2>1, FS_Subset, FS_CardinalityType DEF EachSkipIsAFailure
  <2>3. faults["es"] \in Nat
    BY DEF WorkerInv, TypeOK, FaultKinds
  <2> QED
    BY <2>2, <2>3 DEF EachSkipIsAFailure, EachLossIsAFailure
<1> QED
  BY <1>1, SkipsAreFailures, WorkerInvariance, PTL
-----------------------------------------------------------------------------
(* The index.  While no request to Elasticsearch fails and no session is   *)
(* cut off, a document shows what some prefix of its partition makes of    *)
(* it, and that prefix reaches as far as anybody has marked or committed:  *)
(* so at the end of the partition it shows them all.                       *)

\* What was undisturbed after a step was so before, and the step no fault of
\* the two kinds.
LEMMA UndisturbedBefore ==
    ASSUME TypeOK, faults' = faults \/ \E kind \in FaultKinds : Strike(kind), Undisturbed'
    PROVE  Undisturbed /\ ~Strike("es") /\ ~Strike("pause")
<1>1. /\ "es" \in FaultKinds /\ "pause" \in FaultKinds
      /\ faults \in [FaultKinds -> Nat] /\ faults["es"] \in Nat /\ faults["pause"] \in Nat
  BY DEF TypeOK, FaultKinds
<1>2. ASSUME NEW kind \in FaultKinds, Strike(kind)
      PROVE  /\ faults'["es"] = IF kind = "es" THEN faults["es"] + 1 ELSE faults["es"]
             /\ faults'["pause"] = IF kind = "pause" THEN faults["pause"] + 1 ELSE faults["pause"]
  BY <1>1, <1>2 DEF Strike
<1>3. ~Strike("es") /\ ~Strike("pause")
  <2>1. Strike("es") => faults'["es"] = faults["es"] + 1
    BY <1>1, <1>2
  <2>2. Strike("pause") => faults'["pause"] = faults["pause"] + 1
    BY <1>1, <1>2
  <2> QED
    BY <1>1, <2>1, <2>2 DEF Undisturbed
<1>4. Undisturbed
  <2>1. CASE faults' = faults
    BY <2>1 DEF Undisturbed
  <2>2. ASSUME NEW kind \in FaultKinds, Strike(kind) PROVE Undisturbed
    <3>1. kind # "es" /\ kind # "pause"
      BY <1>3, <2>2
    <3> QED
      BY <1>2, <2>2, <3>1 DEF Undisturbed
  <2> QED
    BY <2>1, <2>2
<1> QED
  BY <1>3, <1>4

\* A step that writes no document keeps it where it is, if it takes nobody
\* further than the document is.
LEMMA DocumentStays ==
    ASSUME WorkerInv, NEW d \in Products, DocumentKeepsUp(d), index' = index,
           Len(log[PartitionOf[d]]) <= Len(log'[PartitionOf[d]]),
           Len(log'[PartitionOf[d]]) \in Nat,
           \A o \in 1..Len(log[PartitionOf[d]]) : log'[PartitionOf[d]][o] = log[PartitionOf[d]][o],
           \A j \in Nat : HasReached(PartitionOf[d], j) => HasReached(PartitionOf[d], j)'
    PROVE  DocumentKeepsUp(d)'
<1> DEFINE p == PartitionOf[d]
<1>1. PICK j \in 0..Len(log[p]) : ShowsPrefix(d, j) /\ HasReached(p, j)
  BY DEF DocumentKeepsUp
<1>2. p \in Partitions /\ Len(log[p]) \in Nat
  BY PartitionOfAssumption DEF WorkerInv, TypeOK, Partitions
<1>3. j \in Nat /\ j \in 0..Len(log'[p])
  BY <1>1, <1>2
<1>4. \A o \in 1..j : log'[p][o] = log[p][o]
  BY <1>1, <1>2
<1>5. ShowsPrefix(d, j)'
  BY <1>1, <1>4 DEF ShowsPrefix
<1>6. HasReached(p, j)'
  BY <1>1, <1>3
<1> QED
  BY <1>3, <1>5, <1>6 DEF DocumentKeepsUp

LEMMA PartitionsOfProducts ==
    ASSUME NEW d \in Products
    PROVE  PartitionOf[d] \in ProductPartitions /\ PartitionOf[d] \in Partitions
BY PartitionOfAssumption DEF Partitions

\* Steps on no claim: messages come, processes start, are told to stop or to
\* leave their session.
LEMMA OthersKeepUp ==
    ASSUME WorkerInv, IndexKeepsUp,
           faults' = faults \/ \E kind \in FaultKinds : Strike(kind),
           UNCHANGED <<committed, members, owner, sessionVars, index>>,
           \A w \in Workers : InSession(w)' => InSession(w),
           \A p \in Partitions :
               /\ Len(log'[p]) \in Nat /\ Len(log[p]) <= Len(log'[p])
               /\ \A o \in 1..Len(log[p]) : log'[p][o] = log[p][o]
    PROVE  IndexKeepsUp'
<1> SUFFICES ASSUME Undisturbed'
             PROVE  OwnersClaimAlone' /\ \A d \in Products : DocumentKeepsUp(d)'
  BY DEF IndexKeepsUp
<1>1. OwnersClaimAlone /\ \A d \in Products : DocumentKeepsUp(d)
  BY UndisturbedBefore DEF IndexKeepsUp, WorkerInv
<1>2. OwnersClaimAlone'
  BY <1>1 DEF OwnersClaimAlone, ClaimedBy, sessionVars
<1>3. \A p \in Partitions, j \in Nat : HasReached(p, j) => HasReached(p, j)'
  BY DEF HasReached, ClaimedBy, Reached, sessionVars
<1> QED
  BY <1>1, <1>2, <1>3, DocumentStays, PartitionsOfProducts

\* A commit goes no further than its worker has reached.
LEMMA CommitKeepsUp ==
    ASSUME WorkerInv, IndexKeepsUp, NEW w \in Workers,
           faults' = faults \/ \E kind \in FaultKinds : Strike(kind),
           committed' = committed \/ CommitOffsets(w),
           UNCHANGED <<phase, claims, stage>> \/ End(w),
           UNCHANGED <<log, members, owner, position, index>>
    PROVE  IndexKeepsUp'
<1> SUFFICES ASSUME Undisturbed'
             PROVE  OwnersClaimAlone' /\ \A d \in Products : DocumentKeepsUp(d)'
  BY DEF IndexKeepsUp
<1>1. OwnersClaimAlone /\ \A d \in Products : DocumentKeepsUp(d)
  BY UndisturbedBefore DEF IndexKeepsUp, WorkerInv
<1>2. ASSUME NEW v \in Workers, InSession(v)'
      PROVE  InSession(v) /\ claims'[v] = claims[v] /\ stage'[v] = stage[v]
  <2>1. CASE UNCHANGED <<phase, claims, stage>>
    BY <1>2, <2>1 DEF InSession
  <2>2. CASE End(w)
    <3>1. v # w
      BY <1>2, <2>2 DEF End, InSession, WorkerInv, TypeOK
    <3> QED
      BY <1>2, <2>2, <3>1 DEF End, InSession, WorkerInv, TypeOK
  <2> QED
    BY <2>1, <2>2
<1>3. OwnersClaimAlone'
  BY <1>1, <1>2 DEF OwnersClaimAlone, ClaimedBy
<1>4. ASSUME NEW p \in Partitions, NEW j \in Nat, HasReached(p, j) PROVE HasReached(p, j)'
  <2>1. committed'[p] <= j
    <3>1. CASE committed'[p] = committed[p]
      BY <1>4, <3>1 DEF HasReached
    <3>2. CASE committed'[p] # committed[p]
      <4>1. p \in claims[w] /\ committed'[p] = position[w][p]
        BY <3>2, CommitMovesOn
      <4>2. ClaimedBy(w, p)
        BY <4>1 DEF ClaimedBy, WorkerInv, SessionsAreInOrder
      <4>3. position[w][p] \in Nat /\ position[w][p] <= Reached(w, p) /\ Reached(w, p) \in Nat
        BY DEF Reached, WorkerInv, TypeOK
      <4>4. Reached(w, p) <= j
        BY <1>4, <4>2 DEF HasReached
      <4> QED
        BY <4>1, <4>3, <4>4
    <3> QED
      BY <3>1, <3>2
  <2>2. ASSUME NEW v \in Workers, ClaimedBy(v, p)' PROVE Reached(v, p)' <= j
    <3>1. ClaimedBy(v, p) /\ Reached(v, p)' = Reached(v, p)
      BY <1>2, <2>2 DEF ClaimedBy, Reached
    <3> QED
      BY <1>4, <3>1 DEF HasReached
  <2> QED
    BY <2>1, <2>2 DEF HasReached
<1>5. \A p \in Partitions : Len(log[p]) \in Nat
  BY DEF WorkerInv, TypeOK
<1> QED
  BY <1>1, <1>3, <1>4, <1>5, DocumentStays, PartitionsOfProducts

\* Without a pause everybody who was in a session has left it; the new owners
\* start from what was committed.
LEMMA RebalanceKeepsUp ==
    ASSUME WorkerInv, IndexKeepsUp, Rebalance
    PROVE  IndexKeepsUp'
<1> SUFFICES ASSUME Undisturbed'
             PROVE  OwnersClaimAlone' /\ \A d \in Products : DocumentKeepsUp(d)'
  BY DEF IndexKeepsUp
<1>1. faults' = faults \/ Strike("pause")
  BY DEF Rebalance
<1>2. /\ OwnersClaimAlone /\ \A d \in Products : DocumentKeepsUp(d)
      /\ ~Strike("pause")
  BY <1>1, UndisturbedBefore DEF IndexKeepsUp, WorkerInv, FaultKinds
<1>3. \A w \in Workers : ~InSession(w)
  BY <1>2 DEF Rebalance, OwnersClaimAlone
<1>4. /\ members' = Joiners
      /\ phase' = [w \in Workers |-> IF w \in Joiners THEN "running" ELSE phase[w]]
      /\ position' = [w \in Workers |->
            IF w \in Joiners THEN [p \in Partitions |-> committed[p]] ELSE position[w]]
      /\ UNCHANGED <<log, committed, stage, index>>
  BY DEF Rebalance, StartOffset, outputVars
<1>5. PICK assignment \in [Partitions -> Joiners] :
        /\ owner' = assignment
        /\ claims' = [w \in Workers |->
              IF w \in Joiners THEN {p \in Partitions : assignment[p] = w} ELSE claims[w]]
  BY DEF Rebalance
<1>6. \A w \in Workers : InSession(w)' => w \in Joiners
  BY <1>3, <1>4 DEF InSession
<1>7. OwnersClaimAlone'
  BY <1>4, <1>5, <1>6 DEF OwnersClaimAlone, ClaimedBy
<1>8. ASSUME NEW p \in Partitions, NEW j \in Nat, HasReached(p, j) PROVE HasReached(p, j)'
  <2>1. ASSUME NEW w \in Workers, ClaimedBy(w, p)' PROVE Reached(w, p)' = committed[p]
    <3>1. w \in Joiners
      BY <1>6, <2>1 DEF ClaimedBy
    <3>2. stage'[w][p] = "idle" /\ position'[w][p] = committed[p]
      BY <1>3, <1>4, <3>1 DEF WorkerInv, SessionsAreInOrder, Idle
    <3>3. committed[p] \in Nat
      BY DEF WorkerInv, TypeOK
    <3> QED
      BY <3>2, <3>3 DEF Reached
  <2> QED
    BY <1>4, <1>8, <2>1 DEF HasReached
<1>9. \A p \in Partitions : Len(log[p]) \in Nat
  BY DEF WorkerInv, TypeOK
<1> QED
  BY <1>2, <1>4, <1>7, <1>8, <1>9, DocumentStays, PartitionsOfProducts

\* Steps of a claim other than Sync: as far as it has reached it had before.
LEMMA ClaimKeepsUp ==
    ASSUME WorkerInv, IndexKeepsUp,
           faults' = faults \/ \E kind \in FaultKinds : Strike(kind),
           UNCHANGED <<groupVars, processVars, claims, index>>,
           \A w \in Workers, p \in ProductPartitions : Reached(w, p)' = Reached(w, p)
    PROVE  IndexKeepsUp'
<1> SUFFICES ASSUME Undisturbed'
             PROVE  OwnersClaimAlone' /\ \A d \in Products : DocumentKeepsUp(d)'
  BY DEF IndexKeepsUp
<1> USE DEF groupVars, processVars
<1>1. OwnersClaimAlone /\ \A d \in Products : DocumentKeepsUp(d)
  BY UndisturbedBefore DEF IndexKeepsUp, WorkerInv
<1>2. OwnersClaimAlone'
  BY <1>1 DEF OwnersClaimAlone, ClaimedBy, InSession
<1>3. \A p \in ProductPartitions, j \in Nat : HasReached(p, j) => HasReached(p, j)'
  BY DEF HasReached, ClaimedBy, InSession
<1>4. \A p \in Partitions : Len(log[p]) \in Nat
  BY DEF WorkerInv, TypeOK
<1> QED
  BY <1>1, <1>2, <1>3, <1>4, DocumentStays, PartitionsOfProducts

LEMMA TakeKeepsUp ==
    ASSUME WorkerInv, IndexKeepsUp, NEW w \in Workers, NEW p \in Partitions, Take(w, p)
    PROVE  IndexKeepsUp'
<1>1. PICK s \in {"sync", "mark"} : MovesTo(w, p, s) /\ (s = "mark" => p \notin ProductPartitions)
  BY StagedIsMoved DEF Take
<1>2. stage[w][p] = "idle" /\ UNCHANGED <<groupVars, processVars, claims, position, index, faults>>
  BY DEF Take
<1>3. ASSUME NEW v \in Workers, NEW q \in ProductPartitions PROVE Reached(v, q)' = Reached(v, q)
  <2>1. q \in Partitions
    BY DEF Partitions
  <2>2. CASE v = w /\ q = p
    <3>1. stage'[v][q] = "sync" /\ stage[v][q] = "idle"
      BY <1>1, <1>2, <2>2, Staged
    <3> QED
      BY <1>2, <3>1 DEF Reached
  <2>3. CASE v # w \/ q # p
    BY <1>1, <1>2, <2>1, <2>3, Staged DEF Reached
  <2> QED
    BY <2>2, <2>3
<1> QED
  BY <1>2, <1>3, ClaimKeepsUp

LEMMA AuditKeepsUp ==
    ASSUME WorkerInv, IndexKeepsUp, NEW w \in Workers, NEW p \in Partitions, Audit(w, p)
    PROVE  IndexKeepsUp'
<1>1. /\ stage[w][p] = "audit"
      /\ UNCHANGED <<groupVars, processVars, claims, position, index>>
      /\ faults' = faults \/ \E kind \in FaultKinds : Strike(kind)
  BY DEF Audit, Failed, FaultKinds
<1>2. PICK s \in {"audit", "mark"} : MovesTo(w, p, s)
  BY <1>1, StagedIsMoved, FailedIsMoved DEF Audit
<1>3. ASSUME NEW v \in Workers, NEW q \in ProductPartitions PROVE Reached(v, q)' = Reached(v, q)
  <2>1. q \in Partitions
    BY DEF Partitions
  <2>2. CASE v = w /\ q = p
    <3>1. stage'[v][q] \in {"audit", "mark"} /\ stage[v][q] = "audit"
      BY <1>1, <1>2, <2>2, Staged
    <3> QED
      BY <1>1, <3>1 DEF Reached
  <2>3. CASE v # w \/ q # p
    BY <1>1, <1>2, <2>1, <2>3, Staged DEF Reached
  <2> QED
    BY <2>2, <2>3
<1> QED
  BY <1>1, <1>3, ClaimKeepsUp

LEMMA MarkKeepsUp ==
    ASSUME WorkerInv, IndexKeepsUp, NEW w \in Workers, NEW p \in Partitions, Mark(w, p)
    PROVE  IndexKeepsUp'
<1>1. /\ MovesTo(w, p, "idle") /\ stage[w][p] = "mark"
      /\ UNCHANGED <<groupVars, processVars, claims, index, faults>>
      /\ position' = [position EXCEPT ![w] = [position[w] EXCEPT ![p] = position[w][p] + 1]]
  BY StagedIsMoved DEF Mark, outputVars
<1>2. /\ position'[w][p] = position[w][p] + 1 /\ position[w][p] \in Nat
      /\ \A v \in Workers, q \in Partitions : v # w \/ q # p => position'[v][q] = position[v][q]
  BY <1>1 DEF WorkerInv, TypeOK
<1>3. ASSUME NEW v \in Workers, NEW q \in ProductPartitions PROVE Reached(v, q)' = Reached(v, q)
  <2>1. q \in Partitions
    BY DEF Partitions
  <2>2. CASE v = w /\ q = p
    <3>1. stage'[v][q] = "idle" /\ stage[v][q] = "mark"
      BY <1>1, <2>2, Staged
    <3> QED
      BY <1>2, <2>2, <3>1 DEF Reached
  <2>3. CASE v # w \/ q # p
    BY <1>1, <1>2, <2>1, <2>3, Staged DEF Reached
  <2> QED
    BY <2>2, <2>3
<1> QED
  BY <1>1, <1>3, ClaimKeepsUp

\* The request to Elasticsearch: the owner's next message, or an old one again
\* in a replay, which takes the document back to what is being replayed.
LEMMA SyncKeepsUp ==
    ASSUME WorkerInv, IndexKeepsUp, NEW w \in Workers, NEW p \in Partitions, Sync(w, p)
    PROVE  IndexKeepsUp'
<1> SUFFICES ASSUME Undisturbed'
             PROVE  OwnersClaimAlone' /\ \A d \in Products : DocumentKeepsUp(d)'
  BY DEF IndexKeepsUp
<1> USE DEF groupVars, processVars
<1>1. PICK n \in Nat : n = position[w][p]
  BY DEF WorkerInv, TypeOK
<1>2. PICK e \in Event : e = Current(w, p) /\ e = log[p][n + 1]
  BY <1>1, CurrentIsAnEvent DEF Sync, Current
<1>3. /\ faults' = faults \/ \E kind \in FaultKinds : Strike(kind)
      /\ UNCHANGED <<groupVars, processVars, claims, position>>
      /\ stage[w][p] = "sync"
  BY DEF Sync, Failed, FaultKinds
<1>4. /\ OwnersClaimAlone /\ \A d \in Products : DocumentKeepsUp(d)
      /\ ~Strike("es")
  BY <1>3, UndisturbedBefore DEF IndexKeepsUp, WorkerInv
<1>5. MovesTo(w, p, "audit") /\ index' = [index EXCEPT ![e.product] = Document(e)]
  BY <1>2, <1>4, StagedIsMoved DEF Sync, Failed
<1>6. /\ InSession(w) /\ p \in claims[w] /\ n < Len(log[p]) /\ Len(log[p]) \in Nat
      /\ w \in members /\ owner[p] = w /\ committed[p] <= n /\ committed[p] \in Nat
  <2>1. InSession(w) /\ p \in claims[w] /\ n < Len(log[p])
    BY <1>1, <1>3, AtWorkIsInSession DEF WorkerInv, SessionsAreInOrder
  <2>2. w \in members /\ owner[p] = w
    BY <1>4, <2>1 DEF OwnersClaimAlone, ClaimedBy
  <2>3. committed[p] <= n /\ committed[p] \in Nat /\ Len(log[p]) \in Nat
    BY <1>1, <2>1, <2>2 DEF WorkerInv, OwnersAreAhead, TypeOK
  <2> QED
    BY <2>1, <2>2, <2>3
<1>7. OwnersClaimAlone'
  BY <1>3, <1>4 DEF OwnersClaimAlone, ClaimedBy, InSession
<1>8. \A v \in Workers : ClaimedBy(v, p)' => v = w
  BY <1>3, <1>4, <1>6 DEF OwnersClaimAlone, ClaimedBy, InSession
<1>9. Reached(w, p)' = n + 1 /\ Reached(w, p) = n
  <2>1. stage'[w][p] = "audit"
    BY <1>5, Staged
  <2> QED
    BY <1>1, <1>3, <2>1 DEF Reached
<1>10. HasReached(p, n + 1)'
  BY <1>3, <1>6, <1>8, <1>9 DEF HasReached
<1>11. ASSUME NEW d \in Products PROVE DocumentKeepsUp(d)'
  <2>1. PICK j \in 0..Len(log[PartitionOf[d]]) :
          ShowsPrefix(d, j) /\ HasReached(PartitionOf[d], j)
    BY <1>4 DEF DocumentKeepsUp
  <2>2. PartitionOf[d] \in Partitions
    BY PartitionsOfProducts
  <2>3. CASE PartitionOf[d] # p
    <3>1. e.product # d
      <4>1. e \in MessagesOf(p) /\ p \notin InvoicePartitions
        <5>1. p \in ProductPartitions
          BY <1>3 DEF WorkerInv, SessionsAreInOrder
        <5>2. n + 1 \in 1..Len(log[p]) /\ log[p] \in Seq(MessagesOf(p))
          BY <1>6 DEF WorkerInv, TypeOK
        <5> QED
          BY <1>2, <5>1, <5>2, TopicsAssumption
      <4> QED
        BY <2>3, <4>1 DEF MessagesOf
    <3>2. index'[d] = index[d]
      BY <1>5, <3>1 DEF WorkerInv, TypeOK
    <3>3. \A v \in Workers : stage'[v][PartitionOf[d]] = stage[v][PartitionOf[d]]
      BY <1>5, <2>2, <2>3, Staged
    <3>4. HasReached(PartitionOf[d], j)'
      BY <1>3, <2>1, <3>3 DEF HasReached, ClaimedBy, Reached, InSession
    <3>5. ShowsPrefix(d, j)'
      BY <1>3, <2>1, <3>2 DEF ShowsPrefix
    <3> QED
      BY <1>3, <2>1, <3>4, <3>5 DEF DocumentKeepsUp
  <2>4. CASE PartitionOf[d] = p /\ e.product = d
    <3>1. index'[d] = Document(e)
      BY <1>5, <2>4 DEF WorkerInv, TypeOK
    <3>2. n + 1 \in 1..(n + 1) /\ \A q \in 1..(n + 1) : ~(q > n + 1)
      BY <1>1
    <3>3. ShowsPrefix(d, n + 1)'
      BY <1>2, <1>3, <2>4, <3>1, <3>2 DEF ShowsPrefix
    <3>4. n + 1 \in 0..Len(log'[PartitionOf[d]])
      BY <1>3, <1>6, <2>4
    <3> QED
      BY <1>10, <2>4, <3>3, <3>4 DEF DocumentKeepsUp
  <2>5. CASE PartitionOf[d] = p /\ e.product # d
    <3>1. index'[d] = index[d]
      BY <1>5, <2>5 DEF WorkerInv, TypeOK
    <3>2. n <= j /\ j \in Nat
      BY <1>6, <1>9, <2>1, <2>5 DEF HasReached, ClaimedBy
    <3>3. CASE j = n
      <4>1. \A o \in 1..(n + 1) : o \in 1..n \/ o = n + 1
        BY <1>1
      <4>2. 1..n \subseteq 1..(n + 1)
        BY <1>1
      <4>3. ShowsPrefix(d, n + 1)'
        <5>1. log' = log
          BY <1>3
        <5>2. log[PartitionOf[d]][n + 1].product # d
          BY <1>2, <2>5
        <5> QED
          BY <2>1, <3>1, <3>3, <4>1, <4>2, <5>1, <5>2 DEF ShowsPrefix
      <4>4. n + 1 \in 0..Len(log'[PartitionOf[d]])
        BY <1>3, <1>6, <2>5
      <4> QED
        BY <1>10, <2>5, <4>3, <4>4 DEF DocumentKeepsUp
    <3>4. CASE j # n
      <4>1. n + 1 <= j
        BY <3>2, <3>4
      <4>2. HasReached(p, j)'
        BY <1>3, <1>6, <1>8, <1>9, <3>2, <4>1 DEF HasReached
      <4>3. ShowsPrefix(d, j)'
        BY <1>3, <2>1, <3>1 DEF ShowsPrefix
      <4> QED
        BY <1>3, <2>1, <2>5, <4>2, <4>3 DEF DocumentKeepsUp
    <3> QED
      BY <3>3, <3>4
  <2> QED
    BY <2>3, <2>4, <2>5
<1> QED
  BY <1>7, <1>11

LEMMA PublishKeepsUp ==
    ASSUME WorkerInv, IndexKeepsUp, NEW p \in Partitions, Publish(p)
    PROVE  IndexKeepsUp'
<1>1. PICK m \in MessagesOf(p) : log' = [log EXCEPT ![p] = Append(log[p], m)]
  BY DEF Publish
<1>2. ASSUME NEW q \in Partitions
      PROVE  /\ Len(log'[q]) \in Nat /\ Len(log[q]) <= Len(log'[q])
             /\ \A o \in 1..Len(log[q]) : log'[q][o] = log[q][o]
  <2>1. log[q] \in Seq(MessagesOf(q))
    BY DEF WorkerInv, TypeOK
  <2>2. CASE q = p
    <3>1. log'[q] = Append(log[q], m)
      BY <1>1, <2>2 DEF WorkerInv, TypeOK
    <3> QED
      BY <2>1, <2>2, <3>1
  <2>3. CASE q # p
    <3>1. log'[q] = log[q]
      BY <1>1, <2>3 DEF WorkerInv, TypeOK
    <3> QED
      BY <2>1, <3>1
  <2> QED
    BY <2>2, <2>3
<1> QED
  BY <1>2, OthersKeepUp DEF Publish, processVars, outputVars, InSession

LEMMA IndexSteps == WorkerInv /\ IndexKeepsUp /\ [Next]_vars => IndexKeepsUp'
<1> SUFFICES ASSUME WorkerInv, IndexKeepsUp, [Next]_vars PROVE IndexKeepsUp'
  OBVIOUS
<1>1. ASSUME NEW w \in Workers, NEW p \in Partitions, Claim(w, p) PROVE IndexKeepsUp'
  BY <1>1, TakeKeepsUp, SyncKeepsUp, AuditKeepsUp, MarkKeepsUp DEF Claim
<1>2. ASSUME UNCHANGED log,
             UNCHANGED <<committed, members, owner, sessionVars, index>>,
             faults' = faults \/ \E kind \in FaultKinds : Strike(kind),
             \A v \in Workers : InSession(v)' => InSession(v)
      PROVE  IndexKeepsUp'
  <2>1. \A p \in Partitions : Len(log[p]) \in Nat
    BY DEF WorkerInv, TypeOK
  <2> QED
    BY <1>2, <2>1, OthersKeepUp
<1>3. ASSUME NEW w \in Workers, Start(w) \/ LeaveSession(w) \/ Terminate(w) PROVE IndexKeepsUp'
  <2>1. \A v \in Workers : InSession(v)' => InSession(v)
    BY <1>3 DEF Start, LeaveSession, Terminate, InSession, WorkerInv, TypeOK
  <2> QED
    BY <1>2, <1>3, <2>1 DEF Start, LeaveSession, Terminate, groupVars, outputVars, FaultKinds
<1>4. ASSUME NEW w \in Workers, EndSession(w) \/ JoinFails(w) \/ AutoCommit(w) \/ Crash(w)
      PROVE  IndexKeepsUp'
  BY <1>4, CommitKeepsUp
  DEF EndSession, Returned, JoinFails, AutoCommit, Crash, FaultKinds, groupVars, processVars,
      sessionVars, outputVars
<1>5. CASE UNCHANGED vars
  BY <1>2, <1>5 DEF vars, groupVars, processVars, outputVars, InSession
<1> QED
  BY <1>1, <1>3, <1>4, <1>5, PublishKeepsUp, RebalanceKeepsUp DEF Next

\* Where a partition is consumed and nobody is at work on it, the search index
\* shows its products as their last events left them, however often workers
\* crashed, were told to stop and replayed, as long as Elasticsearch answers
\* and no session is cut off.
THEOREM IndexConverges == Spec => []ReplaysConverge
<1>1. Init => IndexKeepsUp
  <2> SUFFICES ASSUME Init PROVE IndexKeepsUp
    OBVIOUS
  <2>1. \A w \in Workers : ~InSession(w)
    BY DEF Init, InSession
  <2>2. ASSUME NEW d \in Products PROVE DocumentKeepsUp(d)
    <3>1. log[PartitionOf[d]] = << >> /\ committed[PartitionOf[d]] = 0 /\ index[d] = None
      BY PartitionsOfProducts DEF Init
    <3>2. ShowsPrefix(d, 0) /\ HasReached(PartitionOf[d], 0) /\ 0 \in 0..Len(log[PartitionOf[d]])
      BY <2>1, <3>1 DEF ShowsPrefix, HasReached, ClaimedBy
    <3> QED
      BY <3>2 DEF DocumentKeepsUp
  <2> QED
    BY <2>1, <2>2 DEF IndexKeepsUp, OwnersClaimAlone, ClaimedBy
<1>2. Spec => []IndexKeepsUp
  BY <1>1, IndexSteps, WorkerInvariance, PTL DEF Spec
<1>3. WorkerInv /\ IndexKeepsUp => ReplaysConverge
  <2> SUFFICES ASSUME WorkerInv, IndexKeepsUp, Undisturbed, NEW d \in Products,
                      committed[PartitionOf[d]] = Len(log[PartitionOf[d]])
               PROVE  index[d] = Latest(d)
    BY DEF ReplaysConverge, Undisturbed
  <2> DEFINE p == PartitionOf[d]
  <2>1. Len(log[p]) \in Nat
    BY PartitionsOfProducts DEF WorkerInv, TypeOK
  <2>2. PICK j \in 0..Len(log[p]) : ShowsPrefix(d, j) /\ HasReached(p, j)
    BY DEF IndexKeepsUp, DocumentKeepsUp
  <2>3. j = Len(log[p])
    BY <2>1, <2>2 DEF HasReached
  <2>4. CASE index[d] = None /\ \A o \in 1..j : log[p][o].product # d
    <3>1. EventsOf(d) = {}
      BY <2>3, <2>4 DEF EventsOf
    <3> QED
      BY <2>4, <3>1 DEF Latest
  <2>5. ASSUME NEW o \in 1..j, log[p][o].product = d, index[d] = Document(log[p][o]),
               \A q \in 1..j : q > o => log[p][q].product # d
        PROVE  index[d] = Latest(d)
    <3>1. o \in EventsOf(d)
      BY <2>3, <2>5 DEF EventsOf
    <3>2. EventsOf(d) \subseteq Int
      BY <2>1 DEF EventsOf
    <3>3. \A q \in EventsOf(d) : q <= o
      <4> TAKE q \in EventsOf(d)
      <4>1. q \in 1..j /\ log[p][q].product = d
        BY <2>3 DEF EventsOf
      <4> QED
        BY <2>5, <4>1
    <3>4. \A x \in EventsOf(d) : (\A q \in EventsOf(d) : q <= x) => x = o
      BY <3>1, <3>2, <3>3
    <3>5. (CHOOSE x \in EventsOf(d) : \A q \in EventsOf(d) : q <= x) = o
      BY <3>1, <3>3, <3>4
    <3> QED
      BY <2>5, <3>1, <3>5 DEF Latest
  <2> QED
    BY <2>2, <2>4, <2>5 DEF ShowsPrefix
<1> QED
  BY <1>2, <1>3, WorkerInvariance, PTL
-----------------------------------------------------------------------------
(* The replays.  An audit entry is written by a session that has claimed   *)
(* the message and not passed it; a session that ends in order hands what  *)
(* it has not passed to the next one, through the committed offset.  Only  *)
(* a crash, or a commit that fails, leaves a message to the next session   *)
(* that was written already, and only a pause lets the next session in     *)
(* while the old one is at work.  A request that fails may be repeated     *)
(* after it has taken effect.                                              *)

\* The quantities that are weighed.
LEMMA ReplaysAreNumbers ==
    ASSUME TypeOK, NEW p \in ProductPartitions, NEW o \in 1..MaxMessages,
           IsFiniteSet(Auditors(p, o))
    PROVE  /\ audited[p][o] \in Nat /\ ReplayFaults \in Nat
           /\ Cardinality(Auditors(p, o)) \in Nat /\ NextSession(p, o) \in {0, 1}
<1>1. p \in Partitions
  BY DEF Partitions
<1>2. audited[p][o] \in Nat
  <2>1. audited[p] \in [1..MaxMessages -> Nat]
    BY <1>1 DEF TypeOK
  <2> QED
    BY <2>1
<1>3. ReplayFaults \in Nat
  <2>1. \A kind \in FaultKinds : faults[kind] \in Nat
    BY DEF TypeOK
  <2> QED
    BY <2>1 DEF FaultKinds, ReplayFaults
<1> QED
  BY <1>2, <1>3, FS_CardinalityType DEF NextSession

\* These faults are not taken back, and every one of them counts.
LEMMA ReplayFaultsGrow ==
    ASSUME TypeOK, NEW kind \in FaultKinds, Strike(kind)
    PROVE  ReplayFaults' = IF kind = "term" THEN ReplayFaults ELSE ReplayFaults + 1
<1>1. \A k \in FaultKinds : faults[k] \in Nat /\ (k # kind => faults'[k] = faults[k])
  BY DEF TypeOK, Strike
<1>2. faults'[kind] = faults[kind] + 1
  BY DEF TypeOK, Strike
<1>3. CASE kind = "crash"
  BY <1>1, <1>2, <1>3 DEF ReplayFaults, FaultKinds
<1>4. CASE kind = "pause"
  BY <1>1, <1>2, <1>4 DEF ReplayFaults, FaultKinds
<1>5. CASE kind = "commit"
  BY <1>1, <1>2, <1>5 DEF ReplayFaults, FaultKinds
<1>6. CASE kind = "es"
  BY <1>1, <1>2, <1>6 DEF ReplayFaults, FaultKinds
<1>7. CASE kind = "term"
  BY <1>1, <1>2, <1>7 DEF ReplayFaults, FaultKinds
<1> QED
  BY <1>3, <1>4, <1>5, <1>6, <1>7 DEF FaultKinds

\* A step in which no entry is written and no session comes to write one.
LEMMA NoMoreReplays ==
    ASSUME TypeOK, TypeOK', NEW p \in ProductPartitions, NEW o \in 1..MaxMessages,
           ReplayIsPaidFor(p, o), audited'[p][o] = audited[p][o],
           Auditors(p, o)' \subseteq Auditors(p, o), ReplayFaults <= ReplayFaults',
           NextSession(p, o)' <= NextSession(p, o) \/ ReplayFaults' = ReplayFaults + 1
    PROVE  ReplayIsPaidFor(p, o)'
<1>1. /\ IsFiniteSet(Auditors(p, o)')
      /\ Cardinality(Auditors(p, o)') <= Cardinality(Auditors(p, o))
  BY FS_Subset DEF ReplayIsPaidFor
<1>2. /\ audited[p][o] \in Nat /\ ReplayFaults \in Nat
      /\ Cardinality(Auditors(p, o)) \in Nat /\ NextSession(p, o) \in {0, 1}
  BY ReplaysAreNumbers DEF ReplayIsPaidFor
<1>3. Cardinality(Auditors(p, o)') \in Nat
  BY <1>1, FS_CardinalityType
<1>4. NextSession(p, o)' \in {0, 1}
  BY DEF NextSession
<1>5. ReplayFaults' \in Nat
  <2>1. \A kind \in FaultKinds : faults'[kind] \in Nat
    BY DEF TypeOK
  <2> QED
    BY <2>1 DEF FaultKinds, ReplayFaults
<1>6. audited[p][o] + (Cardinality(Auditors(p, o)) + NextSession(p, o)) <= 1 + ReplayFaults
  BY DEF ReplayIsPaidFor, EntriesToCome
<1>7. audited'[p][o] + (Cardinality(Auditors(p, o)') + NextSession(p, o)') <= 1 + ReplayFaults'
  BY <1>1, <1>2, <1>3, <1>4, <1>5, <1>6
<1> QED
  BY <1>1, <1>7 DEF ReplayIsPaidFor, EntriesToCome

\* Steps that change nothing of the sessions and the offsets.
LEMMA OthersReplayNothing ==
    ASSUME TypeOK, TypeOK', NEW p \in ProductPartitions, NEW o \in 1..MaxMessages,
           ReplayIsPaidFor(p, o), UNCHANGED <<committed, members, owner, claims, position, stage, audited>>,
           \A w \in Workers : InSession(w)' <=> InSession(w),
           faults' = faults \/ Strike("term")
    PROVE  ReplayIsPaidFor(p, o)'
<1>1. p \in Partitions /\ members \subseteq Workers
  BY DEF Partitions, TypeOK
<1>2. Auditors(p, o)' = Auditors(p, o)
  BY DEF Auditors, ClaimedBy
<1>3. Held(p)' <=> Held(p)
  BY <1>1 DEF Held, ClaimedBy
<1>4. NextSession(p, o)' = NextSession(p, o)
  BY <1>3 DEF NextSession
<1>5. ReplayFaults' = ReplayFaults
  BY ReplayFaultsGrow DEF ReplayFaults, FaultKinds
<1>6. ReplayFaults \in Nat /\ NextSession(p, o) \in {0, 1}
  BY ReplaysAreNumbers DEF ReplayIsPaidFor
<1> QED
  BY <1>2, <1>4, <1>5, <1>6, NoMoreReplays

\* The handover of a rebalance.  The session that comes is the one that had to
\* come, unless the group did not wait for the old one to end.
LEMMA RebalanceReplaysOnce ==
    ASSUME WorkerInv, TypeOK', NEW p \in ProductPartitions, NEW o \in 1..MaxMessages,
           ReplayIsPaidFor(p, o), Rebalance
    PROVE  ReplayIsPaidFor(p, o)'
<1>1. /\ members' = Joiners
      /\ phase' = [w \in Workers |-> IF w \in Joiners THEN "running" ELSE phase[w]]
      /\ position' = [w \in Workers |->
            IF w \in Joiners THEN [q \in Partitions |-> committed[q]] ELSE position[w]]
      /\ UNCHANGED <<log, committed, stage, stopping, audited>>
  BY DEF Rebalance, StartOffset, outputVars
<1>2. PICK assignment \in [Partitions -> Joiners] :
        /\ owner' = assignment
        /\ claims' = [w \in Workers |->
              IF w \in Joiners THEN {q \in Partitions : assignment[q] = w} ELSE claims[w]]
  BY DEF Rebalance
<1> DEFINE next == assignment[p]
<1>3. p \in Partitions /\ next \in Joiners /\ next \in Workers /\ Joiners \subseteq Workers
  BY DEF Partitions, Joiners
<1>4. NextSession(p, o)' = 0
  <2>1. owner'[p] = next /\ phase'[next] = "running" /\ p \in claims'[next]
    BY <1>1, <1>2, <1>3
  <2> QED
    BY <1>1, <1>3, <2>1 DEF NextSession, Held, ClaimedBy, InSession
<1>5. Auditors(p, o)' \subseteq Auditors(p, o) \cup {next}
  <2> SUFFICES ASSUME NEW w \in Auditors(p, o)', w # next PROVE w \in Auditors(p, o)
    OBVIOUS
  <2>1. w \in Workers /\ p \in claims'[w]
    BY DEF Auditors, ClaimedBy
  <2>2. w \notin Joiners
    BY <1>2, <2>1
  <2>3. phase'[w] = phase[w] /\ claims'[w] = claims[w] /\ position'[w] = position[w]
    BY <1>1, <1>2, <2>1, <2>2
  <2> QED
    BY <1>1, <2>1, <2>3 DEF Auditors, ClaimedBy, InSession
<1>6. o <= committed[p] => Auditors(p, o)' \subseteq Auditors(p, o)
  <2> SUFFICES ASSUME o <= committed[p] PROVE next \notin Auditors(p, o)'
    BY <1>5
  <2>1. position'[next][p] = committed[p]
    BY <1>1, <1>3
  <2>2. stage'[next][p] = "idle"
    BY <1>1, <1>3 DEF Joiners, InSession, WorkerInv, SessionsAreInOrder, Idle
  <2>3. committed[p] \in Nat /\ o \in Nat
    BY <1>3 DEF WorkerInv, TypeOK
  <2> QED
    BY <2>1, <2>2, <2>3 DEF Auditors
<1>7. /\ IsFiniteSet(Auditors(p, o) \cup {next})
      /\ Cardinality(Auditors(p, o) \cup {next}) \in
            {Cardinality(Auditors(p, o)), Cardinality(Auditors(p, o)) + 1}
  BY FS_AddElement DEF ReplayIsPaidFor
<1>8. /\ IsFiniteSet(Auditors(p, o)') /\ Cardinality(Auditors(p, o)') \in Nat
      /\ Cardinality(Auditors(p, o)') <= Cardinality(Auditors(p, o) \cup {next})
  BY <1>5, <1>7, FS_Subset, FS_CardinalityType
<1>9. /\ audited[p][o] \in Nat /\ ReplayFaults \in Nat
      /\ Cardinality(Auditors(p, o)) \in Nat /\ NextSession(p, o) \in {0, 1}
  BY ReplaysAreNumbers DEF ReplayIsPaidFor, WorkerInv
<1>10. audited[p][o] + (Cardinality(Auditors(p, o)) + NextSession(p, o)) <= 1 + ReplayFaults
  BY DEF ReplayIsPaidFor, EntriesToCome
<1>11. audited'[p][o] + (Cardinality(Auditors(p, o)') + NextSession(p, o)') <= 1 + ReplayFaults'
  <2>1. CASE (\A w \in members : ~InSession(w)) /\ UNCHANGED faults
    <3>1. ReplayFaults' = ReplayFaults
      BY <2>1 DEF ReplayFaults
    <3>2. CASE o <= committed[p]
      <4>1. Cardinality(Auditors(p, o)') <= Cardinality(Auditors(p, o))
        BY <1>6, <3>2, FS_Subset DEF ReplayIsPaidFor
      <4> QED
        BY <1>1, <1>4, <1>8, <1>9, <1>10, <3>1, <4>1
    <3>3. CASE ~(o <= committed[p])
      <4>1. committed[p] \in Nat /\ o \in Nat
        BY <1>3 DEF WorkerInv, TypeOK
      <4>2. NextSession(p, o) = 1
        BY <2>1, <3>3, <4>1 DEF NextSession, Held, ClaimedBy
      <4> QED
        BY <1>1, <1>4, <1>7, <1>8, <1>9, <1>10, <3>1, <4>2
    <3> QED
      BY <3>2, <3>3
  <2>2. CASE Strike("pause")
    <3>1. ReplayFaults' = ReplayFaults + 1
      BY <2>2, ReplayFaultsGrow DEF WorkerInv, FaultKinds
    <3> QED
      BY <1>1, <1>4, <1>7, <1>8, <1>9, <1>10, <3>1
  <2> QED
    BY <2>1, <2>2 DEF Rebalance
<1> QED
  BY <1>8, <1>11 DEF ReplayIsPaidFor, EntriesToCome

\* A session that is over writes nothing more.
LEMMA EndedWritesNothing ==
    ASSUME WorkerInv, NEW w \in Workers, End(w), UNCHANGED <<members, owner, position>>,
           NEW p \in ProductPartitions, NEW o \in 1..MaxMessages
    PROVE  /\ Auditors(p, o)' \subseteq Auditors(p, o) \ {w}
           /\ Held(p)' <=> Held(p) /\ owner[p] # w
<1>1. /\ phase'[w] = "down" /\ claims'[w] = {}
      /\ \A v \in Workers \ {w} :
           phase'[v] = phase[v] /\ claims'[v] = claims[v] /\ stage'[v] = stage[v]
  BY DEF End, WorkerInv, TypeOK
<1>2. ASSUME NEW v \in Auditors(p, o)' PROVE v \in Auditors(p, o) \ {w}
  <2>1. v \in Workers /\ v # w
    BY <1>1, <1>2 DEF Auditors, ClaimedBy
  <2>2. phase'[v] = phase[v] /\ claims'[v] = claims[v] /\ stage'[v] = stage[v]
    BY <1>1, <2>1
  <2> QED
    BY <1>2, <2>1, <2>2 DEF Auditors, ClaimedBy, InSession
<1>3. owner[p] \in members => owner[p] \in Workers
  BY DEF WorkerInv, TypeOK
<1>4. Held(p)' <=> Held(p) /\ owner[p] # w
  BY <1>1, <1>3 DEF Held, ClaimedBy, InSession
<1> QED
  BY <1>2, <1>4

LEMMA EndSessionReplaysNothing ==
    ASSUME WorkerInv, TypeOK', NEW w \in Workers, EndSession(w), CommitOffsets(w), UNCHANGED faults,
           NEW p \in ProductPartitions, NEW o \in 1..MaxMessages, ReplayIsPaidFor(p, o)
    PROVE  ReplayIsPaidFor(p, o)'
<1>1. /\ Idle(w) /\ InSession(w) /\ CommitOffsets(w) /\ End(w)
      /\ UNCHANGED <<members, owner, position, audited, faults>>
  BY DEF Returned, InSession, EndSession, outputVars
<1>2. Auditors(p, o)' \subseteq Auditors(p, o) \ {w} /\ (Held(p)' <=> Held(p) /\ owner[p] # w)
  BY <1>1, EndedWritesNothing
<1>3. /\ p \in Partitions /\ o \in Nat /\ committed[p] \in Nat /\ committed'[p] \in Nat
      /\ position[w][p] \in Nat /\ committed[p] <= committed'[p]
  <2>1. p \in Partitions /\ o \in Nat
    BY DEF Partitions
  <2>2. committed[p] \in Nat /\ position[w][p] \in Nat
    BY <2>1 DEF WorkerInv, TypeOK
  <2>3. committed'[p] \in Nat /\ committed[p] <= committed'[p]
    BY <1>1, <2>1, CommitMovesOn
  <2> QED
    BY <2>1, <2>2, <2>3
<1>4. /\ audited[p][o] \in Nat /\ ReplayFaults \in Nat /\ ReplayFaults' = ReplayFaults
      /\ Cardinality(Auditors(p, o)) \in Nat /\ NextSession(p, o) \in {0, 1}
  BY <1>1, ReplaysAreNumbers DEF ReplayIsPaidFor, WorkerInv, ReplayFaults
<1>5. ASSUME NextSession(p, o)' <= NextSession(p, o) PROVE ReplayIsPaidFor(p, o)'
  BY <1>1, <1>2, <1>4, <1>5, NoMoreReplays DEF WorkerInv
<1>6. CASE Held(p) /\ owner[p] = w
  <2>1. committed'[p] = position[w][p] /\ ClaimedBy(w, p) /\ NextSession(p, o) = 0
    BY <1>1, <1>3, <1>6, CommitMovesOn DEF Held, ClaimedBy, NextSession
  <2>2. CASE position[w][p] < o
    <3>1. w \in Auditors(p, o)
      BY <1>1, <1>3, <2>1, <2>2 DEF Auditors, Idle
    <3>2. /\ IsFiniteSet(Auditors(p, o) \ {w})
          /\ Cardinality(Auditors(p, o) \ {w}) = Cardinality(Auditors(p, o)) - 1
      BY <3>1, FS_RemoveElement DEF ReplayIsPaidFor
    <3>3. /\ IsFiniteSet(Auditors(p, o)') /\ Cardinality(Auditors(p, o)') \in Nat
          /\ Cardinality(Auditors(p, o)') <= Cardinality(Auditors(p, o)) - 1
      BY <1>2, <3>2, FS_Subset, FS_CardinalityType
    <3>4. NextSession(p, o)' \in {0, 1}
      BY DEF NextSession
    <3>5. audited[p][o] + (Cardinality(Auditors(p, o)) + NextSession(p, o)) <= 1 + ReplayFaults
      BY DEF ReplayIsPaidFor, EntriesToCome
    <3>6. audited'[p][o] + (Cardinality(Auditors(p, o)') + NextSession(p, o)')
             <= 1 + ReplayFaults'
      BY <1>1, <1>4, <2>1, <3>3, <3>4, <3>5
    <3> QED
      BY <3>3, <3>6 DEF ReplayIsPaidFor, EntriesToCome
  <2>3. CASE ~(position[w][p] < o)
    <3>1. NextSession(p, o)' = 0
      BY <2>1, <2>3 DEF NextSession
    <3> QED
      BY <1>5, <2>1, <3>1
  <2> QED
    BY <2>2, <2>3
<1>7. CASE ~(Held(p) /\ owner[p] = w)
  <2>1. Held(p)' <=> Held(p)
    BY <1>2, <1>7
  <2>2. NextSession(p, o)' <= NextSession(p, o)
    BY <1>3, <2>1 DEF NextSession
  <2> QED
    BY <1>5, <2>2
<1> QED
  BY <1>6, <1>7

\* A session that cannot commit is paid for as one that crashes.
LEMMA EndReplaysNothing ==
    ASSUME WorkerInv, TypeOK', NEW w \in Workers, JoinFails(w) \/ Crash(w)
               \/ (EndSession(w) /\ Strike("commit") /\ UNCHANGED committed),
           NEW p \in ProductPartitions, NEW o \in 1..MaxMessages, ReplayIsPaidFor(p, o)
    PROVE  ReplayIsPaidFor(p, o)'
<1>1. End(w) /\ UNCHANGED <<committed, members, owner, position, audited>>
  BY DEF JoinFails, Crash, EndSession, Returned, groupVars, outputVars
<1>2. /\ Auditors(p, o)' \subseteq Auditors(p, o)
      /\ Held(p)' <=> Held(p) /\ owner[p] # w
  BY <1>1, EndedWritesNothing
<1>3. ReplayFaults \in Nat /\ NextSession(p, o) \in {0, 1}
  BY ReplaysAreNumbers DEF ReplayIsPaidFor, WorkerInv
<1>4. CASE JoinFails(w)
  <2>1. ~InSession(w)
    BY <1>4 DEF JoinFails, InSession
  <2>2. Held(p)' <=> Held(p)
    BY <1>2, <2>1 DEF Held, ClaimedBy
  <2>3. NextSession(p, o)' = NextSession(p, o)
    BY <1>1, <2>2 DEF NextSession
  <2>4. ReplayFaults' = ReplayFaults
    BY <1>4 DEF JoinFails, ReplayFaults
  <2> QED
    BY <1>1, <1>2, <1>3, <2>3, <2>4, NoMoreReplays DEF WorkerInv
<1>5. CASE Strike("crash") \/ Strike("commit")
  <2>1. ReplayFaults' = ReplayFaults + 1
    BY <1>5, ReplayFaultsGrow DEF FaultKinds, WorkerInv
  <2> QED
    BY <1>1, <1>2, <1>3, <2>1, NoMoreReplays DEF WorkerInv
<1> QED
  BY <1>4, <1>5 DEF Crash

LEMMA AutoCommitReplaysNothing ==
    ASSUME WorkerInv, TypeOK', NEW w \in Workers, AutoCommit(w),
           NEW p \in ProductPartitions, NEW o \in 1..MaxMessages, ReplayIsPaidFor(p, o)
    PROVE  ReplayIsPaidFor(p, o)'
<1>1. CommitOffsets(w) /\ UNCHANGED <<members, owner, processVars, sessionVars, audited, faults>>
  BY DEF AutoCommit, outputVars
<1>2. /\ p \in Partitions /\ o \in Nat /\ committed[p] \in Nat /\ committed'[p] \in Nat
      /\ committed[p] <= committed'[p]
  <2>1. p \in Partitions /\ o \in Nat
    BY DEF Partitions
  <2>2. committed[p] \in Nat
    BY <2>1 DEF WorkerInv, TypeOK
  <2>3. committed'[p] \in Nat /\ committed[p] <= committed'[p]
    BY <1>1, <2>1, CommitMovesOn
  <2> QED
    BY <2>1, <2>2, <2>3
<1>3. Auditors(p, o)' = Auditors(p, o) /\ (Held(p)' <=> Held(p))
  BY <1>1 DEF Auditors, Held, ClaimedBy, InSession, processVars, sessionVars
<1>4. NextSession(p, o)' <= NextSession(p, o)
  BY <1>2, <1>3 DEF NextSession
<1>5. ReplayFaults \in Nat /\ ReplayFaults' = ReplayFaults
  BY <1>1, ReplaysAreNumbers DEF ReplayIsPaidFor, WorkerInv, ReplayFaults
<1> QED
  BY <1>1, <1>3, <1>4, <1>5, NoMoreReplays DEF WorkerInv

\* A claim that moves on and writes no entry of this message.
LEMMA MoveReplaysNothing ==
    ASSUME WorkerInv, TypeOK', UNCHANGED <<groupVars, processVars, claims>>,
           faults' = faults \/ Strike("es"),
           NEW p \in ProductPartitions, NEW o \in 1..MaxMessages, ReplayIsPaidFor(p, o),
           audited'[p][o] = audited[p][o], Auditors(p, o)' \subseteq Auditors(p, o)
    PROVE  ReplayIsPaidFor(p, o)'
<1>1. Held(p)' <=> Held(p)
  BY DEF Held, ClaimedBy, InSession, groupVars, processVars
<1>2. NextSession(p, o)' = NextSession(p, o)
  BY <1>1 DEF NextSession, groupVars
<1>3. ReplayFaults \in Nat /\ NextSession(p, o) \in {0, 1}
  BY ReplaysAreNumbers DEF ReplayIsPaidFor, WorkerInv
<1>4. ReplayFaults <= ReplayFaults'
  <2>1. CASE faults' = faults
    BY <1>3, <2>1 DEF ReplayFaults
  <2>2. CASE Strike("es")
    BY <1>3, <2>2, ReplayFaultsGrow DEF FaultKinds, WorkerInv
  <2> QED
    BY <2>1, <2>2
<1> QED
  BY <1>2, <1>3, <1>4, NoMoreReplays DEF WorkerInv

\* The stages of a claim: only the entry itself brings a session past the
\* message, or it goes on without one.
LEMMA StagesReplayNothing ==
    ASSUME WorkerInv, NEW w \in Workers, NEW q \in Partitions, NEW s \in Stages, MovesTo(w, q, s),
           UNCHANGED <<processVars, claims, position>>,
           s = "mark" \/ stage[w][q] # "mark",
           NEW p \in ProductPartitions, NEW o \in 1..MaxMessages
    PROVE  Auditors(p, o)' \subseteq Auditors(p, o)
<1> SUFFICES ASSUME NEW v \in Auditors(p, o)' PROVE v \in Auditors(p, o)
  OBVIOUS
<1>1. p \in Partitions /\ v \in Workers /\ ClaimedBy(v, p)
  BY DEF Partitions, Auditors, ClaimedBy, InSession, processVars
<1>2. position[v][p] \in Nat /\ o \in Nat
  BY <1>1 DEF WorkerInv, TypeOK
<1>3. stage[v][p] = "mark" => stage'[v][p] = "mark"
  BY <1>1, Staged
<1> QED
  BY <1>1, <1>2, <1>3 DEF Auditors

LEMMA MarkReplaysNothing ==
    ASSUME WorkerInv, NEW w \in Workers, NEW q \in Partitions, Mark(w, q),
           NEW p \in ProductPartitions, NEW o \in 1..MaxMessages
    PROVE  Auditors(p, o)' \subseteq Auditors(p, o)
<1> SUFFICES ASSUME NEW v \in Auditors(p, o)' PROVE v \in Auditors(p, o)
  OBVIOUS
<1>1. /\ MovesTo(w, q, "idle") /\ stage[w][q] = "mark"
      /\ UNCHANGED <<processVars, claims>>
      /\ position' = [position EXCEPT ![w] = [position[w] EXCEPT ![q] = position[w][q] + 1]]
  BY StagedIsMoved DEF Mark
<1>2. p \in Partitions /\ v \in Workers /\ ClaimedBy(v, p)
  BY <1>1 DEF Partitions, Auditors, ClaimedBy, InSession, processVars
<1>3. /\ position'[w][q] = position[w][q] + 1
      /\ v # w \/ p # q => position'[v][p] = position[v][p]
  BY <1>1, <1>2 DEF WorkerInv, TypeOK
<1>4. position[v][p] \in Nat /\ o \in Nat
  BY <1>2 DEF WorkerInv, TypeOK
<1>5. position'[v][p] + (IF stage'[v][p] = "mark" THEN 1 ELSE 0) < o
  BY DEF Auditors
<1>6. CASE v = w /\ p = q
  BY <1>1, <1>2, <1>3, <1>4, <1>5, <1>6, Staged DEF Auditors
<1>7. CASE v # w \/ p # q
  BY <1>1, <1>2, <1>3, <1>4, <1>5, <1>7, Staged DEF Auditors
<1> QED
  BY <1>6, <1>7

\* An entry that is written is one less to come, unless it is written again.
LEMMA AuditReplaysNothing ==
    ASSUME WorkerInv, TypeOK', NEW w \in Workers, NEW q \in Partitions, Audit(w, q),
           NEW p \in ProductPartitions, NEW o \in 1..MaxMessages, ReplayIsPaidFor(p, o)
    PROVE  ReplayIsPaidFor(p, o)'
<1>1. /\ stage[w][q] = "audit"
      /\ UNCHANGED <<groupVars, processVars, claims, position>>
      /\ faults' = faults \/ Strike("es")
  BY DEF Audit, Failed
<1>2. Auditors(p, o)' \subseteq Auditors(p, o)
  <2>1. PICK s \in {"audit", "mark"} : MovesTo(w, q, s)
    BY <1>1, StagedIsMoved, FailedIsMoved DEF Audit
  <2> QED
    BY <1>1, <2>1, StagesReplayNothing DEF Stages
<1>3. p \in Partitions /\ o \in Nat /\ position[w][q] \in Nat
  BY DEF Partitions, WorkerInv, TypeOK
<1>4. /\ audited \in [Partitions -> [1..MaxMessages -> Nat]]
      /\ audited[p] \in [1..MaxMessages -> Nat]
  BY <1>3 DEF WorkerInv, TypeOK
<1> DEFINE offset == position[w][q] + 1
           stored == [audited EXCEPT ![q] = [audited[q] EXCEPT ![offset] = audited[q][offset] + 1]]
<1>5. CASE UNCHANGED audited
  BY <1>1, <1>2, <1>5, MoveReplaysNothing
<1>6. CASE audited' = stored /\ ~(p = q /\ o = offset)
  <2>1. audited'[p][o] = audited[p][o]
    <3>1. CASE p # q
      BY <1>3, <1>4, <1>6, <3>1
    <3>2. CASE p = q /\ o # offset
      <4>1. audited'[p] = [audited[p] EXCEPT ![offset] = audited[p][offset] + 1]
        BY <1>3, <1>4, <1>6, <3>2
      <4> QED
        BY <1>4, <3>2, <4>1
    <3> QED
      BY <1>6, <3>1, <3>2
  <2> QED
    BY <1>1, <1>2, <2>1, MoveReplaysNothing
<1>7. CASE audited' = stored /\ p = q /\ o = offset
  <2>1. audited'[p][o] = audited[p][o] + 1
    <3>1. audited'[p] = [audited[p] EXCEPT ![o] = audited[p][o] + 1]
      BY <1>3, <1>4, <1>7
    <3> QED
      BY <1>4, <3>1
  <2>2. NextSession(p, o)' = NextSession(p, o)
    BY <1>1 DEF NextSession, Held, ClaimedBy, InSession, groupVars, processVars
  <2>3. /\ audited[p][o] \in Nat /\ ReplayFaults \in Nat
        /\ Cardinality(Auditors(p, o)) \in Nat /\ NextSession(p, o) \in {0, 1}
    BY ReplaysAreNumbers DEF ReplayIsPaidFor, WorkerInv
  <2>4. audited[p][o] + (Cardinality(Auditors(p, o)) + NextSession(p, o)) <= 1 + ReplayFaults
    BY DEF ReplayIsPaidFor, EntriesToCome
  <2>5. /\ IsFiniteSet(Auditors(p, o)') /\ Cardinality(Auditors(p, o)') \in Nat
        /\ Cardinality(Auditors(p, o)') <= Cardinality(Auditors(p, o))
    BY <1>2, FS_Subset, FS_CardinalityType DEF ReplayIsPaidFor
  <2>6. CASE Strike("es")
    <3>1. ReplayFaults' = ReplayFaults + 1
      BY <2>6, ReplayFaultsGrow DEF FaultKinds, WorkerInv
    <3>2. audited'[p][o] + (Cardinality(Auditors(p, o)') + NextSession(p, o)')
             <= 1 + ReplayFaults'
      BY <2>1, <2>2, <2>3, <2>4, <2>5, <3>1
    <3> QED
      BY <2>5, <3>2 DEF ReplayIsPaidFor, EntriesToCome
  <2>7. CASE Stage(w, q, "mark") /\ UNCHANGED faults
    <3>1. w \in Auditors(p, o) /\ w \notin Auditors(p, o)'
      <4>1. InSession(w) /\ q \in claims[w]
        BY <1>1, AtWorkIsInSession DEF WorkerInv, SessionsAreInOrder
      <4>2. stage'[w][q] = "mark" /\ position'[w][q] = position[w][q]
        BY <1>1, <2>7, Staged, StagedIsMoved
      <4> QED
        BY <1>1, <1>3, <1>7, <4>1, <4>2 DEF Auditors, ClaimedBy
    <3>2. /\ IsFiniteSet(Auditors(p, o) \ {w})
          /\ Cardinality(Auditors(p, o) \ {w}) = Cardinality(Auditors(p, o)) - 1
      BY <3>1, FS_RemoveElement DEF ReplayIsPaidFor
    <3>3. Auditors(p, o)' \in SUBSET (Auditors(p, o) \ {w})
      BY <1>2, <3>1
    <3>4. Cardinality(Auditors(p, o)') <= Cardinality(Auditors(p, o)) - 1
      BY <3>2, <3>3, FS_Subset
    <3>5. ReplayFaults' = ReplayFaults
      BY <2>7 DEF ReplayFaults
    <3>6. audited'[p][o] + (Cardinality(Auditors(p, o)') + NextSession(p, o)')
             <= 1 + ReplayFaults'
      BY <2>1, <2>2, <2>3, <2>4, <2>5, <3>4, <3>5
    <3> QED
      BY <2>5, <3>6 DEF ReplayIsPaidFor, EntriesToCome
  <2> QED
    BY <2>6, <2>7 DEF Audit, Failed
<1> QED
  BY <1>5, <1>6, <1>7 DEF Audit

LEMMA ReplayingSteps ==
    ASSUME WorkerInv, TypeOK', [Next]_vars,
           NEW p \in ProductPartitions, NEW o \in 1..MaxMessages, ReplayIsPaidFor(p, o)
    PROVE  ReplayIsPaidFor(p, o)'
<1>1. ASSUME NEW w \in Workers, NEW q \in Partitions, Claim(w, q) PROVE ReplayIsPaidFor(p, o)'
  <2>1. CASE Take(w, q)
    <3>1. PICK s \in {"sync", "mark"} : MovesTo(w, q, s)
      BY <2>1, StagedIsMoved DEF Take
    <3>2. /\ stage[w][q] = "idle"
          /\ UNCHANGED <<groupVars, processVars, claims, position, audited, faults>>
      BY <2>1 DEF Take
    <3>3. Auditors(p, o)' \subseteq Auditors(p, o)
      BY <3>1, <3>2, StagesReplayNothing DEF Stages
    <3> QED
      BY <3>2, <3>3, MoveReplaysNothing
  <2>2. CASE Sync(w, q)
    <3>1. PICK s \in {"sync", "audit", "mark"} : MovesTo(w, q, s)
      BY <2>2, StagedIsMoved, FailedIsMoved DEF Sync
    <3>2. /\ stage[w][q] = "sync"
          /\ faults' = faults \/ Strike("es")
          /\ UNCHANGED <<groupVars, processVars, claims, position, audited>>
      BY <2>2 DEF Sync, Failed
    <3>3. Auditors(p, o)' \subseteq Auditors(p, o)
      BY <3>1, <3>2, StagesReplayNothing DEF Stages
    <3> QED
      BY <3>2, <3>3, MoveReplaysNothing
  <2>3. CASE Mark(w, q)
    BY <2>3, MarkReplaysNothing, MoveReplaysNothing DEF Mark, outputVars
  <2> QED
    BY <1>1, <2>1, <2>2, <2>3, AuditReplaysNothing DEF Claim
<1>2. ASSUME NEW w \in Workers, Start(w) \/ LeaveSession(w) \/ Terminate(w)
      PROVE  ReplayIsPaidFor(p, o)'
  <2>1. /\ UNCHANGED <<committed, members, owner, claims, position, stage, audited>>
        /\ faults' = faults \/ Strike("term")
    BY <1>2 DEF Start, LeaveSession, Terminate, groupVars, sessionVars, outputVars
  <2>2. \A v \in Workers : InSession(v)' <=> InSession(v)
    BY <1>2 DEF Start, LeaveSession, Terminate, InSession, WorkerInv, TypeOK
  <2> QED
    BY <2>1, <2>2, OthersReplayNothing DEF WorkerInv
<1>3. ASSUME UNCHANGED vars \/ \E q \in Partitions : Publish(q) PROVE ReplayIsPaidFor(p, o)'
  <2>1. /\ UNCHANGED <<committed, members, owner, claims, position, stage, audited>>
        /\ UNCHANGED <<phase, faults>>
    BY <1>3 DEF Publish, vars, groupVars, processVars, sessionVars, outputVars
  <2> QED
    BY <2>1, OthersReplayNothing DEF WorkerInv, InSession
<1>4. ASSUME NEW w \in Workers, EndSession(w) \/ JoinFails(w) \/ AutoCommit(w) \/ Crash(w)
      PROVE  ReplayIsPaidFor(p, o)'
  <2>1. CASE EndSession(w)
    BY <2>1, EndSessionReplaysNothing, EndReplaysNothing DEF EndSession
  <2> QED
    BY <1>4, <2>1, EndReplaysNothing, AutoCommitReplaysNothing
<1> QED
  BY <1>1, <1>2, <1>3, <1>4, RebalanceReplaysOnce DEF Next

\* An event has one entry in the audit index, and at most one more for every
\* crash, every overlong pause, every last commit and every request that fails:
\* rebalances and stops on SIGTERM replay nothing, for any number of workers,
\* partitions and repetitions of a request.
THEOREM ReplaysAreFaults == Spec => []OnlyFaultsReplay
<1>1. Init => EachReplayIsAFault
  <2> SUFFICES ASSUME Init, NEW p \in ProductPartitions, NEW o \in 1..MaxMessages
               PROVE  ReplayIsPaidFor(p, o)
    BY DEF EachReplayIsAFault
  <2>1. Auditors(p, o) = {}
    BY DEF Init, Auditors, ClaimedBy, InSession
  <2>2. IsFiniteSet(Auditors(p, o)) /\ Cardinality(Auditors(p, o)) = 0
    BY <2>1, FS_EmptySet
  <2>3. audited[p][o] = 0 /\ ReplayFaults = 0
    BY DEF Init, ReplayFaults, FaultKinds, Partitions
  <2>4. NextSession(p, o) \in {0, 1}
    BY DEF NextSession
  <2> QED
    BY <2>2, <2>3, <2>4 DEF ReplayIsPaidFor, EntriesToCome
<1>2. WorkerInv /\ WorkerInv' /\ EachReplayIsAFault /\ [Next]_vars => EachReplayIsAFault'
  <2> SUFFICES ASSUME WorkerInv, WorkerInv', EachReplayIsAFault, [Next]_vars,
                      NEW p \in ProductPartitions, NEW o \in 1..MaxMessages
               PROVE  ReplayIsPaidFor(p, o)'
    BY DEF EachReplayIsAFault
  <2> QED
    BY ReplayingSteps DEF WorkerInv, EachReplayIsAFault
<1>3. Spec => []EachReplayIsAFault
  BY <1>1, <1>2, WorkerInvariance, PTL DEF Spec
<1>4. WorkerInv /\ EachReplayIsAFault => OnlyFaultsReplay
  <2> SUFFICES ASSUME WorkerInv, NEW p \in ProductPartitions, NEW o \in 1..MaxMessages,
                      ReplayIsPaidFor(p, o)
               PROVE  audited[p][o] <= 1 + ReplayFaults
    BY DEF OnlyFaultsReplay, EachReplayIsAFault
  <2>1. /\ audited[p][o] \in Nat /\ ReplayFaults \in Nat
        /\ Cardinality(Auditors(p, o)) \in Nat /\ NextSession(p, o) \in {0, 1}
    BY ReplaysAreNumbers DEF ReplayIsPaidFor, WorkerInv
  <2> QED
    BY <2>1 DEF ReplayIsPaidFor, EntriesToCome
<1> QED
  BY <1>3, <1>4, WorkerInvariance, PTL

\* Losses and replays together: where Elasticsearch answers and no session is
\* interrupted, an event that is committed has its one audit entry, whatever workers
\* were started, stopped and rebalanced in between.
AuditedOnce ==
    ReplayFaults = 0 =>
        \A p \in ProductPartitions, o \in 1..MaxMessages :
            o <= committed[p] => audited[p][o] = 1

\* No loss and no replay without a fault that excuses it.
THEOREM EventsAreAuditedOnce == Spec => []AuditedOnce
<1>1. WorkerInv /\ EachSkipIsAFailure /\ OnlyFaultsReplay => AuditedOnce
  <2> SUFFICES ASSUME WorkerInv, EachSkipIsAFailure, OnlyFaultsReplay,
                      ReplayFaults = 0,
                      NEW p \in ProductPartitions, NEW o \in 1..MaxMessages, o <= committed[p]
               PROVE  audited[p][o] = 1
    BY DEF AuditedOnce
  <2>1. audited[p][o] \in Nat
    <3>1. audited[p] \in [1..MaxMessages -> Nat]
      BY DEF WorkerInv, TypeOK, Partitions
    <3> QED
      BY <3>1
  <2>2. Skipped = {}
    <3>1. faults["es"] = 0
      <4>1. \A kind \in FaultKinds : faults[kind] \in Nat
        BY DEF WorkerInv, TypeOK
      <4> QED
        BY <4>1 DEF ReplayFaults, FaultKinds
    <3>2. IsFiniteSet(Skipped) /\ Cardinality(Skipped) <= 0 /\ Cardinality(Skipped) \in Nat
      BY <3>1, FS_CardinalityType DEF EachSkipIsAFailure
    <3> QED
      BY <3>2, FS_EmptySet
  <2>3. audited[p][o] # 0
    <3>1. [partition |-> p, offset |-> o] \in Entries
      BY DEF Entries
    <3> QED
      BY <2>2, <3>1 DEF Skipped
  <2>4. audited[p][o] <= 1 + 0
    BY DEF OnlyFaultsReplay
  <2> QED
    BY <2>1, <2>3, <2>4
<1> QED
  BY <1>1, SkipsAreFailures, ReplaysAreFaults, WorkerInvariance, PTL
-----------------------------------------------------------------------------
(* One worker a partition.  A new generation waits for the sessions of the *)
(* last one, so that whoever is in a session is a member of the current    *)
(* one and claims what it owns.  Only a pause makes an exception.          *)

LEMMA UnpausedBefore ==
    ASSUME TypeOK, faults' = faults \/ \E kind \in FaultKinds : Strike(kind), faults'["pause"] = 0
    PROVE  faults["pause"] = 0 /\ ~Strike("pause")
<1>1. faults \in [FaultKinds -> Nat] /\ "pause" \in FaultKinds /\ faults["pause"] \in Nat
  BY DEF TypeOK, FaultKinds
<1>2. ASSUME NEW kind \in FaultKinds, Strike(kind)
      PROVE  faults'["pause"] = IF kind = "pause" THEN faults["pause"] + 1 ELSE faults["pause"]
  BY <1>1, <1>2 DEF Strike
<1>3. ~Strike("pause")
  BY <1>1, <1>2
<1> QED
  BY <1>1, <1>2, <1>3

\* Whoever is in a session was in it before, with the same claims.
LEMMA OwnersStayAlone ==
    ASSUME WorkerInv, ClaimsAreOwned,
           faults' = faults \/ \E kind \in FaultKinds : Strike(kind),
           UNCHANGED <<members, owner>>,
           \A w \in Workers : InSession(w)' => InSession(w) /\ claims'[w] = claims[w]
    PROVE  ClaimsAreOwned'
<1> SUFFICES ASSUME faults'["pause"] = 0 PROVE OwnersClaimAlone'
  BY DEF ClaimsAreOwned
<1>1. OwnersClaimAlone
  BY UnpausedBefore DEF ClaimsAreOwned, WorkerInv
<1> QED
  BY <1>1 DEF OwnersClaimAlone, ClaimedBy

LEMMA RebalanceClaimsAnew ==
    ASSUME WorkerInv, ClaimsAreOwned, Rebalance
    PROVE  ClaimsAreOwned'
<1> SUFFICES ASSUME faults'["pause"] = 0 PROVE OwnersClaimAlone'
  BY DEF ClaimsAreOwned
<1>1. faults' = faults \/ Strike("pause")
  BY DEF Rebalance
<1>2. OwnersClaimAlone /\ ~Strike("pause")
  BY <1>1, UnpausedBefore DEF ClaimsAreOwned, WorkerInv, FaultKinds
<1>3. \A w \in Workers : ~InSession(w)
  BY <1>2 DEF Rebalance, OwnersClaimAlone
<1>4. /\ members' = Joiners
      /\ phase' = [w \in Workers |-> IF w \in Joiners THEN "running" ELSE phase[w]]
  BY DEF Rebalance
<1>5. PICK assignment \in [Partitions -> Joiners] :
        /\ owner' = assignment
        /\ claims' = [w \in Workers |->
              IF w \in Joiners THEN {p \in Partitions : assignment[p] = w} ELSE claims[w]]
  BY DEF Rebalance
<1>6. \A w \in Workers : InSession(w)' => w \in Joiners
  BY <1>3, <1>4 DEF InSession
<1> QED
  BY <1>4, <1>5, <1>6 DEF OwnersClaimAlone, ClaimedBy

\* While no worker is cut off for longer than its session lives, a partition is
\* consumed by one worker at most, for any number of them.
THEOREM OneConsumerEach == Spec => []ClaimsAreExclusive
<1>1. Init => ClaimsAreOwned
  BY DEF Init, ClaimsAreOwned, OwnersClaimAlone, ClaimedBy, InSession
<1>2. WorkerInv /\ ClaimsAreOwned /\ [Next]_vars => ClaimsAreOwned'
  <2> SUFFICES ASSUME WorkerInv, ClaimsAreOwned, [Next]_vars PROVE ClaimsAreOwned'
    OBVIOUS
  <2> USE DEF groupVars, processVars, sessionVars, outputVars
  <2>1. ASSUME NEW w \in Workers, NEW p \in Partitions, Claim(w, p) PROVE ClaimsAreOwned'
    <3>1. /\ UNCHANGED <<members, owner, phase, claims>>
          /\ faults' = faults \/ Strike("es")
      BY <2>1 DEF Claim, Take, Sync, Audit, Failed, Mark
    <3> QED
      BY <3>1, OwnersStayAlone DEF InSession, FaultKinds
  <2>2. ASSUME NEW w \in Workers, Start(w) \/ LeaveSession(w) \/ AutoCommit(w) \/ Terminate(w)
        PROVE  ClaimsAreOwned'
    <3>1. /\ UNCHANGED <<members, owner, claims>>
          /\ faults' = faults \/ Strike("term")
      BY <2>2 DEF Start, LeaveSession, AutoCommit, Terminate
    <3>2. \A v \in Workers : InSession(v)' => InSession(v)
      BY <2>2 DEF Start, LeaveSession, AutoCommit, Terminate, InSession, WorkerInv, TypeOK
    <3> QED
      BY <3>1, <3>2, OwnersStayAlone DEF FaultKinds
  <2>3. ASSUME NEW w \in Workers, EndSession(w) \/ JoinFails(w) \/ Crash(w)
        PROVE  ClaimsAreOwned'
    <3>1. /\ End(w)
          /\ UNCHANGED <<members, owner>>
          /\ faults' = faults \/ Strike("crash") \/ Strike("commit")
      BY <2>3 DEF EndSession, Returned, JoinFails, Crash
    <3>2. \A v \in Workers : InSession(v)' => InSession(v) /\ claims'[v] = claims[v]
      BY <3>1 DEF End, InSession, WorkerInv, TypeOK
    <3> QED
      BY <3>1, <3>2, OwnersStayAlone DEF FaultKinds
  <2>4. ASSUME UNCHANGED vars \/ \E p \in Partitions : Publish(p) PROVE ClaimsAreOwned'
    BY <2>4, OwnersStayAlone DEF Publish, vars, InSession
  <2> QED
    BY <2>1, <2>2, <2>3, <2>4, RebalanceClaimsAnew DEF Next
<1>3. Spec => []ClaimsAreOwned
  BY <1>1, <1>2, WorkerInvariance, PTL DEF Spec
<1>4. WorkerInv /\ ClaimsAreOwned => ClaimsAreExclusive
  <2> SUFFICES ASSUME WorkerInv, OwnersClaimAlone, NEW v \in Workers, NEW w \in Workers, v # w
               PROVE  claims[v] \cap claims[w] = {}
    BY DEF ClaimsAreOwned, ClaimsAreExclusive
  <2>1. ASSUME NEW u \in Workers, NEW p \in claims[u] PROVE owner[p] = u
    <3>1. p \in Partitions /\ InSession(u)
      BY <2>1 DEF WorkerInv, TypeOK, SessionsAreInOrder
    <3> QED
      BY <2>1, <3>1 DEF OwnersClaimAlone, ClaimedBy
  <2> QED
    BY <2>1
<1> QED
  BY <1>3, <1>4, WorkerInvariance, PTL
=============================================================================

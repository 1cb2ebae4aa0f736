----------------------------- MODULE SearchWorker -----------------------------
(***************************************************************************)
(* The worker processes of cmd/worker/main.go: one consumer group over the *)
(* topics product-events and checkout-events.  A worker joins the group,   *)
(* runs one ConsumeClaim goroutine for every partition it is given, copies *)
(* product events into Elasticsearch, and, as the loop around              *)
(* client.Consume is written, panics whenever Consume returns no error.    *)
(* The broker side of the group (assignment, offsets, eviction) is         *)
(* modelled from the way the worker uses sarama.                           *)
(***************************************************************************)
EXTENDS Integers, Sequences, FiniteSets, Functions

CONSTANTS
    Workers,             \* the processes (containers) of the deployment
    ProductPartitions,   \* the partitions of product-events
    InvoicePartitions,   \* the partitions of checkout-events
    Products,            \* product ids
    PartitionOf,         \* [Products -> ProductPartitions]: the message key
    Rows,                \* the product data an event carries
    Invoices,            \* the TaskSendInvoice messages
    MaxRetries,          \* repetitions of a request to Elasticsearch: 3 by default
    MaxMessages,         \* messages published to one partition (a bound)
    Faults,              \* what may go wrong, see FaultKinds
    MaxFaults,           \* how many faults happen (a bound)
    None                 \* no worker, no document

\* "es": Elasticsearch refuses a request, or its answer is lost.  "crash": a
\* worker process dies.  "pause": a worker is cut off for longer than its
\* session lives; the group goes on without it and it learns of this later.
\* "commit": the last commit of a session fails.  "term": a worker receives
\* SIGTERM.
FaultKinds == {"es", "crash", "pause", "commit", "term"}

Partitions == ProductPartitions \cup InvoicePartitions

ASSUME PartitionOfAssumption == PartitionOf \in [Products -> ProductPartitions]
ASSUME TopicsAssumption == ProductPartitions \cap InvoicePartitions = {}
ASSUME MaxRetriesAssumption == MaxRetries \in Nat
ASSUME MaxMessagesAssumption == MaxMessages \in Nat
ASSUME MaxFaultsAssumption == MaxFaults \in Nat
ASSUME FaultsAssumption == Faults \subseteq FaultKinds
ASSUME NoneAssumption == None \notin Workers /\ None \notin Rows

VARIABLES
    log,          \* [Partitions -> Seq(Message)]
    committed,    \* [Partitions -> Nat]: offset the group has committed
    members,      \* the workers of the group's current generation
    owner,        \* [Partitions -> Workers \cup {None}]: its assignment
    phase,        \* where the process is in its Consume loop
    claims,       \* the partitions of its session
    position,     \* [Workers -> [Partitions -> Nat]]: messages marked
    stage,        \* [Workers -> [Partitions -> Stages]]: ConsumeClaim
    attempts,     \* [Workers -> [Partitions -> Nat]]: repetitions of its request
    stopping,     \* the workers that have received SIGTERM
    index,        \* Elasticsearch index "products", by document id
    audited,      \* index "product-logs": entries per message
    emailed,      \* the messages processTask has sent an invoice for
    faults        \* faults so far, by kind

groupVars == <<log, committed, members, owner>>
processVars == <<phase, stopping>>
sessionVars == <<claims, position, stage, attempts>>
outputVars == <<index, audited, emailed>>
vars == <<groupVars, processVars, sessionVars, outputVars, faults>>
-----------------------------------------------------------------------------
Event ==
    [action : {"CREATE", "UPDATE"}, product : Products, row : Rows]
        \cup [action : {"DELETE"}, product : Products]

MessagesOf(p) ==
    IF p \in InvoicePartitions THEN Invoices ELSE {e \in Event : PartitionOf[e.product] = p}

Phases == {"down", "joining", "running", "leaving"}
Stages == {"idle", "sync", "audit", "mark"}

TypeOK ==
    /\ DOMAIN log = Partitions
    /\ \A p \in Partitions : log[p] \in Seq(MessagesOf(p)) /\ Len(log[p]) <= MaxMessages
    /\ committed \in [Partitions -> Nat]
    /\ \A p \in Partitions : committed[p] <= Len(log[p])
    /\ members \subseteq Workers
    /\ owner \in [Partitions -> Workers \cup {None}]
    /\ phase \in [Workers -> Phases]
    /\ claims \in [Workers -> SUBSET Partitions]
    /\ position \in [Workers -> [Partitions -> Nat]]
    /\ \A w \in Workers, p \in Partitions : position[w][p] <= Len(log[p])
    /\ stage \in [Workers -> [Partitions -> Stages]]
    /\ attempts \in [Workers -> [Partitions -> 0..MaxRetries]]
    /\ stopping \in SUBSET Workers
    /\ index \in [Products -> Rows \cup {None}]
    /\ audited \in [Partitions -> [1..MaxMessages -> Nat]]
    /\ emailed \in [Partitions -> SUBSET (1..MaxMessages)]
    /\ faults \in [FaultKinds -> Nat]

Init ==
    /\ log = [p \in Partitions |-> << >>]
    /\ committed = [p \in Partitions |-> 0]
    /\ members = {}
    /\ owner = [p \in Partitions |-> None]
    /\ phase = [w \in Workers |-> "down"]
    /\ claims = [w \in Workers |-> {}]
    /\ position = [w \in Workers |-> [p \in Partitions |-> 0]]
    /\ stage = [w \in Workers |-> [p \in Partitions |-> "idle"]]
    /\ attempts = [w \in Workers |-> [p \in Partitions |-> 0]]
    /\ stopping = {}
    /\ index = [d \in Products |-> None]
    /\ audited = [p \in Partitions |-> [o \in 1..MaxMessages |-> 0]]
    /\ emailed = [p \in Partitions |-> {}]
    /\ faults = [kind \in FaultKinds |-> 0]

FaultsSoFar == FoldFunction(+, 0, faults)

\* A fault of the given kind is one of the MaxFaults that happen.
Strike(kind) ==
    /\ kind \in Faults
    /\ FaultsSoFar < MaxFaults
    /\ faults' = [faults EXCEPT ![kind] = @ + 1]

\* The API server appends to a partition.
Publish(p) ==
    /\ Len(log[p]) < MaxMessages
    /\ \E m \in MessagesOf(p) : log' = [log EXCEPT ![p] = Append(@, m)]
    /\ UNCHANGED <<committed, members, owner, processVars, sessionVars, outputVars, faults>>
-----------------------------------------------------------------------------
(* The process and the group.                                              *)

Idle(w) == \A p \in Partitions : stage[w][p] = "idle"

\* Mutant of End: Consume returns while its ConsumeClaim goroutines go on.
EndBeforeClaims(w) ==
    /\ phase' = [phase EXCEPT ![w] = "down"]
    /\ stage' = [stage EXCEPT ![w] = [p \in Partitions |-> "idle"]]
    /\ UNCHANGED <<claims, attempts>>

\* The process is gone, and its session with it.
End(w) ==
    /\ phase' = [phase EXCEPT ![w] = "down"]
    /\ claims' = [claims EXCEPT ![w] = {}]
    /\ stage' = [stage EXCEPT ![w] = [p \in Partitions |-> "idle"]]
    /\ attempts' = [attempts EXCEPT ![w] = [p \in Partitions |-> 0]]

\* Mutant of Start: a container without a restart policy.
StartOnce(w) ==
    /\ phase[w] = "down"
    /\ w \notin members
    /\ phase' = [phase EXCEPT ![w] = "joining"]
    /\ UNCHANGED <<groupVars, stopping, sessionVars, outputVars, faults>>

\* The container is started, or restarted after a panic or a kill.
Start(w) ==
    /\ phase[w] = "down"
    /\ w \notin stopping
    /\ phase' = [phase EXCEPT ![w] = "joining"]
    /\ UNCHANGED <<groupVars, stopping, sessionVars, outputVars, faults>>

Joiners == {w \in Workers : phase[w] = "joining"}
InSession(w) == phase[w] \in {"running", "leaving"}

\* Mutants of StartOffset: Offsets.Initial = OffsetNewest, and a group whose
\* offsets are not kept.
StartOffsetNewest(p) == IF committed[p] = 0 THEN Len(log[p]) ELSE committed[p]
StartOffsetOldest(p) == 0 * committed[p]

\* Where a claim starts to read: at the committed offset, or with the oldest
\* message when there is none (OffsetOldest).
StartOffset(p) == committed[p]

\* The round-robin strategy gives all members the same number of partitions, or
\* one more; which member gets which depends on ids the broker makes up.
Balanced(assignment) ==
    LET load(w) == Cardinality({p \in Partitions : assignment[p] = w})
    IN  \A v, w \in Joiners : load(v) <= load(w) + 1

\* A new generation of the workers that have joined.  The coordinator waits for
\* the members of the last one to end their sessions; after the session timeout
\* ("pause") it goes on without them.
Rebalance ==
    /\ Joiners # {}
    /\ \/ (\A w \in members : ~InSession(w)) /\ UNCHANGED faults
       \/ (\E w \in members : InSession(w)) /\ Strike("pause")
    /\ members' = Joiners
    /\ \E assignment \in [Partitions -> Joiners] :
        /\ Balanced(assignment)
        /\ owner' = assignment
        /\ claims' = [w \in Workers |->
              IF w \in Joiners THEN {p \in Partitions : assignment[p] = w} ELSE claims[w]]
    /\ phase' = [w \in Workers |-> IF w \in Joiners THEN "running" ELSE phase[w]]
    /\ position' = [w \in Workers |->
          IF w \in Joiners THEN [p \in Partitions |-> StartOffset(p)] ELSE position[w]]
    /\ UNCHANGED <<log, committed, stage, attempts, stopping, outputVars>>

\* A worker asks to join, or the coordinator misses the heartbeats of a member
\* that died: the generation is over.
RebalanceDue == Joiners # {} \/ \E w \in members : phase[w] = "down"

\* The heartbeat tells a worker that its generation is over, or its context is
\* cancelled.
LeaveSession(w) ==
    /\ phase[w] = "running"
    /\ w \in stopping \/ w \notin members \/ RebalanceDue
    /\ phase' = [phase EXCEPT ![w] = "leaving"]
    /\ UNCHANGED <<groupVars, stopping, sessionVars, outputVars, faults>>

\* Mutants of CommitOffsets: MarkMessage left out; MarkOffset(offset + 2) in its
\* place.
CommitOffsetsForgotten(w) == w \in Workers /\ UNCHANGED committed
CommitOffsetsNext(w) ==
    committed' = [p \in Partitions |->
        IF p \in claims[w] /\ owner[p] = w /\ position[w][p] > committed[p]
        THEN position[w][p] + 1 ELSE committed[p]]

\* The broker takes an offset only from the worker that owns the partition in
\* the current generation.
CommitOffsets(w) ==
    committed' = [p \in Partitions |->
        IF p \in claims[w] /\ w \in members /\ owner[p] = w THEN position[w][p] ELSE committed[p]]

\* `if err := client.Consume(...); err == nil { log.Panicf(...) }`: the regular
\* return of Consume ends the process, before ctx.Err() is looked at.
Returned(w) == End(w)

\* Once its claims are through, the session commits the marked offsets and
\* Consume returns nil, also when the commit has failed.
EndSession(w) ==
    /\ phase[w] = "leaving"
    /\ Idle(w)
    /\ \/ CommitOffsets(w) /\ UNCHANGED faults
       \/ Strike("commit") /\ UNCHANGED committed
    /\ Returned(w)
    /\ UNCHANGED <<log, members, owner, stopping, position, outputVars>>

\* Consume fails before it has a session.  A worker that is to stop leaves
\* the loop; the others try again.
JoinFails(w) ==
    /\ phase[w] = "joining"
    /\ w \in stopping
    /\ End(w)
    /\ UNCHANGED <<groupVars, stopping, position, outputVars, faults>>

\* Sarama commits the marked offsets once a second.
AutoCommit(w) ==
    /\ InSession(w)
    /\ CommitOffsets(w)
    /\ UNCHANGED <<log, members, owner, processVars, sessionVars, outputVars, faults>>

Terminate(w) ==
    /\ phase[w] # "down"
    /\ w \notin stopping
    /\ Strike("term")
    /\ stopping' = stopping \cup {w}
    /\ UNCHANGED <<groupVars, phase, sessionVars, outputVars>>

Crash(w) ==
    /\ phase[w] # "down"
    /\ Strike("crash")
    /\ End(w)
    /\ UNCHANGED <<groupVars, stopping, position, outputVars>>
-----------------------------------------------------------------------------
(* ConsumeClaim and syncProductToES.                                       *)

Stage(w, p, s) ==
    /\ stage' = [stage EXCEPT ![w][p] = s]
    /\ attempts' = [attempts EXCEPT ![w][p] = 0]

Current(w, p) == log[p][position[w][p] + 1]

\* Both topics carry only what the API server marshalled.
ParseError(m) == m \notin Event \cup Invoices

\* `if err := json.Unmarshal(...); err != nil { processTask(task) }`: an invoice
\* is sent for a message that cannot be parsed, and only for that.
ProcessTask(m) == m \in Invoices /\ ParseError(m)

\* The next message is taken from the claim; a claim that is closing may still
\* hand out what it has buffered.  A product event goes to syncProductToES.
Take(w, p) ==
    /\ InSession(w)
    /\ p \in claims[w]
    /\ stage[w][p] = "idle"
    /\ position[w][p] < Len(log[p])
    /\ Stage(w, p, IF p \in ProductPartitions THEN "sync" ELSE "mark")
    /\ emailed' = IF ProcessTask(Current(w, p))
                  THEN [emailed EXCEPT ![p] = @ \cup {position[w][p] + 1}] ELSE emailed
    /\ UNCHANGED <<groupVars, processVars, claims, position, index, audited, faults>>

Document(e) == IF e.action = "DELETE" THEN None ELSE e.row

\* A request that Elasticsearch has failed, whether or not it took effect.  The
\* client is left to its defaults: it sends a request again when the connection
\* broke or a proxy answered 502, 503 or 504, and hands any other failure, and the
\* last one, to syncProductToES, which goes on at one of the stages.
Failed(w, p, stages) ==
    /\ Strike("es")
    /\ \/ /\ attempts[w][p] < MaxRetries
          /\ attempts' = [attempts EXCEPT ![w][p] = @ + 1]
          /\ UNCHANGED stage
       \/ \E s \in stages : Stage(w, p, s)

\* The request to the index "products".  An error response is logged and the
\* audit entry is still written; a failing transport ends syncProductToES.
Sync(w, p) ==
    LET e == Current(w, p)
        stored == [index EXCEPT ![e.product] = Document(e)]
    IN
    /\ stage[w][p] = "sync"
    /\ \/ index' = stored /\ Stage(w, p, "audit") /\ UNCHANGED faults
       \/ index' \in {index, stored} /\ Failed(w, p, {"audit", "mark"})
    /\ UNCHANGED <<groupVars, processVars, claims, position, audited, emailed>>

\* The request to "product-logs", under an id that Elasticsearch makes up, another
\* one for every repetition.
Audit(w, p) ==
    LET offset == position[w][p] + 1
        stored == [audited EXCEPT ![p][offset] = @ + 1]
    IN
    /\ stage[w][p] = "audit"
    /\ \/ audited' = stored /\ Stage(w, p, "mark") /\ UNCHANGED faults
       \/ audited' \in {audited, stored} /\ Failed(w, p, {"mark"})
    /\ UNCHANGED <<groupVars, processVars, claims, position, index, emailed>>

\* session.MarkMessage, whatever became of the message.
Mark(w, p) ==
    /\ stage[w][p] = "mark"
    /\ position' = [position EXCEPT ![w][p] = @ + 1]
    /\ Stage(w, p, "idle")
    /\ UNCHANGED <<groupVars, processVars, claims, outputVars, faults>>

Claim(w, p) == Take(w, p) \/ Sync(w, p) \/ Audit(w, p) \/ Mark(w, p)
-----------------------------------------------------------------------------
Next ==
    \/ \E p \in Partitions : Publish(p)
    \/ Rebalance
    \/ \E w \in Workers :
        \/ Start(w) \/ LeaveSession(w) \/ EndSession(w) \/ JoinFails(w)
        \/ AutoCommit(w) \/ Terminate(w) \/ Crash(w)
        \/ \E p \in Partitions : Claim(w, p)

Spec == Init /\ [][Next]_vars

\* The Go scheduler runs every goroutine, the broker answers, Elasticsearch
\* answers or fails, and a container that has died is started again.
FairSpec ==
    /\ Spec
    /\ WF_vars(Rebalance)
    /\ \A w \in Workers :
        /\ WF_vars(Start(w))
        /\ WF_vars(LeaveSession(w))
        /\ WF_vars(EndSession(w))
        /\ WF_vars(AutoCommit(w))
        /\ \A p \in Partitions : WF_vars(Claim(w, p))
-----------------------------------------------------------------------------
(* What the group keeps.                                                   *)

Entries == [partition : ProductPartitions, offset : 1..MaxMessages]

Missed ==
    {e \in Entries : e.offset <= committed[e.partition] /\ audited[e.partition][e.offset] = 0}

\* An event is committed without an entry in the audit index only where
\* Elasticsearch failed it, each failure costing one event: nothing is lost to
\* the crashes, rebalances and late sessions in between (OffsetOldest, and
\* MarkMessage after syncProductToES).
EachLossIsAFailure == Cardinality(Missed) <= faults["es"]

\* The faults after which an entry may be written again: a session ends before what
\* it has marked is committed, or the client repeats a request.
ReplayFaults == faults["crash"] + faults["pause"] + faults["commit"] + faults["es"]

\* The audit index, whose entries have no id of the event, shows an event twice
\* only for a reason, one entry more for each: a session that was interrupted, or
\* a failed request that the client of Elasticsearch repeats
\* (cmd/worker/main.go:214).  Stops on SIGTERM and rebalances are none, as the old
\* session ends its claims and commits what it has marked before the new one reads.
OnlyFaultsReplay ==
    \A p \in ProductPartitions, offset \in 1..MaxMessages :
        audited[p][offset] <= 1 + ReplayFaults

\* No partition is consumed by two workers at once, through any sequence of
\* starts, ends, signals and crashes, as long as no worker is cut off: ConsumeClaim
\* writes documents and marks messages as if it were alone with its partition
\* (cmd/worker/main.go:113).
ClaimsAreExclusive ==
    faults["pause"] = 0 =>
        \A v, w \in Workers : v # w => claims[v] \cap claims[w] = {}

\* A worker that was replaced cannot take the group back to an offset it has
\* already passed, late as its own commit may come.
CommitsNeverRewind == [][\A p \in Partitions : committed'[p] >= committed[p]]_committed

EventsOf(d) ==
    {o \in 1..Len(log[PartitionOf[d]]) : log[PartitionOf[d]][o].product = d}

\* The document of a product after its last event.
Latest(d) ==
    IF EventsOf(d) = {} THEN None
    ELSE Document(log[PartitionOf[d]][CHOOSE o \in EventsOf(d) : \A q \in EventsOf(d) : q <= o])

\* Once a partition is consumed and no worker is at work on it, the search index
\* shows its products as their last events left them, whatever crashes and
\* replays lay between: "Menggunakan ID produk sebagai ID dokumen ES
\* (Idempotent)" (cmd/worker/main.go:167).  It may not when Elasticsearch failed
\* a request, or when a worker that was replaced wrote late.
ReplaysConverge ==
    faults["es"] = 0 /\ faults["pause"] = 0 =>
        \A d \in Products :
            LET p == PartitionOf[d] IN
            (committed[p] = Len(log[p]) /\ \A w \in Workers : stage[w][p] = "idle")
                => index[d] = Latest(d)

\* The group comes to rest: in the end every worker stays in its session, also
\* when there are several of them ("Coba 1 dulu, nanti kita scale",
\* docker-compose.yml:50).
GroupSettles == <>[](\A w \in Workers : phase[w] = "running")

\* Every message is consumed in the end, crashes notwithstanding.
EveryMessageIsConsumed == []<>(\A p \in Partitions : committed[p] = Len(log[p]))
-----------------------------------------------------------------------------
(* The inductive invariant behind the theorems of SearchWorkerProofs.      *)

\* Only a worker in a session has claims, and only a claim that has taken a
\* message is at work on it.
SessionsAreInOrder ==
    /\ \A w \in Workers : ~InSession(w) => claims[w] = {} /\ Idle(w)
    /\ \A w \in Workers, p \in Partitions :
        /\ stage[w][p] # "idle" => p \in claims[w] /\ position[w][p] < Len(log[p])
        /\ stage[w][p] \in {"sync", "audit"} => p \in ProductPartitions

\* The owner of a partition has not marked less than the group has committed,
\* since nobody else has committed in this generation.
OwnersAreAhead ==
    \A w \in members : \A p \in claims[w] : owner[p] = w => committed[p] <= position[w][p]

WorkerInv == TypeOK /\ SessionsAreInOrder /\ OwnersAreAhead

\* The events without an audit entry that a session has passed by: it has
\* marked them, or is about to.  What the group misses is some of these.
PassedBy(w, e) ==
    \/ e.offset <= position[w][e.partition]
    \/ stage[w][e.partition] = "mark" /\ e.offset = position[w][e.partition] + 1

Skipped ==
    {e \in Entries :
        /\ audited[e.partition][e.offset] = 0
        /\ e.offset <= committed[e.partition] \/ \E w \in Workers : PassedBy(w, e)}

EachSkipIsAFailure == IsFiniteSet(Skipped) /\ Cardinality(Skipped) <= faults["es"]

\* The document of a product is what the first j messages of its partition
\* make of it.
ShowsPrefix(d, j) ==
    LET about(o) == log[PartitionOf[d]][o].product = d IN
    \/ index[d] = None /\ \A o \in 1..j : ~about(o)
    \/ \E o \in 1..j :
        /\ about(o)
        /\ index[d] = Document(log[PartitionOf[d]][o])
        /\ \A q \in 1..j : q > o => ~about(q)

\* How many messages of a partition a worker has taken to the index.
Reached(w, p) == position[w][p] + IF stage[w][p] \in {"audit", "mark"} THEN 1 ELSE 0

ClaimedBy(w, p) == InSession(w) /\ p \in claims[w]

\* The sessions that have yet to write the audit entry of a message, and the one
\* that still has to come when nobody holds the partition and the group has not
\* committed the message.
Auditors(p, offset) ==
    {w \in Workers :
        /\ ClaimedBy(w, p)
        /\ position[w][p] + (IF stage[w][p] = "mark" THEN 1 ELSE 0) < offset}

Held(p) == owner[p] \in members /\ ClaimedBy(owner[p], p)
NextSession(p, offset) == IF ~Held(p) /\ committed[p] < offset THEN 1 ELSE 0

EntriesToCome(p, offset) == Cardinality(Auditors(p, offset)) + NextSession(p, offset)

\* What is written and what is to come: one entry, and one more for each
\* interruption and each failed request.
ReplayIsPaidFor(p, offset) ==
    /\ IsFiniteSet(Auditors(p, offset))
    /\ audited[p][offset] + EntriesToCome(p, offset) <= 1 + ReplayFaults

EachReplayIsAFault ==
    \A p \in ProductPartitions, offset \in 1..MaxMessages : ReplayIsPaidFor(p, offset)

\* Nothing but crashes and signals has happened.
Undisturbed == faults["es"] = 0 /\ faults["pause"] = 0

\* A partition is claimed by its owner and by nobody else.
OwnersClaimAlone ==
    /\ \A w \in Workers : InSession(w) => w \in members
    /\ \A w \in Workers, p \in Partitions : ClaimedBy(w, p) => owner[p] = w

ClaimsAreOwned == faults["pause"] = 0 => OwnersClaimAlone

\* Nobody has committed or reached more than the first j messages.
HasReached(p, j) == committed[p] <= j /\ \A w \in Workers : ClaimedBy(w, p) => Reached(w, p) <= j

\* A document is never behind what was committed or what the owner has reached.
DocumentKeepsUp(d) ==
    \E j \in 0..Len(log[PartitionOf[d]]) : ShowsPrefix(d, j) /\ HasReached(PartitionOf[d], j)

IndexKeepsUp ==
    Undisturbed => OwnersClaimAlone /\ \A d \in Products : DocumentKeepsUp(d)
=============================================================================

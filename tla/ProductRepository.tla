-------------------------- MODULE ProductRepository --------------------------
(***************************************************************************)
(* The product side of the API server: the handlers of                     *)
(* handler/product_handler.go and handler/grpc_handler.go over             *)
(* repository/product_repo.go.  Every request is a goroutine; every call   *)
(* to Postgres, Redis or Kafka is one step of it, and the steps of         *)
(* different requests, in the same replica or in others, interleave.       *)
(* The list endpoint GetAll has its own module.                            *)
(***************************************************************************)
EXTENDS Integers, Sequences, FiniteSets, Functions

CONSTANTS
    Requests,     \* the goroutines; each serves one request (a bound)
    Products,     \* the ids products_id_seq can hand out (a bound)
    Users,        \* the user ids found in the customers' tokens
    Payloads,     \* the [price, stock] bodies that POST and PUT receive
    Quantities,   \* the quantities that /checkout receives
    Seed,         \* the table the server finds when it starts
    Ops,          \* the operations the clients call
    MaxInFlight,  \* how many requests are served at once (a bound)
    MaxInt,       \* the largest value of a Postgres INT column
    MaxRetry,     \* Producer.Retry.Max of sarama: 5 in the code
    Faults,       \* what may go wrong, see FaultKinds
    None          \* "no such row", and redis.Nil

\* "db": a statement fails without effect.  "ack": it takes effect, but the
\* answer is lost.  "redis": a Redis call fails (it is down, or the request's
\* context is cancelled).  "kafka": a send, or its acknowledgement, is lost.
\* "crash": the process serving the request dies.
FaultKinds == {"db", "ack", "redis", "kafka", "crash"}

ASSUME MaxIntAssumption == MaxInt \in Nat
ASSUME MaxRetryAssumption == MaxRetry \in Nat
ASSUME FaultsAssumption == Faults \subseteq FaultKinds
ASSUME PayloadsAssumption == Payloads \subseteq [price : Int, stock : Int]
ASSUME QuantitiesAssumption == Quantities \subseteq Int
ASSUME SeedAssumption ==
    Seed \in [Products -> [price : 1..MaxInt, stock : 0..MaxInt] \cup {None}]
ASSUME NoneAssumption == None \notin [price : Int, stock : Int]

VARIABLES
    products,        \* table products: [Products -> Row \cup {None}]
    transactions,    \* table transactions, oldest row first
    versions,        \* history: every row ever committed under an id
    cache,           \* the Redis keys "product:<id>"
    productEvents,   \* topic product-events, by key (and so by partition)
    checkoutEvents,  \* topic checkout-events
    pc, req, target, held, attempts, reply   \* the locals of the goroutines

dbVars == <<products, transactions, versions>>
kafkaVars == <<productEvents, checkoutEvents>>
localVars == <<req, target>>
vars == <<dbVars, cache, kafkaVars, pc, localVars, held, attempts, reply>>
-----------------------------------------------------------------------------
Row == [price : Int, stock : Int]
Sale == [user : Users, product : Products, quantity : Int, total : Int]
Event == [action : {"CREATE", "UPDATE", "DELETE"}, row : Row \cup {None}]

AllOps == {"get", "getStock", "create", "update", "delete", "checkout"}
ASSUME OpsAssumption == Ops \subseteq AllOps

Request ==
    [op : {"get", "getStock", "delete"}]
        \cup [op : {"create", "update"}, row : Payloads]
        \cup [op : {"checkout"}, user : Users, quantity : Quantities]

Labels == {"new", "lookup", "query", "fill", "insert", "write", "erase",
           "purge", "publish", "reserve", "record", "commit", "notify", "done"}
Statuses == {"none", "200", "201", "400", "404", "500", "Internal", "NotFound"}

TypeOK ==
    /\ products \in [Products -> Row \cup {None}]
    /\ transactions \in Seq(Sale)
    /\ versions \in [Products -> SUBSET Row]
    /\ cache \in [Products -> Row \cup {None}]
    /\ productEvents \in [Products -> Seq(Event)]
    /\ checkoutEvents \in Seq(Sale)
    /\ pc \in [Requests -> Labels]
    /\ req \in [Requests -> Request \cup {None}]
    /\ target \in [Requests -> Products \cup {None}]
    /\ held \in [Requests -> Row \cup {None}]
    /\ attempts \in [Requests -> 0..MaxRetry]
    /\ reply \in [Requests -> Statuses]

Init ==
    /\ products = Seed
    /\ transactions = << >>
    /\ versions = [id \in Products |-> {Seed[id]} \ {None}]
    /\ cache = [id \in Products |-> None]
    /\ productEvents = [id \in Products |-> << >>]
    /\ checkoutEvents = << >>
    /\ pc = [r \in Requests |-> "new"]
    /\ req = [r \in Requests |-> None]
    /\ target = [r \in Requests |-> None]
    /\ held = [r \in Requests |-> None]
    /\ attempts = [r \in Requests |-> 0]
    /\ reply = [r \in Requests |-> "none"]
-----------------------------------------------------------------------------
Fault(kind) == kind \in Faults

Goto(r, label) ==
    /\ pc' = [pc EXCEPT ![r] = label]
    /\ UNCHANGED reply

Respond(r, status) ==
    /\ pc' = [pc EXCEPT ![r] = "done"]
    /\ reply' = [reply EXCEPT ![r] = status]

InFlight(r) == pc[r] \notin {"new", "done"}

\* The struct tags of models.Product and models.CheckoutRequest: "required"
\* refuses the zero value, so a stock of 0 is refused although gte=0 allows it.
Valid(q) ==
    /\ q.op \in {"create", "update"} => q.row.price > 0 /\ q.row.stock > 0
    /\ q.op = "checkout" => q.quantity > 0

\* Mutant of FirstLabel: DELETE without the existence check.
FirstLabelUnchecked(q) ==
    CASE q.op = "create" -> "insert"
      [] q.op = "checkout" -> "reserve"
      [] q.op = "delete" -> "erase"
      [] OTHER -> "lookup"

FirstLabel(q) ==
    CASE q.op = "create" -> "insert"
      [] q.op = "checkout" -> "reserve"
      [] OTHER -> "lookup"

\* A handler is entered: it decodes the request, validates it, and makes its
\* first call.  A create has no id yet; the others may name an absent one.
Arrive(r) ==
    /\ pc[r] = "new"
    /\ Cardinality({s \in Requests : InFlight(s)}) < MaxInFlight
    /\ \E q \in Request :
        /\ q.op \in Ops
        /\ req' = [req EXCEPT ![r] = q]
        /\ IF Valid(q) THEN Goto(r, FirstLabel(q)) ELSE Respond(r, "400")
        /\ \E id \in IF q.op = "create" THEN {None} ELSE Products :
            target' = [target EXCEPT ![r] = id]
    /\ UNCHANGED <<dbVars, cache, kafkaVars, held, attempts>>
-----------------------------------------------------------------------------
(* GetByID, the whole of a read and the existence check of PUT and DELETE. *)

\* The product was found: a read answers, a write goes on to its statement.
Found(r) ==
    CASE req[r].op = "update" -> Goto(r, "write")
      [] req[r].op = "delete" -> Goto(r, "erase")
      [] OTHER -> Respond(r, "200")

\* The HTTP handlers turn every error of GetByID into 404, gRPC does not.
NotFoundStatus(r) == IF req[r].op = "getStock" THEN "NotFound" ELSE "404"
LookupErrorStatus(r) == IF req[r].op = "getStock" THEN "Internal" ELSE "404"

LookupHit(r) ==
    /\ pc[r] = "lookup"
    /\ cache[target[r]] # None
    /\ held' = [held EXCEPT ![r] = cache[target[r]]]
    /\ Found(r)
    /\ UNCHANGED <<dbVars, cache, kafkaVars, localVars, attempts>>

\* redis.Nil and a failing Redis are treated alike: ask the database.
LookupMiss(r) ==
    /\ pc[r] = "lookup"
    /\ cache[target[r]] = None \/ Fault("redis")
    /\ Goto(r, "query")
    /\ UNCHANGED <<dbVars, cache, kafkaVars, localVars, held, attempts>>

\* A plain SELECT sees committed rows only and waits for no lock.
SelectRow(r) ==
    /\ pc[r] = "query"
    /\ \/ /\ products[target[r]] # None
          /\ held' = [held EXCEPT ![r] = products[target[r]]]
          /\ Goto(r, "fill")
       \/ /\ products[target[r]] = None
          /\ Respond(r, NotFoundStatus(r))
          /\ UNCHANGED held
       \/ /\ Fault("db")
          /\ Respond(r, LookupErrorStatus(r))
          /\ UNCHANGED held
    /\ UNCHANGED <<dbVars, cache, kafkaVars, localVars, attempts>>

\* Mutant of CacheEntry: PUT caches the new body before it is written.
CacheEntryEarly(r) == IF req[r].op = "update" THEN req[r].row ELSE held[r]

CacheEntry(r) == held[r]

\* The error of the SET is ignored.
Fill(r) ==
    /\ pc[r] = "fill"
    /\ \/ cache' = [cache EXCEPT ![target[r]] = CacheEntry(r)]
       \/ Fault("redis") /\ UNCHANGED cache
    /\ Found(r)
    /\ UNCHANGED <<dbVars, kafkaVars, localVars, held, attempts>>

\* The TTL of ten minutes runs out, or Redis evicts the key or restarts.
Expire(id) ==
    /\ cache[id] # None
    /\ cache' = [cache EXCEPT ![id] = None]
    /\ UNCHANGED <<dbVars, kafkaVars, pc, localVars, held, attempts, reply>>
-----------------------------------------------------------------------------
(* Checkout's transaction holds the row lock of its product from its      *)
(* UPDATE to its end; a write of that row waits for it.                    *)

InTransaction(r) == pc[r] \in {"record", "commit"}

\* Mutants of Locked: no row lock; a lock that ends before the COMMIT.
LockedNever(id) == FALSE
LockedTooShort(id) == \E r \in Requests : pc[r] = "record" /\ target[r] = id

Locked(id) == \E r \in Requests : InTransaction(r) /\ target[r] = id

\* Mutant of Sold: a schema without the constraint fk_product.
SoldUnchecked(id) == FALSE

Sold(id) == \E i \in DOMAIN transactions : transactions[i].product = id
Fits(row) == row.price <= MaxInt /\ row.stock <= MaxInt

StoreRow(id, row) ==
    /\ products' = [products EXCEPT ![id] = row]
    /\ versions' = [versions EXCEPT ![id] = @ \cup {row}]

\* A statement of POST, PUT or DELETE took effect: the handler goes on, or
\* the answer was lost and it reports an error.
Executed(r, label) == Goto(r, label) \/ (Fault("ack") /\ Respond(r, "500"))

\* POST: the new id comes from the sequence, unless that is used up.  The only
\* key it deletes, products:all, is one that nothing ever sets.
Insert(r) ==
    /\ pc[r] = "insert"
    /\ \/ /\ Fits(req[r].row)
          /\ \E id \in Products :
              /\ versions[id] = {}
              /\ StoreRow(id, req[r].row)
              /\ target' = [target EXCEPT ![r] = id]
          /\ Executed(r, "publish")
       \/ /\ ~Fits(req[r].row) \/ Fault("db") \/ \A id \in Products : versions[id] # {}
          /\ Respond(r, "500")
          /\ UNCHANGED <<products, versions, target>>
    /\ UNCHANGED <<transactions, cache, kafkaVars, req, held, attempts>>

\* PUT: an UPDATE of no row is no error.
Write(r) ==
    /\ pc[r] = "write"
    /\ \/ /\ products[target[r]] # None
          /\ ~Locked(target[r])
          /\ Fits(req[r].row)
          /\ StoreRow(target[r], req[r].row)
          /\ Executed(r, "purge")
       \/ /\ products[target[r]] = None
          /\ Fits(req[r].row)
          /\ Goto(r, "purge")
          /\ UNCHANGED <<products, versions>>
       \/ /\ ~Fits(req[r].row) \/ Fault("db")
          /\ Respond(r, "500")
          /\ UNCHANGED <<products, versions>>
    /\ UNCHANGED <<transactions, cache, kafkaVars, localVars, held, attempts>>

\* DELETE: of no row is no error; a product that was sold is held by
\* fk_product.
Erase(r) ==
    /\ pc[r] = "erase"
    /\ \/ /\ products[target[r]] # None
          /\ ~Locked(target[r])
          /\ ~Sold(target[r])
          /\ products' = [products EXCEPT ![target[r]] = None]
          /\ Executed(r, "purge")
       \/ /\ products[target[r]] = None
          /\ Goto(r, "purge")
          /\ UNCHANGED products
       \/ /\ Fault("db") \/ (Sold(target[r]) /\ ~Locked(target[r]))
          /\ Respond(r, "500")
          /\ UNCHANGED products
    /\ UNCHANGED <<transactions, versions, cache, kafkaVars, localVars, held, attempts>>

\* Mutant of Purge: only the key products:all is deleted.
PurgeListOnly(r) ==
    /\ pc[r] = "purge"
    /\ Goto(r, "publish")
    /\ UNCHANGED <<dbVars, cache, kafkaVars, localVars, held, attempts>>

\* DEL product:<id>, its error ignored.
Purge(r) ==
    /\ pc[r] = "purge"
    /\ \/ cache' = [cache EXCEPT ![target[r]] = None]
       \/ Fault("redis") /\ UNCHANGED cache
    /\ Goto(r, "publish")
    /\ UNCHANGED <<dbVars, kafkaVars, localVars, held, attempts>>
-----------------------------------------------------------------------------
(* SyncProducer.SendMessage: one attempt a step, each stored or not, each  *)
(* acknowledged or not.  The producer is not idempotent, so an attempt     *)
(* whose acknowledgement was lost is stored again.  When the attempts run  *)
(* out the error is only logged: the client gets the same answer.          *)

\* Mutant of RetriesLeft: Retry.Max taken for the number of the last retry.
RetriesLeftAndOne(r) == attempts[r] <= MaxRetry

RetriesLeft(r) == attempts[r] < MaxRetry

Sent(r, stored, status) ==
    \/ /\ stored
       /\ Respond(r, status)
       /\ UNCHANGED attempts
    \/ /\ Fault("kafka")
       /\ RetriesLeft(r)
       /\ attempts' = [attempts EXCEPT ![r] = @ + 1]
       /\ UNCHANGED <<pc, reply>>
    \/ /\ Fault("kafka")
       /\ ~RetriesLeft(r)
       /\ Respond(r, status)
       /\ UNCHANGED attempts

EventOf(r) ==
    CASE req[r].op = "create" -> [action |-> "CREATE", row |-> req[r].row]
      [] req[r].op = "update" -> [action |-> "UPDATE", row |-> req[r].row]
      [] OTHER -> [action |-> "DELETE", row |-> None]

Publish(r) ==
    /\ pc[r] = "publish"
    /\ \E stored \in BOOLEAN :
        /\ productEvents' =
             IF stored THEN [productEvents EXCEPT ![target[r]] = Append(@, EventOf(r))]
                       ELSE productEvents
        /\ Sent(r, stored, IF req[r].op = "create" THEN "201" ELSE "200")
    /\ UNCHANGED <<dbVars, cache, checkoutEvents, localVars, held>>
-----------------------------------------------------------------------------
(* Checkout.                                                               *)

SaleOf(r) == [user |-> req[r].user, product |-> target[r], quantity |-> req[r].quantity,
              total |-> held[r].price * req[r].quantity]

InStock(r) ==
    /\ products[target[r]] # None
    /\ products[target[r]].stock >= req[r].quantity

\* BEGIN; UPDATE ... SET stock = stock - $1 WHERE id = $2 AND stock >= $1
\* RETURNING price.  A row that fails the condition is not waited for.
Reserve(r) ==
    /\ pc[r] = "reserve"
    /\ \/ /\ InStock(r)
          /\ ~Locked(target[r])
          /\ held' = [held EXCEPT ![r] = products[target[r]]]
          /\ Goto(r, "record")
       \/ /\ ~InStock(r) \/ Fault("db")
          /\ Respond(r, "400")
          /\ UNCHANGED held
    /\ UNCHANGED <<dbVars, cache, kafkaVars, localVars, attempts>>

\* Mutants of RolledBack: the error is ignored and the invoice sent; it is
\* ignored and the client told "200"; the transaction is left open.
ErrorIgnored(r) == Goto(r, "notify")
ErrorHidden(r) == Respond(r, "200")
LeftOpen(r) == UNCHANGED <<pc, reply>>

\* An error after BEGIN: the deferred Rollback gives the stock back.
RolledBack(r) == Respond(r, "400")

\* Mutant of Committed: the handler returns without sending the invoice.
CommittedSilently(r) == Respond(r, "200")

Committed(r) == Goto(r, "notify") \/ (Fault("ack") /\ Respond(r, "400"))

\* INSERT INTO transactions; a total that does not fit the column is refused.
Record(r) ==
    /\ pc[r] = "record"
    /\ \/ SaleOf(r).total <= MaxInt /\ Goto(r, "commit")
       \/ (SaleOf(r).total > MaxInt \/ Fault("db")) /\ RolledBack(r)
    /\ UNCHANGED <<dbVars, cache, kafkaVars, localVars, held, attempts>>

\* COMMIT makes the decrement and the new row visible together.  No cached
\* copy is deleted and no product event is sent.
Commit(r) ==
    LET id == target[r] IN
    /\ pc[r] = "commit"
    /\ \/ /\ StoreRow(id, [products[id] EXCEPT !.stock = @ - req[r].quantity])
          /\ transactions' = Append(transactions, SaleOf(r))
          /\ Committed(r)
       \/ /\ Fault("db")
          /\ RolledBack(r)
          /\ UNCHANGED dbVars
    /\ UNCHANGED <<cache, kafkaVars, localVars, held, attempts>>

Notify(r) ==
    /\ pc[r] = "notify"
    /\ \E stored \in BOOLEAN :
        /\ checkoutEvents' =
             IF stored THEN Append(checkoutEvents, SaleOf(r)) ELSE checkoutEvents
        /\ Sent(r, stored, "200")
    /\ UNCHANGED <<dbVars, cache, productEvents, localVars, held>>
-----------------------------------------------------------------------------
\* The replica dies, or the connection is cut: an open transaction is rolled
\* back, and what was already written stays.
Crash(r) ==
    /\ Fault("crash")
    /\ InFlight(r)
    /\ Respond(r, "none")
    /\ UNCHANGED <<dbVars, cache, kafkaVars, localVars, held, attempts>>

\* A step of a handler that has been entered.
Step(r) ==
    \/ LookupHit(r) \/ LookupMiss(r) \/ SelectRow(r) \/ Fill(r)
    \/ Insert(r) \/ Write(r) \/ Erase(r) \/ Purge(r) \/ Publish(r)
    \/ Reserve(r) \/ Record(r) \/ Commit(r) \/ Notify(r)

Next ==
    \/ \E r \in Requests : Arrive(r) \/ Step(r) \/ Crash(r)
    \/ \E id \in Products : Expire(id)

Spec == Init /\ [][Next]_vars

\* Postgres, Redis and Kafka answer or fail every call in the end, and a
\* runnable goroutine is scheduled.
FairSpec == Spec /\ \A r \in Requests : WF_vars(Step(r))
-----------------------------------------------------------------------------
(* Properties.                                                             *)

\* The stock never falls below zero, however many checkouts of one product,
\* PUTs and rollbacks overlap: the condition of Checkout's UPDATE and the row
\* lock behind it (product_repo.go:216).
StockNeverNegative ==
    \A id \in Products : products[id] # None => products[id].stock >= 0

\* A row of `transactions` never outlives its product, although DELETE checks
\* for the product, and not for its sales, several steps before it deletes.
SalesReferToProducts ==
    \A i \in DOMAIN transactions : products[transactions[i].product] # None

\* Nobody is invoiced for a purchase that did not commit: every message of
\* checkout-events is the image of a row of `transactions`, whichever of the
\* statements, the COMMIT or the sends of Checkout fail.
InvoicesAreForSales == Range(checkoutEvents) \subseteq Range(transactions)

\* A checkout that was answered 200 is in the books, with the price the
\* customer was charged, also when its invoice could not be sent.
AcknowledgedCheckoutIsRecorded ==
    \A r \in Requests :
        pc[r] = "done" /\ reply[r] = "200" /\ req[r].op = "checkout"
            => SaleOf(r) \in Range(transactions)

\* However old a cached copy is, and whoever filled it, it was once the
\* committed row of that very product; a read never shows a stock that was
\* reserved and rolled back.
ReadsShowCommittedRows ==
    /\ \A id \in Products : cache[id] \in versions[id] \cup {None}
    /\ \A r \in Requests :
         pc[r] = "done" /\ reply[r] = "200" /\ req[r].op \in {"get", "getStock"}
            => held[r] \in versions[target[r]]

\* Every product event is about a product that exists or did exist, although
\* PUT and DELETE publish without looking at the number of rows they changed
\* and their existence check may have been answered by an old cached copy.
EventsNameKnownProducts ==
    \A id \in Products : productEvents[id] # << >> => versions[id] # {}

\* The two tables change only by the atomic steps of InventoryLedger.
Ledger == INSTANCE InventoryLedger WITH products <- products, transactions <- transactions
ImplementsLedger == Ledger!LedgerSpec

Quiescent == \A r \in Requests : ~InFlight(r)

\* What can leave an old copy of a product in the cache for good: a sale, or a
\* request that filled the key and did not come to its own DEL, because it only
\* read or because its statement failed, or whose DEL never reached Redis.
LeavesBehind(r) ==
    /\ pc[r] # "new"
    /\ \/ req[r].op \in {"get", "getStock"}
       \/ pc[r] = "done" /\ reply[r] \in {"500", "none"}
       \/ Fault("redis") /\ req[r].op \in {"update", "delete"}

LeavesStaleCopy(id) == Sold(id) \/ \E r \in Requests : LeavesBehind(r) /\ target[r] = id

\* Admins overlapping each other leave no stale key behind: when nothing is in
\* flight a cached product is the current one, unless one of the above was at
\* it.  Each writer deletes the key after its own statement, whoever filled it
\* in between (product_repo.go:169 and :193).
StaleCopiesHaveACause ==
    Quiescent => \A id \in Products :
        cache[id] \in {None, products[id]} \/ LeavesStaleCopy(id)

\* When nothing is in flight, the last event published for a product tells
\* its current state.
LastEventIsCurrent ==
    Quiescent => \A id \in Products :
        productEvents[id] # << >> =>
            productEvents[id][Len(productEvents[id])].row = products[id]

\* A request is answered in the end: no handler waits for ever for a row lock.
EveryRequestIsAnswered ==
    \A r \in Requests : InFlight(r) ~> pc[r] = "done"

Occurrences(s, x) == Cardinality({i \in DOMAIN s : s[i] = x})

\* A sale is invoiced as often as its one request sends at most, and once when
\* no acknowledgement is lost: SendMessage of a producer that is not idempotent
\* (producer.go:18), after a COMMIT that no retry of Checkout repeats.
MaxSends == IF Fault("kafka") THEN MaxRetry + 1 ELSE 1
InvoicesAreBounded ==
    \A s \in Range(checkoutEvents) :
        Occurrences(checkoutEvents, s) <= MaxSends * Occurrences(transactions, s)

\* A checkout whose sale may be without its invoice: it has yet to send it, or
\* was answered before it could, or has tried as often as the producer does.
MayOweInvoice(r) ==
    /\ held[r] # None /\ req[r].op = "checkout"
    /\ \/ pc[r] = "notify"
       \/ /\ pc[r] = "done"
          /\ \/ Fault("crash") /\ reply[r] = "none"
             \/ Fault("ack") /\ reply[r] = "400"
             \/ Fault("kafka") /\ attempts[r] = MaxRetry

OwedInvoices(s) == {r \in Requests : MayOweInvoice(r) /\ SaleOf(r) = s}

\* COMMIT and the send are steps of two systems (product_repo.go:243 and :255):
\* the invoices that are missing are those of checkouts which a fault kept from
\* sending, one for each of them.
EverySaleIsAccountedFor ==
    \A s \in Range(transactions) :
        Occurrences(transactions, s)
            <= Occurrences(checkoutEvents, s) + Cardinality(OwedInvoices(s))

\* When nothing fails, every sale ends with exactly one message, its own, in
\* checkout-events.
SalesAreInvoicedOnce ==
    <>[](\A s \in Range(transactions) \cup Range(checkoutEvents) :
            Occurrences(transactions, s) = Occurrences(checkoutEvents, s))

\* GetStock answers with the stock of the moment ("User kirim ID, Server
\* balas Stok"), when it is the only request in flight.
StockReadIsCurrent ==
    [][\A r \in Requests :
         InFlight(r) /\ req[r].op = "getStock" /\ reply'[r] = "200"
            => held'[r] = products[target[r]]]_vars
-----------------------------------------------------------------------------
(* The inductive invariant behind the theorems of ProductRepositoryProofs. *)

\* Where a request can be: only at the labels of its own operation.
LabelsOf(op) ==
    CASE op = "create" -> {"insert", "publish"}
      [] op = "update" -> {"lookup", "query", "fill", "write", "purge", "publish"}
      [] op = "delete" -> {"lookup", "query", "fill", "erase", "purge", "publish"}
      [] op = "checkout" -> {"reserve", "record", "commit", "notify"}
      [] OTHER -> {"lookup", "query", "fill"}

\* A handler works on a request it has validated, on a product it has named
\* (a create, once it was given an id), with a row where it needs one.
Controlled(r) ==
    pc[r] # "new" =>
        /\ req[r] \in Request
        /\ req[r].op # "create" \/ pc[r] = "publish" => target[r] \in Products
        /\ InFlight(r) => Valid(req[r]) /\ pc[r] \in LabelsOf(req[r].op)
        /\ pc[r] \in {"fill", "record", "commit", "notify"} => held[r] \in Row

ControlOK == \A r \in Requests : Controlled(r)

StoredRow == [price : 1..MaxInt, stock : 0..MaxInt]
RowsInRange == \A id \in Products : products[id] \in StoredRow \cup {None}

\* What Checkout's first statement saw is true until its COMMIT: the row is
\* the one it took its units from, and no other transaction is on it.
ReservedRowIsUntouched ==
    \A r \in Requests : InTransaction(r) =>
        /\ held[r] = products[target[r]]
        /\ held[r].stock >= req[r].quantity
        /\ pc[r] = "commit" => SaleOf(r).total <= MaxInt
        /\ \A s \in Requests : InTransaction(s) /\ target[s] = target[r] => s = r

\* The history of a product starts with its row and never loses one.
VersionsAreKept ==
    /\ \A id \in Products :
         /\ products[id] \in versions[id] \cup {None}
         /\ cache[id] \in versions[id] \cup {None}
    /\ \A r \in Requests :
         /\ pc[r] = "fill" => held[r] \in versions[target[r]]
         /\ pc[r] \in {"write", "erase", "purge", "publish"} => versions[target[r]] # {}

\* An invoice is only ever about to be sent for a sale in the table.
InvoiceFollowsSale ==
    \A r \in Requests : pc[r] = "notify" => SaleOf(r) \in Range(transactions)

IInv ==
    /\ TypeOK
    /\ ControlOK
    /\ RowsInRange
    /\ ReservedRowIsUntouched
    /\ VersionsAreKept
    /\ ReadsShowCommittedRows
    /\ EventsNameKnownProducts
    /\ SalesReferToProducts
    /\ InvoiceFollowsSale
    /\ InvoicesAreForSales
    /\ AcknowledgedCheckoutIsRecorded

\* The attempts of a request to send its message that may have been stored.
SendsOf(r) ==
    {i \in 0..MaxRetry :
        i < attempts[r] \/ (i = attempts[r] /\ pc[r] = "done" /\ reply[r] = "200")}

\* The checkouts that have sold s and come to their invoice.
IsNotifier(r, s) ==
    /\ held[r] # None /\ req[r].op = "checkout"
    /\ pc[r] = "notify" \/ (pc[r] = "done" /\ SendsOf(r) # {})
    /\ SaleOf(r) = s

Notifiers(s) == {r \in Requests : IsNotifier(r, s)}
Sends(s) ==
    {m \in Requests \X (0..MaxRetry) : IsNotifier(m[1], s) /\ m[2] \in SendsOf(m[1])}

AttemptsAreFaults ==
    \A r \in Requests : attempts[r] > 0 =>
        Fault("kafka") /\ pc[r] \in {"publish", "notify", "done"}

\* The books agree about s: its rows, its messages and the requests behind both.
\* The sets are finite because a step adds one request, or one attempt, at most.
BooksAgree(s) ==
    /\ IsFiniteSet(Notifiers(s)) /\ IsFiniteSet(Sends(s)) /\ IsFiniteSet(OwedInvoices(s))
    /\ Cardinality(Notifiers(s)) <= Occurrences(transactions, s)
    /\ Occurrences(checkoutEvents, s) <= Cardinality(Sends(s))
    /\ Occurrences(transactions, s)
         <= Occurrences(checkoutEvents, s) + Cardinality(OwedInvoices(s))

BooksOK == AttemptsAreFaults /\ \A s \in Sale : BooksAgree(s)

\* While requests are in flight a copy may also be old because a writer has yet
\* to come to its DEL.
WillPurge(r, id) == target[r] = id /\ pc[r] \in {"write", "erase", "purge"}

CopiesAreCurrent ==
    \A id \in Products :
        \/ cache[id] \in {None, products[id]}
        \/ LeavesStaleCopy(id)
        \/ \E r \in Requests : WillPurge(r, id)
=============================================================================

# Verification of the Inventory API

TLA+ models, TLC runs and TLAPS proofs for the Go program in `src/`: an API
server (HTTP and gRPC) for a shop's products and purchases, and worker processes
that copy product events into Elasticsearch. `PROJECT.json` is the index: which
definition models which lines, what each run checks, which hazards there are,
which theorems are proved.

## 1. The system

```
 clients --HTTP--> rate limiter -> auth -> handlers -> ProductRepository --> Postgres (products, transactions, users)
                                                     \-> breaker -> GetAll -/ |----> Redis  (product:<id>, products:page:...)
 services --gRPC-------------------------> GetStock ->        |
                                                             Kafka: product-events (key: product id)
                                                                    checkout-events (key: user id)
                                                              |
                              inventory-worker-group (n workers) --> Elasticsearch (products, product-logs)
```

| Part | State | Operations | How it meets the others |
|---|---|---|---|
| Product endpoints and repository (`handler/product_handler.go`, `handler/grpc_handler.go`, `repository/product_repo.go`) | tables `products`, `transactions`; keys `product:<id>`; both topics; the locals of every request's goroutine | GET one, GetStock, POST, PUT, DELETE, checkout | one call to Postgres, Redis or Kafka at a time; requests of all replicas interleave between calls |
| Product list and breaker (`GetAll`, `pkg/resiliency/breaker.go`) | keys `products:page:...`, breaker counts and state | GET list | shares the breaker between all requests of a replica |
| Event producer (`pkg/stream/producer.go`) | none of its own | SendMessage | retries a send up to five times |
| Search worker (`cmd/worker/main.go`) | the process, its group session, marked offsets | Consume loop, ConsumeClaim, syncProductToES, processTask, shutdown | broker: assignment and offsets; Elasticsearch: documents and audit entries |
| Rate limiter (`middleware/ratelimit.go`) | a map of token buckets, one per address | Limit, getLimiter, cleanupVisitors | in front of every HTTP request |
| Authentication (`handler/auth_handler.go`, `utils/jwt.go`, `middleware/auth_middleware.go`) | table `users`, tokens held by clients | Register, Login, AuthMiddleware, AdminMiddleware | gives requests their user id and role |
| Lifecycle (`main.go`) | the servers and connections of a process | start, SIGTERM, Shutdown, closing | closes what the others use |
| Invoice queue (`internal/worker/processor.go`) | a Redis list | ProcessTaskInvoice | nothing calls it any more |
| Telemetry, logging, generated code, deployment | - | - | no state that another part reads |

What is hard here: nothing in the server holds more than one Postgres row lock,
and everything between two calls interleaves (cache fills against invalidations,
statements against the sends that follow them); answers get lost after the effect
(COMMIT, Kafka acknowledgements); the database, the cache, the topics and the
index are four systems with no transaction across them; workers die, are
replaced and come back late; the breaker and the limiter give out something
(a generation, a bucket) that is used after the lock is released and may be of
the past by then; a token tells of a role of the past; and the process closes
its connections while requests may be at work. `hazards` in `PROJECT.json`
lists these at their lines.

What makes each part correct:

- repository: stock never negative, sale and decrement together, no sale without
  product, no invoice without sale, one invoice for each sale when nothing fails,
  no more invoices than retries explain when something does, reads and events
  only about committed rows, no stale key without a cause,
  every request answered;
- worker: no event skipped but where Elasticsearch failed it, none processed
  twice but by a crash, an overlong pause, a failed commit or a failed request,
  offsets that never go back, an index that ends up current, progress, a group
  that settles;
- list and breaker: a cached page is the answer of a query, and is right again
  in the end; the breaker counts the answers of its own interval only, lets one
  probe through and refuses nobody without three failures;
- limiter: no more than burst + rate x time through one bucket, the delays of
  late requests counted twice, and one bucket an address and period; auth: an
  admin handler only for admins as long as the secret is the program's own,
  accounts that stand;
- lifecycle: no HTTP request in time meets a closed connection; the process ends.

## 2. Modules

| Module | What it is |
|---|---|
| `InventoryLedger` | Abstract specification: the two tables change by four atomic steps (`AddProduct`, `ReplaceProduct`, `RemoveProduct`, `Sell`). |
| `ProductRepository` | The requests, call by call, over tables, cache and topics; implements `InventoryLedger`. |
| `SearchWorker` | The workers, their consumer group, the search index. |
| `BreakerContract` | Abstract specification: a circuit breaker by the sets of calls of its current period, without counters, generations or late answers. |
| `Breaker` | gobreaker as `breaker.go` configures it; implements `BreakerContract`. |
| `ProductListing` | `EXTENDS Breaker`: GetAll with its cached pages, whose query is the breaker's call. |
| `RateLimiter` | The map of token buckets. |
| `Gateway` | `EXTENDS RateLimiter`: limiter, registration, login, token and role check, composed in the order of `main.go`. |
| `Lifecycle` | One process: start, signal, `Shutdown` and the closing of its connections, with requests in flight. |
| `*Proofs` | The theorems of `ProductRepository`, `SearchWorker`, `Breaker`, `ProductListing`, `RateLimiter`, `Gateway`, `Lifecycle`. |
| `MC*` | Finite values and symmetry for the runs. |

### ProductRepository

`pc[r]` is where the goroutine of request `r` is; every label is one call.

| Code | Actions |
|---|---|
| entry of a handler: decode, validate (`validate.Struct`) | `Arrive` (`Valid`, `FirstLabel`) |
| `GetByID` (GET, GetStock, and first part of PUT and DELETE) | `LookupHit`, `LookupMiss`, `SelectRow`, `Fill`; `Expire` for the TTL |
| `Create` | `Insert`, `Publish` |
| `Update` | `Write`, `Purge`, `Publish` |
| `Delete` | `Erase`, `Purge`, `Publish` |
| `Checkout` | `Reserve` (BEGIN and UPDATE), `Record` (INSERT), `Commit`, `Notify` (send) |
| `SendMessage` | `Sent`: an attempt is stored or not, acknowledged or not |
| death of the replica, cut connection | `Crash` |

Postgres is READ COMMITTED: plain reads see committed rows; a write waits for the
row lock that a checkout holds from its UPDATE to its end (`Locked`), and re-reads
the row then. The lock is derived from `pc`, so a rollback is a step that leaves
the tables alone, and COMMIT makes decrement and sale visible at once. fk_product
is `Sold`; INT columns are `MaxInt`, and the total is computed without bound, as
Go's 64 bits do, and refused by the column. Left out: product names, timestamps,
the ids of `transactions`, response bodies. A lost answer is a fault of kind
"ack", a statement without effect is "db"; a cancelled request context is one of
these.

### SearchWorker

| Code | Actions |
|---|---|
| `client.Consume` and the loop around it | `Rebalance` (a new generation), `LeaveSession`, `EndSession` (Consume returns nil, hence the panic: `Returned`), `JoinFails` |
| `ConsumeClaim`, one goroutine for every partition | `Take`, `Mark` |
| `syncProductToES` | `Sync` (index or delete the document), `Audit` (append to product-logs) |
| `processTask` | `ProcessTask`, a part of `Take`: called when the message cannot be parsed |
| signals, restart policy | `Terminate`, `Start`, `Crash` |
| sarama's offset manager | `AutoCommit`, `CommitOffsets` |

The broker is modelled from its use: partitions are append-only logs, a
generation has members and a balanced assignment, only the owner of the current
generation commits. A "pause" fault lets the coordinator start a generation
without a worker that still believes in its session; a "commit" fault is a last
commit of a session that fails, after which Consume returns all the same.
Elasticsearch applies one request at a time; an "es" fault is an error response,
or a failing transport with or without effect. `pkg/search/elastic.go` leaves the
client to its defaults, so it may send a failed request again, up to `MaxRetries`
times, before syncProductToES hears of it (`Failed`): harmless for a document, which
has an id, and one more entry for the audit, which has none. `faults` counts the faults by kind, so that properties can
say which of them they allow for. A DELETE answered 404 counts as done, as in the
code. A document that cannot be parsed does not occur: the API server is the only
producer.

### Breaker and BreakerContract

| Code | Actions and operators |
|---|---|
| `Execute`: `beforeRequest` | `Enter` (`Admits`) |
| `Execute`: `afterRequest` | `Leave` (`Counts`, `OnSuccess`, `OnFailure`) |
| `currentState`, at the start of both | `Current`: an interval or the open state that has run out |
| `toNewGeneration` | `Generation` |
| `ReadyToTrip` of `breaker.go` | `ReadyToTrip` |
| the clock | `BreakerTick` |

Both critical sections hold the breaker's mutex, so each is one action; the query
runs between them. `ticket[c]` is the generation that `Execute` keeps in a local
variable, and `Counts` is the comparison by which an answer of an older
generation is dropped. gobreaker is a library and modelled as `breaker.go` uses
it; its map entries are external. `BreakerContract` says what that amounts to: a
call is inside, has passed or has failed in a period; a closed period opens
with no fewer failures than `MinFailures`, a half-open one admits `MaxProbes`
calls and ends with the first failure or with the last of them passing. `Breaker` implements it with the periods as its generations
(`Contract == INSTANCE BreakerContract WITH ...`).

### ProductListing

| Code | Actions |
|---|---|
| `GetAllProducts`: the filter; `GetAll`: Redis GET | `Lookup` (`Filter`: 0 becomes the default, nothing else is checked) |
| `Breaker.Execute` begins, or refuses | `EnterBreaker` (`Enter` of `Breaker`) |
| the query and the loop over `rows` | `QuerySucceeds`, `QueryFails` (`Leave` of `Breaker`) |
| Redis SET with five minutes | `Fill`; `Aged` for the TTL |
| writers of other requests, `DEL products:all` | `Change` |

A page is abstracted to the `edition` of the table it was read from and to
whether all of its rows came (`whole`). `Wrap` and `Offset` compute the offset in
two's complement of the width `IntLimit`; a negative limit or offset is refused by
Postgres, and the refusal is a failure to the breaker. `Limits` holds both values
LIMIT may have, because GetOffset assigns to the filter while the arguments are
being evaluated (`product_repo.go:65`). Time is one clock for breaker and pages.

### RateLimiter and Gateway

| Code | Actions |
|---|---|
| `getLimiter`, under the mutex of the map | `GetLimiter` |
| `limiter.Allow()` after it, and 429 | `ReadClock` (`time.Now()`, before the lock), `Allow` (under the lock; `Available`: x/time/rate's `advance`), in `Gateway` as `StartLimit` and `Limit` |
| an address that `SplitHostPort` refuses | `Bypass` |
| `cleanupVisitors` | `Cleanup`, in `Gateway` as `Reset` |
| `Register` | `Register` (bcrypt's 72 bytes: `Prefix`; UNIQUE: `Free`) |
| `Login` | `SelectUser` (the SELECT), `IssueToken` (comparison and token) |
| `AuthMiddleware`, `AdminMiddleware`, `ParseToken` | `Authorize` (`Valid`) |
| `getSecretKey` | `SecretKey`: `Secret`, or `Fallback` when it is `None` |
| a role that is changed in SQL, by hand | `SetRole` |

A limiter is a number in `buckets`, a sequence that never loses one: the map may
forget a limiter that a request still holds. x/time/rate reads the clock before
it takes the limiter's lock, and a request that gets a token sets the bucket's
time to its own clock, also when another has been there with a later one; that is
why `ReadClock` and `Allow` are two steps, and `clock[r]` may be behind
`buckets[k].last`. bcrypt and the signature of a token are modelled by what they
decide: a token has the key it was signed with, and is checked against
`SecretKey`. A client presents a token some login has given out, nothing of use,
or one of `Foreign`: with any claims, signed with the key that is in the source,
as instances that run without JWT_SECRET sign them. `adminTimes` is history.
`users` starts with one of `Seeds`: the table may have accounts before the process does.

JWT_SECRET is set by `k8s/secret.yaml:9`, by `.github/workflows/ci.yml:60` and, in
a `.env` file, by the instructions at `README.md:119` of the repository; the Helm
chart (`k8s/inventory-chart/templates`) never sets it. A program without it signs
and checks with the constant `jwt_secret_buat_local` (`utils/jwt.go:15`), against
`README.md:168` ("JWT secret must not be hardcoded in production"). Then
`AdminsWereAdmins` says nothing, as its premise states: a foreign token passes. The
theorems are about both kinds of program, the run about one with a secret.

### Lifecycle

| Code | Actions |
|---|---|
| `main`, up to the servers | `Boot`; `ListenHttp`, `ListenGrpc` in their goroutines, `ServerFails` later (a failure is `log.Fatal`) |
| `signal.Notify`, `<-quit` | `Notify`, `Terminate` |
| `server.Shutdown` with ten seconds | `ShutdownReturns`, `Tick`, `TimedOut` |
| `rdb.Close`, deferred `kafkaProducer.Close`, `db.Close`, tracer | `Close(c)` in the order of `After`, `StopTracer` |
| a handler at work | `Begin`, `Use` (its next connection), `Answer` |

What a request does is abstracted to the order in which it needs its connections;
PUT and DELETE read before they write (`Uses`).
Shutdown waits for HTTP requests only; the gRPC server is never stopped.

## 3. What TLC checks

Passing runs, with their bounds:

| Run | Instance | Shows |
|---|---|---|
| `repo_ledger` | 3 requests, 2 products, MaxInt 3, MaxRetry 1, all faults | Reads, creates, updates, deletes and checkouts: `StockNeverNegative`, `ReservedRowIsUntouched`, `SalesReferToProducts`, `InvoicesAreForSales`, `AcknowledgedCheckoutIsRecorded`, `ReadsShowCommittedRows`, `EventsNameKnownProducts`, the refinement `ImplementsLedger`, and the two accounts of the invoices: no more than the retries explain (`InvoicesAreBounded`), none missing but of a checkout that a fault kept from sending it (`EverySaleIsAccountedFor`). |
| `repo_liveness` | 3 requests, no faults | Every request is answered, row locks included; every sale is invoiced exactly once; overlapping admins leave no stale key behind (`StaleCopiesHaveACause`). |
| `worker_faults` | 2 workers, 2 messages, 1 row, 1 repetition, 3 faults of any kind | An event is missed only where Elasticsearch failed it; none is repeated but by a crash, a pause, a failed commit or a failed request, each at most once; two workers consume one partition only after a pause; the offset never goes back; the index converges unless a late worker or Elasticsearch was in the way. |
| `worker_liveness` | 1 worker, 2 topics, crashes and failing requests | Everything is consumed, and the worker stays in its session in the end. |
| `breaker` | 5 calls, 1 probe, interval 2, timeout 1 | `CountsAreHistory`, `SingleProbe`, `RefusalsAreEarned`, and the refinement `ImplementsContract`. |
| `listing` | 2 lists, an ordinary, a refused and an overflowing page, 1 change | Only answered queries are cached, each under its own key (`PagesAreAnswers`); the TTL alone makes every page right in the end (`PagesHeal`). |
| `limiter` | 4 requests, 1 address, burst 2, rate 1, 3 ticks, a reset after 2 | `BucketBound`, `OneBucketPerPeriod`. |
| `gateway` | 2 requests, 1 address, 1 email, 3 passwords (one too long for bcrypt), 1 reset, 1 tick, failing statements, a secret; from an empty table and from one with an administrator | An admin handler is reached only with a live token of someone who was admin, foreign tokens notwithstanding (`AdminsWereAdmins`); an account that was answered 201 stands (`AccountsAreKept`). |
| `lifecycle` | 2 HTTP requests, 1 gRPC request, deadline 2 | `HttpRequestsAreServed`, `StopsWhenTold`. |

Why these bounds are enough for the cases of interest. Repository: one product
exists at the start and one id is free; the payloads differ in price and stock,
and include a stock of zero and a price that does not fit its column; two units at
price 2 make a total that does not fit either. A lock conflict needs two
requests, two writers of one row with a third that reads, fills or deletes between
their steps need three, and so does a stale fill between two updates. Worker: two
messages, a document and its deletion, make a replay that could write an older
state over a newer one, and two workers a handover; three faults let
a paused worker come back after its successor has crashed. Breaker: three failures open it, the fourth
call is the probe and the fifth comes beside it, or is an answer of the past.
Listing: the breaker never opens with two calls (that is what `breaker` is for);
two requests are a fill between the other's read and fill. Limiter: one request
that is late, one that overtakes it and two that profit are what a rewind takes,
and four spread over three ticks find two buckets. Gateway: two requests are two
registrations of one email, a registration and a login, or, since the table may
have an administrator to begin with, a login and the use of its token; one tick
separates a token from its end and one bucket of an address from the next.
Lifecycle: one request that is through and one that hangs, beside one of the
server nobody stops.

Requests, workers, rows, passwords and calls are symmetric in the safety runs and in
`breaker`, whose temporal property has the form Init /\ [][A]_v and is symmetric
in the calls, as those of `repo_ledger`, `worker_faults` and `repo_stale_stock`
are; runs with liveness use no symmetry. `CHECK_DEADLOCK FALSE` everywhere: all
requests answered, all messages consumed, or the process ended is a normal end.

Runs that end in a counterexample, each with a finding:

| Run | The code | What is said of it |
|---|---|---|
| `repo_stale_stock` | a checkout leaves `product:<id>` cached, GetStock answers the old stock | `proto/inventory/inventory.proto:10` |
| `repo_event_order` | commit order and publish order differ | `repository/product_repo.go:151` |
| `worker_scale` | Consume returning nil is a panic; each restart rebalances the group and makes the other worker panic | `docker-compose.yml:50` |

Departures that the models contain and no run is spent on, most of them because
they show in one statement:

- a read that fills the cache after another request's invalidation brings the old
  row back (`product_repo.go:128`); `StaleCopiesHaveACause`
  names the requests that may do so and excludes all others;
- `Update` and `Delete` say "hapus cache" and delete `products:all`, which nothing
  sets; the cached pages stay until their TTL (`PagesHeal`);
- a result cut off by a lost connection is cached like a whole one
  (`product_repo.go:76`); the query has no ORDER BY, so that pages need not fit
  each other (not modelled: a page is one edition);
- the tags of `models.ProductFilter` are validated nowhere; a negative limit or an
  overflowing offset is refused by Postgres, answered 500 and counted as a failure
  of the database by the breaker that all lists share;
- `breaker.go:20` says every 10 seconds and the interval is 60; `breaker.go:24`
  says more than 60% of at least five requests and the code takes 60% of three;
- `ErrTooManyRequests`, beside a probe, is answered 500, `ErrOpenState` 503;
- a worker that was replaced without knowing it overwrites a newer document
  (`cmd/worker/main.go:168`); `ReplaysConverge` excepts it;
- an event that Elasticsearch refuses is marked and lost (`cmd/worker/main.go:136`;
  `EachLossIsAFailure` counts it); a worker told to stop panics
  (`cmd/worker/main.go:67`), by the same test as in `worker_scale`;
- `processTask` is called when `json.Unmarshal` fails (`cmd/worker/main.go:121`), so
  no invoice is processed for a well-formed message, against "invoice akan dikirim
  via email" (`product_handler.go:270`); in the model `emailed` stays empty;
- `limiter.Allow` reads its clock before it locks the bucket, and a request that is
  overtaken there sets the bucket back to its own time, so that the time since is
  credited twice: a little more than "20 request/detik, dengan burst maksimal 30"
  (`main.go:128`) comes through, which `BucketBound` limits to what flows in during
  the delays;
- the audit index may show an event twice after a failed request, since the client
  repeats a POST without an id (`cmd/worker/main.go:214`; `OnlyFaultsReplay` counts it);
- a program without JWT_SECRET signs with a key that is in the source
  (`utils/jwt.go:13-16`), as described under Gateway; no property covers it;
- the reset of the limiter gives an address a second burst at once
  (`main.go:128` speaks of 30), which `OneBucketPerPeriod` limits to one a period;
- every error of the INSERT is answered 409 (`auth_handler.go:60`), the one
  whose statement took effect included; a role taken away is honoured for up to
  24 hours (`jwt.go:21`);
- the gRPC server is never stopped and its requests may meet closed connections;
  `log.Fatal` in the goroutine of a server, or a SIGTERM before `signal.Notify`,
  cuts requests off (`main.go:131-151`, `:225`);
- a stock of 0 is answered 400 (`models/product.go:7`, against
  `docs/swagger.yaml:28`); every error of `GetByID` is answered 404
  (`product_handler.go:155`); DELETE of a sold product is answered 500
  (`product_handler.go:222`).

Fairness. `ProductRepository!FairSpec`: weak fairness of each request's next
step. Goroutines are scheduled and every call returns (drivers report a lost
connection). `repo_liveness` has no faults, because with them the code does not
promise an invoice. Weak fairness suffices for a writer that waits for a row lock
because the number of requests is finite. `SearchWorker!FairSpec`: the
coordinator, the claims and the commits go on, a worker that must leave its
session does, and a container that died is started again (`restart: on-failure`,
and the Kubernetes default). Nothing is assumed of publishing, faults or signals.
`ProductListing!FairSpec`: the clock does not stop and each goroutine goes on;
nothing is assumed of requests coming in or of the table changing.
`Lifecycle!FairSpec`: the goroutine of main and the clock, and nothing of the
requests: a handler may hang, and `StopsWhenTold` holds all the same.

Mutants. Each property of a passing run has a variant of one definition
(`"mutants"` in `PROJECT.json`; the variant stands before the definition, marked
"Mutant of") that changes it the way a slip in the code would: no row lock, a
rollback that is forgotten, an error that is swallowed, a DEL that names the
wrong key, MarkMessage left out, answers of an old generation counted, a last token
given twice, a column without its default, a limiter
that is not put into the map, an expiry that is not looked at, connections closed
before Shutdown. The run finds each of them.

## 4. What is proved

The theorems hold for every value of the constants that meets the named
assumptions of the modules: any number of requests, products, workers,
partitions, calls and addresses, any limits, all kinds of faults. The assumptions
say that numbers are naturals (positive where the code has a positive constant),
that faults are of the known kinds, that a key belongs to one partition, that `None` is none
of the data it stands beside and, where sets are counted (calls of the breaker,
requests of the limiter), that they are finite.

Each proof module has an inductive invariant, which TLC checked before it was
proved, one lemma for each action and group of conjuncts, and the theorems that
follow.

| Module | Theorems | Property |
|---|---|---|
| `ProductRepositoryProofs` | `Invariance`, `TypeCorrect` | `IInv`, `TypeOK` |
| | `NoOverselling`, `ReservationsHold` | `StockNeverNegative`, `ReservedRowIsUntouched` |
| | `SalesKeepTheirProduct`, `NoInvoiceWithoutSale`, `AcknowledgedMeansRecorded` | `SalesReferToProducts`, `InvoicesAreForSales`, `AcknowledgedCheckoutIsRecorded` |
| | `ReadsAreHistory`, `EventsAreHistory` | `ReadsShowCommittedRows`, `EventsNameKnownProducts` |
| | `StaleCopiesAreExplained` | `StaleCopiesHaveACause` |
| | `InvoicesAreCounted`, `SalesAreAccountedFor` | `InvoicesAreBounded`, `EverySaleIsAccountedFor` |
| | `OneInvoicePerSale`, `RequestsAreFinite` | `InvoicedOnce` and `RequestsAdvance`, stated beside their proofs |
| | `ServerImplementsLedger` | `ImplementsLedger` |
| `SearchWorkerProofs` | `WorkerInvariance`, `WorkerTypeCorrect` | `WorkerInv`, `TypeOK` |
| | `NobodyRewinds`, `LossesAreFailures` | `CommitsNeverRewind`, `EachLossIsAFailure` |
| | `ReplaysAreFaults`, `IndexConverges` | `OnlyFaultsReplay`, `ReplaysConverge` |
| | `OneConsumerEach` | `ClaimsAreExclusive` |
| | `EventsAreAuditedOnce` | `AuditedOnce`, stated beside its proof |
| `BreakerProofs` | `BreakerInvariance`, `BreakerTypeCorrect` | `BreakerInv`, `BreakerTypeOK` |
| | `CountersTellHistory`, `RefusalsFollowFailures`, `OneProbeAtATime` | `CountsAreHistory`, `RefusalsAreEarned`, `SingleProbe` |
| | `BreakerImplementsContract` | `ImplementsContract` |
| `ProductListingProofs` | `ListingInvariance`, `ListingTypeCorrect`, `PagesAreGenuine` | `ListingInv`, `TypeOK`, `PagesAreAnswers` |
| | `ListingImplementsContract` | `ImplementsContract`, of the composed system |
| `RateLimiterProofs` | `LimiterInvariance`, `BucketsAreBounded`, `BucketsAreCounted` | `LimiterInv`, `BucketBound`, `OneBucketPerPeriod` |
| `GatewayProofs` | `GatewayInvariance`, `GatewayTypeCorrect`, `AdminsAreGenuine`, `AccountsStand` | `GatewayInv`, `TypeOK`, `AdminsWereAdmins`, `AccountsAreKept` |
| | `GatewayImplementsLimiter` | `LimiterSpec`, of the composed system |
| `LifecycleProofs` | `LifecycleInvariance`, `LifecycleTypeCorrect`, `HttpRequestsComeThrough` | `LifecycleInv`, `TypeOK`, `HttpRequestsAreServed` |

The arguments:

- Repository. What makes the invariant inductive is `ReservedRowIsUntouched`:
  from the first statement of a checkout to its end the row is still the one the
  units were taken from, and no second transaction is on it. It says why the
  COMMIT, which the model lets subtract from the row as it is then, cannot
  oversell and charges the price of that moment; it holds because PUT, DELETE and
  other checkouts wait for the lock. The other conjuncts: `ControlOK` (a handler
  is at a label of its own operation, with a validated request and a row where it
  needs one), `RowsInRange` (stored rows fit the columns), `VersionsAreKept` (every
  copy in the cache or in a goroutine is a row of the history) and
  `InvoiceFollowsSale` (what is about to be sent is in the table). The refinement
  follows: `Insert`, `Write`, `Erase` and `Commit` map to the four steps of the
  ledger, everything else stutters.
- Cache. `StaleCopiesHaveACause` speaks of quiet moments only; what every step
  keeps is `CopiesAreCurrent`: a copy is the row of its product, or one of the
  named requests explains it, or some writer is still before its DEL. A writer
  makes a copy old in the step in which it becomes such a writer, or fails and
  becomes an explanation; a reader that holds an old row is an explanation itself.
- Invoices. Two counts, of rows of `transactions` and of messages, cannot be
  compared step by step, so `BooksOK` puts sets of requests between them. The
  checkouts that have committed a sale (`Notifiers`) are no more than its rows; a
  message belongs to a request and one of its attempts (`Sends`), which makes the
  messages no more than `MaxSends` for each of those; and a row without a message
  belongs to a request in `OwedInvoices`. Each step adds one request, one attempt,
  one row or one message at most, which is also why the sets are finite although
  nothing says that `Requests` is. Where no fault touches COMMIT or the sends,
  both bounds meet: one invoice for each sale (`OneInvoicePerSale`).
- Progress. `CallsLeft` counts the calls a request can still make, an attempt of
  its send as one; its own steps lower it and nobody's step raises it
  (`RequestsAreFinite`). With the fairness of `FairSpec` this is why requests are
  answered; the waiting for row locks, which takes no steps, is left to the run.
- Worker. `WorkerInv` adds to the types that only a session has claims
  (`SessionsAreInOrder`) and that the owner of a partition has marked no less than
  the group has committed (`OwnersAreAhead`), hence `NobodyRewinds`. For
  `LossesAreFailures` the committed events are too few to count: `Skipped` adds
  those that some session has passed by without an audit entry, and only a failing
  request adds one to it (`EachSkipIsAFailure`). For `ReplaysAreFaults` the
  entries that are written are too few: `EachReplayIsAFault` adds those to come,
  one for each session that holds the message and has not passed it (`Auditors`)
  and one for the next session where nobody holds the partition and the message is
  not committed (`NextSession`). A session that ends in order turns its own into
  the next one's, a rebalance turns it back, and only a crash, a pause, or a last
  commit that fails adds one; a failed request adds the entry that its repetition
  writes. With the count of losses, that is exactly one entry where none of these
  happens
  (`EventsAreAuditedOnce`). `OneConsumerEach` rests on `ClaimsAreOwned`: before the
  first pause everybody in a session is a member and claims what it owns, since a
  rebalance waits for the sessions of the last generation. For `IndexConverges`, as long as
  nothing but crashes and signals happens, every document shows what a prefix of
  its partition makes of it, and the prefix is never shorter than what is committed
  or what the owner has reached (`IndexKeepsUp`): a replay writes older documents
  only while the offset is behind as well.
- Breaker. The counters are the sizes of sets of calls (`CountsAreHistory`), the
  current generation's only; `TicketsAreOld` keeps the late ones out, and
  `PeriodsAreKept` says what an open and a half-open period have admitted. A step
  of the contract follows for each branch of `Enter` and `Leave`, with a new
  generation in front of it or not.
- Limiter. `BucketsBalance`: for every bucket and every moment t, what went
  through since t and what is still available is at most the burst and what flowed
  in since t, with what flowed in during the delays (`Delays`) once more. A request
  that takes its token at the clock c and is let through at the time n moves the
  bucket's time from anywhere up to n back to c, which makes the ticks between c and
  n available again, and adds just these to `Delays`. This is an invariant of a
  limiter, in the map or out of it.
  `LimitersAreCounted` counts an address's limiters against the resets so far.
- Compositions. Every step of `ProductListing` is a step of `Breaker` or leaves
  its variables alone, and every step of `Gateway` one of `RateLimiter`
  (`GatewayImplementsLimiter`): so the theorems of the part hold of the whole, and `PathsAreInOrder` and `StagesAreInOrder`
  tie the two together. In `GatewayInv` a token is what its login read
  (`TokensAreReadings`), and that was in the table at a time `adminTimes` has noted
  (`ReadingsAreAccounts`, `AdminsAreNoted`); a token that a client presents was given
  out here or has the key in the source (`CallsCarryTokens`), and the second kind is
  not valid where the secret is another.
- Lifecycle. Nothing is closed before `Shutdown` has returned
  (`ClosedAfterShutdown`), and then no HTTP request is running unless the deadline
  has passed (`DrainedBeforeClosing`).

Only model-checked: liveness, since fairness and ENABLED are outside the prover's
reach (`EveryRequestIsAnswered`, `SalesAreInvoicedOnce`, `EveryMessageIsConsumed`,
`GroupSettles`, `PagesHeal`, `StopsWhenTold`). Every invariant and every action
property of the passing runs is a theorem.

## 5. What is left

Planned: `InventorySystem`, the requests and the workers composed over the same
topics, to compare the search index with the table through the order of events of
`repo_event_order` (each half is checked against an arbitrary other half now: the
worker consumes any log, and the server's topics are read by nobody); several
brokers' partitions in one worker run; the safety half of the worker's and the
list's progress, as `RequestsAdvance` states it for the requests.

Not modelled:

- the invoice queue processor: nothing calls `ProcessTaskInvoice` and nothing fills
  its list since invoices go over Kafka, so it has no behaviour;
- request logging, telemetry and metrics: pure output, no state that another part
  reads; the shutdown of the tracer is a step of `Lifecycle`;
- of the Elasticsearch client, all but its repetitions: it stops a worker whose
  Elasticsearch does not answer at the start, which to the group is a worker that
  is down;
- generated protobuf and swagger code, response encoding, nginx, Kubernetes and
  load-test files.

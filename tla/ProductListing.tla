---------------------------- MODULE ProductListing ----------------------------
(***************************************************************************)
(* GET /products: GetAllProducts over GetAll, with its cached pages and    *)
(* its query inside the circuit breaker.  The calls of the breaker are the *)
(* goroutines of one replica that list products.                           *)
(* What a page shows is abstracted to the edition of the table it was read *)
(* from and to whether all of its rows arrived.                            *)
(***************************************************************************)
EXTENDS Breaker

CONSTANTS
    Queries,       \* the [page, limit] pairs that clients send, 0 for none
    IntLimit,      \* ints range over -IntLimit .. IntLimit-1: 2^63 in Go
    PageTTL,       \* the life of a cached page, in ticks: 5 minutes
    MaxEditions,   \* how often the table changes (a bound)
    Faults,        \* what may go wrong, see FaultKinds
    None           \* "not cached", "not read"

\* "db": the query fails, the database's fault or the client's, whose request
\* context was cancelled.  "cut": the connection is lost while the rows are
\* read.  "redis": a Redis call fails.
FaultKinds == {"db", "cut", "redis"}

ASSUME QueriesAssumption == Queries \subseteq [page : Int, limit : Int]
ASSUME IntLimitAssumption == IntLimit \in Nat \ {0}
ASSUME PageTTLAssumption == PageTTL \in Nat \ {0}
ASSUME MaxEditionsAssumption == MaxEditions \in Nat
ASSUME FaultsAssumption == Faults \subseteq FaultKinds
ASSUME NoPageAssumption == None \notin [edition : 0..MaxEditions, whole : BOOLEAN]

VARIABLES
    edition,   \* how often the table has changed
    pages,     \* the Redis keys "products:page:...:limit:...", and products:all
    pc,        \* where a goroutine is
    query,     \* the filter it was given
    held       \* the rows it has read

listVars == <<edition, pages, pc, query, held>>
vars == <<breakerVars, listVars>>
-----------------------------------------------------------------------------
Fault(kind) == kind \in Faults

\* The handler's defaults; every other number goes on as it came, the tags of
\* models.ProductFilter are validated nowhere.
Filter(q) ==
    [page |-> IF q.page = 0 THEN 1 ELSE q.page,
     limit |-> IF q.limit = 0 THEN 10 ELSE q.limit]

PageKeys == {Filter(q) : q \in Queries}

\* "products:all", a key that no filter has.
ListKey == [page |-> 0, limit |-> 0]
Keys == PageKeys \cup {ListKey}

\* Two's complement.
Wrap(n) == ((n + IntLimit) % (2 * IntLimit)) - IntLimit

Limit(f) == IF f.limit < 1 THEN 10 ELSE f.limit
Offset(f) == Wrap(((IF f.page < 1 THEN 1 ELSE f.page) - 1) * Limit(f))

\* GetOffset changes the filter while the arguments are being evaluated: Go
\* leaves open whether filter.Limit is read before or after that.
Limits(f) == {f.limit, Limit(f)}

\* Postgres refuses a negative LIMIT or OFFSET.
Accepted(f, limit) == limit >= 0 /\ Offset(f) >= 0

Page == [edition : 0..MaxEditions, whole : BOOLEAN]

TypeOK ==
    /\ BreakerTypeOK
    /\ edition \in 0..MaxEditions
    /\ pages \in [Keys -> [rows : Page, left : 1..PageTTL] \cup {None}]
    /\ pc \in [Calls -> {"new", "enter", "query", "fill", "done"}]
    /\ query \in [Calls -> PageKeys \cup {None}]
    /\ held \in [Calls -> Page \cup {None}]

Init ==
    /\ BreakerInit
    /\ edition = 0
    /\ pages = [k \in Keys |-> None]
    /\ pc = [r \in Calls |-> "new"]
    /\ query = [r \in Calls |-> None]
    /\ held = [r \in Calls |-> None]

Goto(r, label) == pc' = [pc EXCEPT ![r] = label]

\* The handler is entered and asks Redis for its page.  A failing Redis and a
\* missing page are treated alike.
Lookup(r) ==
    /\ pc[r] = "new"
    /\ \E q \in Queries :
        LET f == Filter(q) IN
        /\ query' = [query EXCEPT ![r] = f]
        /\ \/ /\ pages[f] # None
              /\ held' = [held EXCEPT ![r] = pages[f].rows]
              /\ Goto(r, "done")
           \/ /\ pages[f] = None \/ Fault("redis")
              /\ Goto(r, "enter")
              /\ UNCHANGED held
    /\ UNCHANGED <<breakerVars, edition, pages>>

\* Breaker.Execute begins; a call it refuses is answered at once.
EnterBreaker(r) ==
    /\ pc[r] = "enter"
    /\ Enter(r)
    /\ Goto(r, IF verdict'[r] = "waiting" THEN "query" ELSE "done")
    /\ UNCHANGED <<edition, pages, query, held>>

\* The query succeeds.  rows.Err() is not looked at: rows that were cut off
\* count as all the rows there are.
QuerySucceeds(r) ==
    /\ pc[r] = "query"
    /\ \E limit \in Limits(query[r]) : Accepted(query[r], limit)
    /\ \E whole \in {TRUE} \cup (IF Fault("cut") THEN {FALSE} ELSE {}) :
        held' = [held EXCEPT ![r] = [edition |-> edition, whole |-> whole]]
    /\ Leave(r, TRUE)
    /\ Goto(r, "fill")
    /\ UNCHANGED <<edition, pages, query>>

\* Mutant of AfterFailure: the error of Execute is overlooked.
AfterFailureOverlooked == "fill"

AfterFailure == "done"

QueryFails(r) ==
    /\ pc[r] = "query"
    /\ Fault("db") \/ \E limit \in Limits(query[r]) : ~Accepted(query[r], limit)
    /\ Leave(r, FALSE)
    /\ Goto(r, AfterFailure)
    /\ UNCHANGED <<edition, pages, query, held>>

\* SET with its TTL; its error is ignored.
Fill(r) ==
    /\ pc[r] = "fill"
    /\ \/ pages' = [pages EXCEPT ![query[r]] = [rows |-> held[r], left |-> PageTTL]]
       \/ Fault("redis") /\ UNCHANGED pages
    /\ Goto(r, "done")
    /\ UNCHANGED <<breakerVars, edition, query, held>>

\* Create, Update, Delete and Checkout change the table; all but the last
\* delete the key products:all.
Change ==
    /\ edition < MaxEditions
    /\ edition' = edition + 1
    /\ pages' = [pages EXCEPT ![ListKey] = None]
    /\ UNCHANGED <<breakerVars, pc, query, held>>

\* Mutants of Aged: pages are cached without a TTL; a page outlives its TTL.
AgedNever(entry) == entry
AgedLate(entry) ==
    IF entry = None \/ entry.left = 0 THEN None ELSE [entry EXCEPT !.left = @ - 1]

Aged(entry) ==
    IF entry = None \/ entry.left = 1 THEN None ELSE [entry EXCEPT !.left = @ - 1]

\* Time passes for the breaker and for the pages.
Tick ==
    /\ BreakerTick
    /\ pages' = [k \in Keys |-> Aged(pages[k])]
    /\ UNCHANGED <<edition, pc, query, held>>

\* The answer of the handler once a request is done: the circuit being open
\* is told from every other error, one probe too many is not.
Status(r) ==
    CASE verdict[r] \in {"none", "ok"} -> "200"
      [] verdict[r] = "ErrOpenState" -> "503"
      [] OTHER -> "500"

Step(r) ==
    \/ EnterBreaker(r) \/ QuerySucceeds(r) \/ QueryFails(r) \/ Fill(r)

Next == Tick \/ Change \/ \E r \in Calls : Lookup(r) \/ Step(r)

Spec == Init /\ [][Next]_vars

\* The clock does not stop, every query is answered or fails, and a runnable
\* goroutine is scheduled.
FairSpec == Spec /\ WF_vars(Tick) /\ \A r \in Calls : WF_vars(Step(r))
-----------------------------------------------------------------------------
(* Properties.                                                             *)

CachedPagesWereRead ==
    \A k \in Keys : pages[k] # None =>
        \E r \in Calls : query[r] = k /\ verdict[r] = "ok" /\ held[r] = pages[k].rows

\* A cached page, under whatever key, is what a query for that very key
\* returned without an error; a failed or refused query leaves none, and no
\* request is answered 200 without rows that were read (product_repo.go:87-105).
PagesAreAnswers ==
    /\ CachedPagesWereRead
    /\ \A r \in Calls : pc[r] = "done" /\ Status(r) = "200" => held[r] # None

\* Nothing invalidates a page, and a truncated one is kept like any other:
\* only the TTL of product_repo.go:103 makes every page right in the end.
PagesHeal ==
    <>[](\A k \in Keys : pages[k] = None \/ pages[k].rows = [edition |-> edition, whole |-> TRUE])
-----------------------------------------------------------------------------
(* The inductive invariant behind the theorems of ProductListingProofs.    *)

\* What has become of the breaker's call belongs to where its goroutine is,
\* and whoever is to answer 200 has rows.
PathsAreInOrder ==
    \A r \in Calls :
        /\ pc[r] \in {"new", "enter"} => verdict[r] = "none"
        /\ pc[r] = "query" => verdict[r] = "waiting"
        /\ pc[r] = "fill" => verdict[r] = "ok"
        /\ pc[r] # "new" => query[r] \in PageKeys
        /\ pc[r] \in {"fill", "done"} /\ verdict[r] \in {"none", "ok"} => held[r] \in Page

ListingInv ==
    /\ TypeOK
    /\ PathsAreInOrder
    /\ CachedPagesWereRead
=============================================================================

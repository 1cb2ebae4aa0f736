------------------------- MODULE ProductListingProofs -------------------------
(***************************************************************************)
(* What the product list promises, for any number of requests, queries and *)
(* changes of the table.  To the breaker every step of the list is a step  *)
(* of its own, or none, so what BreakerProofs shows holds here as well.    *)
(***************************************************************************)
EXTENDS ProductListing, BreakerProofs

\* To the breaker a step of the list is one of its own, or none.
LEMMA BreakerSteps == [Next]_vars => [BreakerNext]_breakerVars
<1>1. ASSUME NEW r \in Calls, EnterBreaker(r) \/ QuerySucceeds(r) \/ QueryFails(r)
      PROVE  BreakerNext
  BY <1>1 DEF EnterBreaker, QuerySucceeds, QueryFails, BreakerNext
<1>2. ASSUME NEW r \in Calls, Lookup(r) \/ Fill(r) PROVE UNCHANGED breakerVars
  BY <1>2 DEF Lookup, Fill
<1>3. Tick => BreakerNext
  BY DEF Tick, BreakerNext
<1>4. Change \/ UNCHANGED vars => UNCHANGED breakerVars
  BY DEF Change, vars
<1> QED
  BY <1>1, <1>2, <1>3, <1>4 DEF Next, Step

\* The breaker of the list is the breaker of Breaker.
LEMMA ListingBreaks == Spec => BreakerSpec
<1>1. Init => BreakerInit
  BY DEF Init
<1> QED
  BY <1>1, BreakerSteps, PTL DEF Spec, BreakerSpec

\* GetAll, cache and all, keeps the contract of the breaker it calls.
THEOREM ListingImplementsContract == Spec => ImplementsContract
BY ListingBreaks, BreakerImplementsContract, PTL
-----------------------------------------------------------------------------
(* The inductive invariant.                                                *)

LEMMA ListingStarts == Init => ListingInv
<1> SUFFICES ASSUME Init PROVE ListingInv
  OBVIOUS
<1>1. BreakerTypeOK
  BY InitInv DEF Init, BreakerInv
<1>2. TypeOK
  BY <1>1, MaxEditionsAssumption DEF Init, TypeOK
<1>3. PathsAreInOrder /\ CachedPagesWereRead
  BY DEF Init, BreakerInit, PathsAreInOrder, CachedPagesWereRead
<1> QED
  BY <1>2, <1>3 DEF ListingInv

\* A request whose query has yet to succeed is nobody's witness: whatever it
\* does, the pages that are cached keep theirs.
LEMMA WitnessesStay ==
    ASSUME ListingInv, NEW r \in Calls, pc[r] \in {"new", "enter", "query"}, pages' = pages,
           \A q \in Calls \ {r} :
               query'[q] = query[q] /\ verdict'[q] = verdict[q] /\ held'[q] = held[q]
    PROVE  CachedPagesWereRead'
<1> SUFFICES ASSUME NEW k \in Keys, pages[k] # None
             PROVE  \E q \in Calls :
                      query'[q] = k /\ verdict'[q] = "ok" /\ held'[q] = pages[k].rows
  BY DEF CachedPagesWereRead, Keys, PageKeys, ListKey
<1>1. PICK q \in Calls : query[q] = k /\ verdict[q] = "ok" /\ held[q] = pages[k].rows
  BY DEF ListingInv, CachedPagesWereRead
<1>2. q # r
  BY <1>1 DEF ListingInv, PathsAreInOrder
<1> QED
  BY <1>1, <1>2

\* Where a goroutine goes.
LEMMA Goes ==
    ASSUME TypeOK, NEW r \in Calls, NEW label \in {"new", "enter", "query", "fill", "done"},
           Goto(r, label)
    PROVE  /\ pc' \in [Calls -> {"new", "enter", "query", "fill", "done"}]
           /\ pc'[r] = label
           /\ \A q \in Calls \ {r} : pc'[q] = pc[q]
BY DEF Goto, TypeOK

LEMMA LookupKeeps ==
    ASSUME ListingInv, BreakerTypeOK', NEW r \in Calls, Lookup(r)
    PROVE  ListingInv'
<1> USE DEF ListingInv
<1>1. /\ pc[r] = "new" /\ verdict[r] = "none" /\ verdict' = verdict /\ pages' = pages
      /\ edition' = edition
  BY DEF Lookup, PathsAreInOrder, breakerVars
<1>2. PICK f \in PageKeys :
        /\ query' = [query EXCEPT ![r] = f]
        /\ \/ /\ pages[f] # None
              /\ held' = [held EXCEPT ![r] = pages[f].rows]
              /\ Goto(r, "done")
           \/ Goto(r, "enter") /\ held' = held
  BY DEF Lookup, PageKeys
<1>3. pages[f] # None => pages[f].rows \in Page
  BY DEF TypeOK, Keys
<1>4. /\ query' \in [Calls -> PageKeys \cup {None}] /\ held' \in [Calls -> Page \cup {None}]
      /\ query'[r] = f
      /\ \A q \in Calls \ {r} : query'[q] = query[q] /\ held'[q] = held[q]
  BY <1>2, <1>3 DEF TypeOK
<1>5. /\ pc' \in [Calls -> {"new", "enter", "query", "fill", "done"}]
      /\ pc'[r] \in {"enter", "done"} /\ (pc'[r] = "done" => held'[r] \in Page)
      /\ \A q \in Calls \ {r} : pc'[q] = pc[q]
  <2>1. CASE pages[f] # None /\ held' = [held EXCEPT ![r] = pages[f].rows] /\ Goto(r, "done")
    <3>1. held'[r] = pages[f].rows
      BY <2>1 DEF TypeOK
    <3> QED
      BY <2>1, <3>1, <1>3, Goes
  <2>2. CASE Goto(r, "enter")
    BY <2>2, Goes
  <2> QED
    BY <1>2, <2>1, <2>2
<1>6. TypeOK'
  BY <1>1, <1>4, <1>5 DEF TypeOK, Keys, PageKeys, ListKey, Page
<1>7. PathsAreInOrder'
  BY <1>1, <1>4, <1>5 DEF PathsAreInOrder, PageKeys, Page
<1>8. CachedPagesWereRead'
  BY <1>1, <1>4, WitnessesStay
<1> QED
  BY <1>6, <1>7, <1>8

LEMMA EnterBreakerKeeps ==
    ASSUME ListingInv, BreakerTypeOK', NEW r \in Calls, EnterBreaker(r)
    PROVE  ListingInv'
<1> USE DEF ListingInv
<1>1. /\ pc[r] = "enter" /\ query[r] \in PageKeys /\ pages' = pages /\ edition' = edition
      /\ query' = query /\ held' = held
  BY DEF EnterBreaker, PathsAreInOrder
<1>2. /\ verdict'[r] \in {"waiting"} \cup Refusals
      /\ \A q \in Calls \ {r} : verdict'[q] = verdict[q]
  BY DEF EnterBreaker, Enter, TypeOK, BreakerTypeOK, Refusals
<1>3. /\ pc' \in [Calls -> {"new", "enter", "query", "fill", "done"}]
      /\ pc'[r] = IF verdict'[r] = "waiting" THEN "query" ELSE "done"
      /\ \A q \in Calls \ {r} : pc'[q] = pc[q]
  BY Goes DEF EnterBreaker
<1>4. TypeOK'
  BY <1>1, <1>3 DEF TypeOK, Keys, PageKeys, ListKey, Page
<1>5. PathsAreInOrder'
  BY <1>1, <1>2, <1>3 DEF PathsAreInOrder, PageKeys, Page, Refusals
<1>6. CachedPagesWereRead'
  BY <1>1, <1>2, WitnessesStay
<1> QED
  BY <1>4, <1>5, <1>6

LEMMA QuerySucceedsKeeps ==
    ASSUME ListingInv, BreakerTypeOK', NEW r \in Calls, QuerySucceeds(r)
    PROVE  ListingInv'
<1> USE DEF ListingInv
<1>1. /\ pc[r] = "query" /\ query[r] \in PageKeys /\ pages' = pages /\ edition' = edition
      /\ query' = query
  BY DEF QuerySucceeds, PathsAreInOrder
<1>2. PICK p \in Page : held' = [held EXCEPT ![r] = p]
  BY DEF QuerySucceeds, Page, TypeOK
<1>3. /\ held' \in [Calls -> Page \cup {None}] /\ held'[r] \in Page
      /\ \A q \in Calls \ {r} : held'[q] = held[q]
  BY <1>2 DEF TypeOK
<1>4. /\ verdict'[r] = "ok" /\ \A q \in Calls \ {r} : verdict'[q] = verdict[q]
  BY DEF QuerySucceeds, Leave, TypeOK, BreakerTypeOK
<1>5. /\ pc' \in [Calls -> {"new", "enter", "query", "fill", "done"}]
      /\ pc'[r] = "fill" /\ \A q \in Calls \ {r} : pc'[q] = pc[q]
  BY Goes DEF QuerySucceeds
<1>6. TypeOK'
  BY <1>1, <1>3, <1>5 DEF TypeOK, Keys, PageKeys, ListKey, Page
<1>7. PathsAreInOrder'
  BY <1>1, <1>3, <1>4, <1>5 DEF PathsAreInOrder, PageKeys, Page
<1>8. CachedPagesWereRead'
  BY <1>1, <1>3, <1>4, WitnessesStay
<1> QED
  BY <1>6, <1>7, <1>8

LEMMA QueryFailsKeeps ==
    ASSUME ListingInv, BreakerTypeOK', NEW r \in Calls, QueryFails(r)
    PROVE  ListingInv'
<1> USE DEF ListingInv
<1>1. /\ pc[r] = "query" /\ query[r] \in PageKeys /\ pages' = pages /\ edition' = edition
      /\ query' = query /\ held' = held
  BY DEF QueryFails, PathsAreInOrder
<1>2. /\ verdict'[r] = "failed" /\ \A q \in Calls \ {r} : verdict'[q] = verdict[q]
  BY DEF QueryFails, Leave, TypeOK, BreakerTypeOK
<1>3. /\ pc' \in [Calls -> {"new", "enter", "query", "fill", "done"}]
      /\ pc'[r] = "done" /\ \A q \in Calls \ {r} : pc'[q] = pc[q]
  BY Goes DEF QueryFails, AfterFailure
<1>4. TypeOK'
  BY <1>1, <1>3 DEF TypeOK, Keys, PageKeys, ListKey, Page
<1>5. PathsAreInOrder'
  BY <1>1, <1>2, <1>3 DEF PathsAreInOrder, PageKeys, Page
<1>6. CachedPagesWereRead'
  BY <1>1, <1>2, WitnessesStay
<1> QED
  BY <1>4, <1>5, <1>6

\* The page that is stored is the request's own answer.
LEMMA FillKeeps ==
    ASSUME ListingInv, BreakerTypeOK', NEW r \in Calls, Fill(r)
    PROVE  ListingInv'
<1> USE DEF ListingInv
<1>1. /\ pc[r] = "fill" /\ verdict[r] = "ok" /\ held[r] \in Page /\ query[r] \in PageKeys
      /\ edition' = edition /\ query' = query /\ held' = held /\ verdict' = verdict
  BY DEF Fill, PathsAreInOrder, breakerVars
<1>2. /\ pc' \in [Calls -> {"new", "enter", "query", "fill", "done"}]
      /\ pc'[r] = "done" /\ \A q \in Calls \ {r} : pc'[q] = pc[q]
  BY Goes DEF Fill
<1>3. pages' \in [Keys -> [rows : Page, left : 1..PageTTL] \cup {None}]
  <2>1. [rows |-> held[r], left |-> PageTTL] \in [rows : Page, left : 1..PageTTL]
    BY <1>1, PageTTLAssumption
  <2> QED
    BY <2>1 DEF Fill, TypeOK
<1>4. TypeOK'
  BY <1>1, <1>2, <1>3 DEF TypeOK, Keys, PageKeys, ListKey, Page
<1>5. PathsAreInOrder'
  BY <1>1, <1>2 DEF PathsAreInOrder, PageKeys, Page
<1>6. CachedPagesWereRead'
  <2> SUFFICES ASSUME NEW k \in Keys, pages'[k] # None
               PROVE  \E q \in Calls :
                        query[q] = k /\ verdict[q] = "ok" /\ held[q] = pages'[k].rows
    BY <1>1 DEF CachedPagesWereRead, Keys, PageKeys, ListKey
  <2>1. CASE pages'[k] = pages[k]
    BY <2>1 DEF CachedPagesWereRead
  <2>2. CASE pages'[k] # pages[k]
    <3>1. k = query[r] /\ pages'[k].rows = held[r]
      BY <2>2 DEF Fill, TypeOK
    <3> QED
      BY <1>1, <3>1
  <2> QED
    BY <2>1, <2>2
<1> QED
  BY <1>4, <1>5, <1>6

\* Pages only disappear, or come nearer to it, by themselves.
LEMMA PagesFade ==
    ASSUME ListingInv, BreakerTypeOK', query' = query, verdict' = verdict, held' = held, pc' = pc,
           edition' \in 0..MaxEditions,
           pages' \in [Keys -> [rows : Page, left : 1..PageTTL] \cup {None}],
           \A k \in Keys : pages'[k] # None => pages[k] # None /\ pages'[k].rows = pages[k].rows
    PROVE  ListingInv'
<1> USE DEF ListingInv
<1>1. TypeOK'
  BY DEF TypeOK, Keys, PageKeys, ListKey, Page
<1>2. PathsAreInOrder'
  BY DEF PathsAreInOrder, PageKeys, Page
<1>3. CachedPagesWereRead'
  BY DEF CachedPagesWereRead, Keys, PageKeys, ListKey
<1> QED
  BY <1>1, <1>2, <1>3

LEMMA ChangeKeeps == ASSUME ListingInv, BreakerTypeOK', Change PROVE ListingInv'
<1>1. pages' = [pages EXCEPT ![ListKey] = None] /\ edition' = edition + 1 /\ edition < MaxEditions
  BY DEF Change
<1>2. edition' \in 0..MaxEditions
  BY <1>1, MaxEditionsAssumption DEF ListingInv, TypeOK
<1>3. /\ pages' \in [Keys -> [rows : Page, left : 1..PageTTL] \cup {None}]
      /\ \A k \in Keys : pages'[k] # None => pages[k] # None /\ pages'[k].rows = pages[k].rows
  BY <1>1 DEF ListingInv, TypeOK
<1> QED
  BY <1>2, <1>3, PagesFade DEF Change, breakerVars

LEMMA ListingTickKeeps == ASSUME ListingInv, BreakerTypeOK', Tick PROVE ListingInv'
<1>1. /\ pages' = [k \in Keys |-> Aged(pages[k])] /\ edition' = edition
      /\ query' = query /\ verdict' = verdict /\ held' = held /\ pc' = pc
  BY DEF Tick, BreakerTick
<1>2. ASSUME NEW k \in Keys
      PROVE  /\ pages'[k] \in [rows : Page, left : 1..PageTTL] \cup {None}
             /\ pages'[k] # None => pages[k] # None /\ pages'[k].rows = pages[k].rows
  <2>1. CASE pages[k] = None \/ pages[k].left = 1
    BY <1>1, <2>1 DEF Aged
  <2>2. CASE pages[k] # None /\ pages[k].left # 1
    <3>1. pages[k] \in [rows : Page, left : 1..PageTTL]
      BY <2>2 DEF ListingInv, TypeOK
    <3>2. pages'[k] = [pages[k] EXCEPT !.left = pages[k].left - 1]
      BY <1>1, <2>2 DEF Aged
    <3>3. pages[k].left - 1 \in 1..PageTTL
      BY <2>2, <3>1, PageTTLAssumption
    <3> QED
      BY <2>2, <3>1, <3>2, <3>3
  <2> QED
    BY <2>1, <2>2
<1>3. edition' \in 0..MaxEditions
  BY <1>1 DEF ListingInv, TypeOK
<1>4. pages' \in [Keys -> [rows : Page, left : 1..PageTTL] \cup {None}]
  BY <1>1, <1>2
<1> QED
  BY <1>1, <1>2, <1>3, <1>4, PagesFade

LEMMA ListingSteps == ListingInv /\ BreakerTypeOK' /\ [Next]_vars => ListingInv'
<1> SUFFICES ASSUME ListingInv, BreakerTypeOK', [Next]_vars PROVE ListingInv'
  OBVIOUS
<1>1. ASSUME NEW r \in Calls, Lookup(r) \/ Step(r) PROVE ListingInv'
  BY <1>1, LookupKeeps, EnterBreakerKeeps, QuerySucceedsKeeps, QueryFailsKeeps, FillKeeps DEF Step
<1>2. CASE UNCHANGED vars
  <2>1. /\ query' = query /\ verdict' = verdict /\ held' = held /\ pc' = pc
        /\ pages' = pages /\ edition' = edition
    BY <1>2 DEF vars, listVars, breakerVars
  <2> QED
    BY <2>1, PagesFade DEF ListingInv, TypeOK
<1> QED
  BY <1>1, <1>2, ChangeKeeps, ListingTickKeeps DEF Next

\* The inductive invariant: a request's place, its call of the breaker and the
\* rows it holds belong together, and every cached page has its reader.
THEOREM ListingInvariance == Spec => []ListingInv
<1>1. Spec => []BreakerTypeOK
  BY ListingBreaks, BreakerTypeCorrect, PTL
<1> QED
  BY <1>1, ListingStarts, ListingSteps, PTL DEF Spec

\* Every variable of the product list stays of its type.
THEOREM ListingTypeCorrect == Spec => []TypeOK
<1>1. ListingInv => TypeOK
  BY DEF ListingInv
<1> QED
  BY <1>1, ListingInvariance, PTL

\* A cached page is what a query for its key returned, and nobody is answered
\* 200 without rows, whatever fails and however long a query takes.
THEOREM PagesAreGenuine == Spec => []PagesAreAnswers
<1>1. ASSUME ListingInv, NEW r \in Calls, pc[r] = "done", Status(r) = "200"
      PROVE  held[r] # None
  <2>1. verdict[r] \in {"none", "ok"}
    BY <1>1 DEF Status
  <2>2. held[r] \in Page
    BY <1>1, <2>1 DEF ListingInv, PathsAreInOrder
  <2> QED
    BY <2>2, NoPageAssumption DEF Page
<1>2. ListingInv => PagesAreAnswers
  BY <1>1 DEF ListingInv, PagesAreAnswers
<1> QED
  BY <1>2, ListingInvariance, PTL
=============================================================================

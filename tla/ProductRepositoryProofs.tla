----------------------- MODULE ProductRepositoryProofs -----------------------
(***************************************************************************)
(* Theorems of ProductRepository, for any number of requests, products and *)
(* users, any seed and any combination of faults.                          *)
(***************************************************************************)
EXTENDS ProductRepository, SequenceTheorems, FiniteSetTheorems, TLAPS

USE DEF Fault, InFlight, InTransaction

-----------------------------------------------------------------------------
(* The data the handlers work on.                                          *)

\* What a request carries, by its operation.
LEMMA RequestFields ==
    ASSUME NEW q \in Request
    PROVE  /\ q.op \in AllOps
           /\ q.op \in {"create", "update"} => q.row \in Row
           /\ q.op = "checkout" => q.user \in Users /\ q.quantity \in Int
  BY PayloadsAssumption, QuantitiesAssumption DEF Request, AllOps, Row

\* A sale takes units off the stock of a row and leaves its price.
LEMMA RowAfterSale ==
    ASSUME NEW row \in Row, NEW quantity \in Int
    PROVE  /\ [row EXCEPT !.stock = @ - quantity] \in Row
           /\ [row EXCEPT !.stock = @ - quantity].price = row.price
           /\ [row EXCEPT !.stock = @ - quantity].stock = row.stock - quantity
  BY DEF Row

\* A body that is valid and fits the columns is a row that can be stored.
LEMMA BodyIsStorable ==
    ASSUME NEW q \in Request, q.op \in {"create", "update"}, Valid(q), Fits(q.row)
    PROVE  q.row \in StoredRow
  BY RequestFields, MaxIntAssumption DEF Valid, Fits, StoredRow, Row

\* Appending to a sequence adds one element to its range.
LEMMA RangeOfAppend ==
    ASSUME NEW S, NEW s \in Seq(S), NEW e \in S
    PROVE  Range(Append(s, e)) = Range(s) \cup {e}
  <1>1. Append(s, e) \in Seq(S)
    BY AppendProperties
  <1>2. DOMAIN Append(s, e) = 1..(Len(s) + 1)
    BY <1>1, AppendProperties, LenProperties
  <1>3. \A i \in 1..Len(s) : Append(s, e)[i] = s[i]
    BY AppendProperties
  <1>4. Append(s, e)[Len(s) + 1] = e
    BY AppendProperties
  <1>5. DOMAIN s = 1..Len(s) /\ Len(s) \in Nat
    BY LenProperties
  <1>6. 1..(Len(s) + 1) = 1..Len(s) \cup {Len(s) + 1}
    BY <1>5
  <1>7. Range(Append(s, e)) \subseteq Range(s) \cup {e}
    BY <1>2, <1>3, <1>4, <1>5, <1>6, Zenon DEF Range
  <1>8. Range(s) \subseteq Range(Append(s, e))
    BY <1>2, <1>3, <1>5, <1>6, Zenon DEF Range
  <1>9. e \in Range(Append(s, e))
    BY <1>2, <1>4, <1>6, Zenon DEF Range
  <1>10. QED
    BY <1>7, <1>8, <1>9, Zenon
LEMMA OccurrencesAreNat ==
    ASSUME NEW S, NEW s \in Seq(S), NEW x
    PROVE  /\ IsFiniteSet({i \in DOMAIN s : s[i] = x})
           /\ Occurrences(s, x) \in Nat
           /\ Occurrences(s, x) = 0 <=> x \notin Range(s)
  <1> DEFINE D == {i \in DOMAIN s : s[i] = x}
  <1>1. Len(s) \in Nat /\ DOMAIN s = 1..Len(s)
    BY LenProperties
  <1>2. IsFiniteSet(1..Len(s)) /\ D \subseteq 1..Len(s)
    BY <1>1, FS_Interval
  <1>3. IsFiniteSet(D) /\ Cardinality(D) \in Nat
    BY <1>2, FS_Subset, FS_CardinalityType
  <1>4. Cardinality(D) = 0 <=> D = {}
    BY <1>3, FS_EmptySet
  <1>5. D = {} <=> x \notin Range(s)
    BY Zenon DEF Range
  <1>6. QED
    BY <1>3, <1>4, <1>5 DEF Occurrences

\* What an element more does to how often another one occurs.
LEMMA OccurrencesInAppend ==
    ASSUME NEW S, NEW s \in Seq(S), NEW e \in S, NEW x
    PROVE  Occurrences(Append(s, e), x) = Occurrences(s, x) + (IF e = x THEN 1 ELSE 0)
  <1> DEFINE D == {i \in DOMAIN s : s[i] = x}
             E == {i \in DOMAIN Append(s, e) : Append(s, e)[i] = x}
  <1>1. Len(s) \in Nat /\ DOMAIN s = 1..Len(s)
    BY LenProperties
  <1>2. Append(s, e) \in Seq(S) /\ Len(Append(s, e)) = Len(s) + 1
    BY AppendProperties
  <1>3. DOMAIN Append(s, e) = 1..(Len(s) + 1)
    BY <1>2, LenProperties
  <1>4. /\ \A i \in 1..Len(s) : Append(s, e)[i] = s[i]
        /\ Append(s, e)[Len(s) + 1] = e
    BY AppendProperties
  <1>5. Occurrences(s, x) = Cardinality(D) /\ Occurrences(Append(s, e), x) = Cardinality(E)
    BY DEF Occurrences
  <1>6. IsFiniteSet(D) /\ Cardinality(D) \in Nat
    BY <1>5, OccurrencesAreNat
  <1>7. Len(s) + 1 \notin D
    BY <1>1
  <1>8. 1..(Len(s) + 1) = 1..Len(s) \cup {Len(s) + 1}
    BY <1>1
  <1>9. E = IF e = x THEN D \cup {Len(s) + 1} ELSE D
    BY <1>1, <1>3, <1>4, <1>8, Zenon
  <1>10. Cardinality(D \cup {Len(s) + 1}) = Cardinality(D) + 1
    BY <1>6, <1>7, FS_AddElement
  <1> HIDE DEF D, E
  <1>11. CASE e = x
    BY <1>5, <1>9, <1>10, <1>11
  <1>12. CASE e # x
    <2>1. E = D
      BY <1>9, <1>12, Zenon
    <2>2. QED
      BY <1>5, <1>6, <1>12, <2>1
  <1>13. QED
    BY <1>11, <1>12

LEMMA ProductIsMonotonic ==
    ASSUME NEW a \in Nat, NEW b \in Nat, NEW k \in Nat, a <= b
    PROVE  a * k <= k * b
  OBVIOUS

\* Two sets that differ in one element, and their sizes.
LEMMA OneApart ==
    ASSUME NEW S, IsFiniteSet(S), NEW x, NEW T, T \subseteq S \cup {x}
    PROVE  /\ IsFiniteSet(T) /\ Cardinality(S) \in Nat /\ Cardinality(T) \in Nat
           /\ Cardinality(T) <= Cardinality(S) + 1
           /\ T \subseteq S => Cardinality(T) <= Cardinality(S)
           /\ S \subseteq T => Cardinality(S) <= Cardinality(T)
           /\ S \subseteq T \cup {x} => Cardinality(S) <= Cardinality(T) + 1
           /\ S \subseteq T /\ x \in T \ S => Cardinality(T) = Cardinality(S) + 1
  <1>1. /\ IsFiniteSet(S \cup {x}) /\ Cardinality(S) \in Nat
        /\ Cardinality(S \cup {x}) <= Cardinality(S) + 1
        /\ x \notin S => Cardinality(S \cup {x}) = Cardinality(S) + 1
    <2>1. Cardinality(S) \in Nat
      BY FS_CardinalityType
    <2>2. /\ IsFiniteSet(S \cup {x})
          /\ Cardinality(S \cup {x}) = IF x \in S THEN Cardinality(S) ELSE Cardinality(S) + 1
      BY FS_AddElement, Zenon
    <2>3. QED
      BY <2>1, <2>2
  <1>2. IsFiniteSet(T) /\ Cardinality(T) <= Cardinality(S \cup {x})
    BY <1>1, FS_Subset
  <1>3. Cardinality(T) \in Nat /\ Cardinality(S \cup {x}) \in Nat
    BY <1>1, <1>2, FS_CardinalityType
  <1>4. T \subseteq S => Cardinality(T) <= Cardinality(S)
    BY FS_Subset
  <1>5. S \subseteq T => Cardinality(S) <= Cardinality(T)
    BY <1>2, FS_Subset
  <1>6. ASSUME S \subseteq T \cup {x} PROVE Cardinality(S) <= Cardinality(T) + 1
    <2>1. IsFiniteSet(T \cup {x}) /\ Cardinality(T \cup {x}) <= Cardinality(T) + 1
      BY <1>2, <1>3, FS_AddElement
    <2>2. Cardinality(S) <= Cardinality(T \cup {x}) /\ Cardinality(T \cup {x}) \in Nat
      BY <1>6, <2>1, FS_Subset, FS_CardinalityType
    <2>3. QED
      BY <1>1, <1>3, <2>1, <2>2
  <1>7. S \subseteq T /\ x \in T \ S => T = S \cup {x} /\ x \notin S
    OBVIOUS
  <1>8. ASSUME S \subseteq T /\ x \in T \ S PROVE Cardinality(T) = Cardinality(S) + 1
    BY <1>1, <1>7, <1>8
  <1>9. Cardinality(T) <= Cardinality(S) + 1
    BY <1>1, <1>2, <1>3
  <1>10. QED
    BY <1>1, <1>2, <1>3, <1>4, <1>5, <1>6, <1>8, <1>9
-----------------------------------------------------------------------------
(* Types, and where the handlers are.                                      *)

LEMMA TypeInitially == Init => TypeOK
  BY SeedAssumption, MaxIntAssumption, MaxRetryAssumption, EmptySeq
  DEF Init, TypeOK, Row, Labels, Statuses

\* A handler at a label serves the operation the label belongs to.
LEMMA AtLabel ==
    ASSUME ControlOK, NEW r \in Requests, InFlight(r)
    PROVE  /\ req[r] \in Request
           /\ Valid(req[r])
           /\ pc[r] # "insert" => target[r] \in Products
           /\ pc[r] = "insert" => req[r].op = "create"
           /\ pc[r] = "write" => req[r].op = "update"
           /\ pc[r] = "erase" => req[r].op = "delete"
           /\ pc[r] = "purge" => req[r].op \in {"update", "delete"}
           /\ pc[r] = "publish" => req[r].op \in {"create", "update", "delete"}
           /\ pc[r] \in {"reserve", "record", "commit", "notify"} => req[r].op = "checkout"
           /\ pc[r] \in {"lookup", "query", "fill"}
                => req[r].op \in {"get", "getStock", "update", "delete"}
           /\ pc[r] \in {"insert", "lookup", "query", "fill", "write", "erase", "purge",
                         "publish", "reserve", "record", "commit", "notify"}
  <1>1. req[r] \in Request /\ Valid(req[r]) /\ pc[r] \in LabelsOf(req[r].op)
    BY DEF ControlOK, Controlled
  <1>2. req[r].op \in AllOps
    BY <1>1, RequestFields
  <1>3. req[r].op # "create" \/ pc[r] = "publish" => target[r] \in Products
    BY DEF ControlOK, Controlled
  <1>4. QED
    BY <1>1, <1>2, <1>3 DEF LabelsOf, AllOps

LEMMA SaleIsTyped ==
    ASSUME ControlOK, NEW r \in Requests, pc[r] \in {"record", "commit", "notify"}
    PROVE  SaleOf(r) \in Sale
  <1>1. held[r] \in Row /\ target[r] \in Products /\ req[r].op = "checkout" /\ req[r] \in Request
    BY AtLabel DEF ControlOK, Controlled
  <1>2. req[r].user \in Users /\ req[r].quantity \in Int
    BY <1>1, RequestFields
  <1>3. held[r].price * req[r].quantity \in Int
    BY <1>1, <1>2 DEF Row
  <1>4. QED
    BY <1>1, <1>2, <1>3 DEF SaleOf, Sale

LEMMA EventIsTyped ==
    ASSUME ControlOK, NEW r \in Requests, pc[r] = "publish"
    PROVE  EventOf(r) \in Event
  BY AtLabel, RequestFields DEF EventOf, Event

LEMMA StoreIsTyped ==
    ASSUME TypeOK, NEW id, NEW row \in Row, StoreRow(id, row)
    PROVE  products' \in [Products -> Row \cup {None}] /\ versions' \in [Products -> SUBSET Row]
  <1>1. products' \in [Products -> Row \cup {None}]
    BY DEF TypeOK, StoreRow
  <1>2. versions' \in [Products -> SUBSET Row]
    BY DEF TypeOK, StoreRow
  <1>3. QED
    BY <1>1, <1>2

LEMMA SentIsTyped ==
    ASSUME TypeOK, NEW r \in Requests, NEW stored \in BOOLEAN,
           NEW status \in Statuses, Sent(r, stored, status)
    PROVE  /\ pc' \in [Requests -> Labels]
           /\ reply' \in [Requests -> Statuses]
           /\ attempts' \in [Requests -> 0..MaxRetry]
  <1>1. attempts' \in [Requests -> 0..MaxRetry]
    BY MaxRetryAssumption DEF TypeOK, Sent, RetriesLeft
  <1>2. QED
    BY <1>1 DEF TypeOK, Sent, Respond, Labels

LEMMA TypePreserved ==
    ASSUME TypeOK, ControlOK, ReservedRowIsUntouched, [Next]_vars
    PROVE  TypeOK'
  <1> USE DEF TypeOK, Labels, Statuses, Goto, Respond, vars, dbVars, kafkaVars, localVars
  <1>1. ASSUME NEW r \in Requests, Arrive(r) PROVE TypeOK'
    <2>1. PICK q \in Request :
            /\ req' = [req EXCEPT ![r] = q]
            /\ IF Valid(q) THEN Goto(r, FirstLabel(q)) ELSE Respond(r, "400")
            /\ \E id \in IF q.op = "create" THEN {None} ELSE Products :
                 target' = [target EXCEPT ![r] = id]
      BY <1>1 DEF Arrive
    <2>2. FirstLabel(q) \in Labels
      BY DEF FirstLabel
    <2>3. pc' \in [Requests -> Labels] /\ reply' \in [Requests -> Statuses]
      BY <2>1, <2>2
    <2>4. target' \in [Requests -> Products \cup {None}]
      BY <2>1
    <2>5. req' \in [Requests -> Request \cup {None}]
      BY <2>1
    <2>6. QED
      BY <1>1, <2>3, <2>4, <2>5 DEF Arrive
  <1>2. ASSUME NEW r \in Requests, LookupHit(r) PROVE TypeOK'
    <2>1. target[r] \in Products
      BY <1>2, AtLabel DEF LookupHit
    <2>2. QED
      BY <1>2, <2>1 DEF LookupHit, Found
  <1>3. ASSUME NEW r \in Requests, LookupMiss(r) PROVE TypeOK'
    BY <1>3 DEF LookupMiss
  <1>4. ASSUME NEW r \in Requests, SelectRow(r) PROVE TypeOK'
    <2>1. target[r] \in Products
      BY <1>4, AtLabel DEF SelectRow
    <2>2. NotFoundStatus(r) \in Statuses /\ LookupErrorStatus(r) \in Statuses
      BY DEF NotFoundStatus, LookupErrorStatus
    <2>3. held' \in [Requests -> Row \cup {None}]
      BY <1>4, <2>1 DEF SelectRow
    <2>4. \/ Goto(r, "fill")
          \/ \E status \in Statuses : Respond(r, status)
      BY <1>4, <2>2, Zenon DEF SelectRow
    <2>5. pc' \in [Requests -> Labels] /\ reply' \in [Requests -> Statuses]
      BY <2>4
    <2>6. QED
      BY <1>4, <2>3, <2>5 DEF SelectRow
  <1>5. ASSUME NEW r \in Requests, Fill(r) PROVE TypeOK'
    BY <1>5 DEF Fill, Found, CacheEntry
  <1>6. ASSUME NEW r \in Requests, Insert(r) PROVE TypeOK'
    <2>1. req[r].row \in Row
      BY <1>6, AtLabel, RequestFields DEF Insert
    <2>2. pc' \in [Requests -> Labels] /\ reply' \in [Requests -> Statuses]
      BY <1>6 DEF Insert, Executed
    <2>3. products' \in [Products -> Row \cup {None}] /\ versions' \in [Products -> SUBSET Row]
      BY <1>6, <2>1, StoreIsTyped DEF Insert
    <2>4. QED
      BY <1>6, <2>2, <2>3 DEF Insert
  <1>7. ASSUME NEW r \in Requests, Write(r) PROVE TypeOK'
    <2>1. req[r].row \in Row
      BY <1>7, AtLabel, RequestFields DEF Write
    <2>2. pc' \in [Requests -> Labels] /\ reply' \in [Requests -> Statuses]
      BY <1>7 DEF Write, Executed
    <2>3. products' \in [Products -> Row \cup {None}] /\ versions' \in [Products -> SUBSET Row]
      BY <1>7, <2>1, StoreIsTyped DEF Write
    <2>4. QED
      BY <1>7, <2>2, <2>3 DEF Write
  <1>8. ASSUME NEW r \in Requests, Erase(r) PROVE TypeOK'
    BY <1>8 DEF Erase, Executed
  <1>9. ASSUME NEW r \in Requests, Purge(r) PROVE TypeOK'
    BY <1>9 DEF Purge
  <1>10. ASSUME NEW r \in Requests, Publish(r) PROVE TypeOK'
    <2>1. target[r] \in Products /\ EventOf(r) \in Event
      BY <1>10, AtLabel, EventIsTyped DEF Publish
    <2>2. Append(productEvents[target[r]], EventOf(r)) \in Seq(Event)
      BY <2>1, AppendProperties
    <2>3. productEvents' \in [Products -> Seq(Event)]
      BY <1>10, <2>2 DEF Publish
    <2>4. PICK status \in {"200", "201"} : \E stored \in BOOLEAN : Sent(r, stored, status)
      BY <1>10 DEF Publish
    <2>5. /\ pc' \in [Requests -> Labels] /\ reply' \in [Requests -> Statuses]
          /\ attempts' \in [Requests -> 0..MaxRetry]
      BY <2>4, SentIsTyped
    <2>6. QED
      BY <1>10, <2>3, <2>5 DEF Publish
  <1>11. ASSUME NEW r \in Requests, Reserve(r) PROVE TypeOK'
    <2>1. target[r] \in Products
      BY <1>11, AtLabel DEF Reserve
    <2>2. held' \in [Requests -> Row \cup {None}]
      <3>1. products[target[r]] \in Row \cup {None}
        BY <2>1
      <3>2. held' = [held EXCEPT ![r] = products[target[r]]] \/ held' = held
        BY <1>11 DEF Reserve
      <3> QED
        BY <3>1, <3>2
    <2>3. QED
      BY <1>11, <2>2 DEF Reserve
  <1>12. ASSUME NEW r \in Requests, Record(r) PROVE TypeOK'
    BY <1>12 DEF Record, RolledBack
  <1>13. ASSUME NEW r \in Requests, Commit(r) PROVE TypeOK'
    <2>1. /\ target[r] \in Products /\ req[r].quantity \in Int
          /\ SaleOf(r) \in Sale
      BY <1>13, AtLabel, RequestFields, SaleIsTyped DEF Commit
    <2>2. Append(transactions, SaleOf(r)) \in Seq(Sale)
      BY <2>1, AppendProperties
    <2>3. products[target[r]] \in Row
      BY <1>13 DEF Commit, ControlOK, Controlled, ReservedRowIsUntouched
    <2>4. [products[target[r]] EXCEPT !.stock = @ - req[r].quantity] \in Row
      BY <2>1, <2>3, RowAfterSale
    <2>5. products' \in [Products -> Row \cup {None}] /\ versions' \in [Products -> SUBSET Row]
      BY <1>13, <2>4, StoreIsTyped DEF Commit
    <2>6. pc' \in [Requests -> Labels] /\ reply' \in [Requests -> Statuses]
      BY <1>13 DEF Commit, Committed, RolledBack
    <2>7. transactions' \in Seq(Sale)
      BY <1>13, <2>2 DEF Commit
    <2>8. QED
      BY <1>13, <2>5, <2>6, <2>7 DEF Commit
  <1>14. ASSUME NEW r \in Requests, Notify(r) PROVE TypeOK'
    <2>1. SaleOf(r) \in Sale
      BY <1>14, SaleIsTyped DEF Notify
    <2>2. Append(checkoutEvents, SaleOf(r)) \in Seq(Sale)
      BY <2>1, AppendProperties
    <2>3. \E stored \in BOOLEAN : Sent(r, stored, "200")
      BY <1>14 DEF Notify
    <2>4. /\ pc' \in [Requests -> Labels] /\ reply' \in [Requests -> Statuses]
          /\ attempts' \in [Requests -> 0..MaxRetry]
      BY <2>3, SentIsTyped
    <2>5. QED
      BY <1>14, <2>2, <2>4 DEF Notify
  <1>15. ASSUME NEW r \in Requests, Crash(r) PROVE TypeOK'
    BY <1>15 DEF Crash
  <1>16. ASSUME NEW id \in Products, Expire(id) PROVE TypeOK'
    BY <1>16 DEF Expire
  <1>17. CASE UNCHANGED vars
    BY <1>17
  <1>18. QED
    BY <1>1, <1>2, <1>3, <1>4, <1>5, <1>6, <1>7, <1>8, <1>9, <1>10, <1>11, <1>12,
       <1>13, <1>14, <1>15, <1>16, <1>17 DEF Next, Step

\* A step of one request leaves the locals and the answer of the others alone.
LEMMA OthersAreLeftAlone ==
    ASSUME TypeOK, NEW r \in Requests, Arrive(r) \/ Step(r) \/ Crash(r),
           NEW s \in Requests, s # r
    PROVE  /\ pc'[s] = pc[s] /\ req'[s] = req[s] /\ target'[s] = target[s]
           /\ held'[s] = held[s] /\ reply'[s] = reply[s] /\ attempts'[s] = attempts[s]
  <1> USE DEF TypeOK, Goto, Respond, localVars
  <1>1. CASE Arrive(r)
    BY <1>1 DEF Arrive
  <1>2. CASE LookupHit(r) \/ LookupMiss(r) \/ SelectRow(r) \/ Fill(r)
    BY <1>2 DEF LookupHit, LookupMiss, SelectRow, Fill, Found
  <1>3. CASE Insert(r) \/ Write(r) \/ Erase(r) \/ Purge(r)
    BY <1>3 DEF Insert, Write, Erase, Purge, Executed
  <1>4. CASE Publish(r) \/ Notify(r)
    BY <1>4 DEF Publish, Notify, Sent
  <1>5. CASE Reserve(r) \/ Record(r) \/ Commit(r)
    BY <1>5 DEF Reserve, Record, Commit, RolledBack, Committed
  <1>6. CASE Crash(r)
    BY <1>6 DEF Crash
  <1>7. QED
    BY <1>1, <1>2, <1>3, <1>4, <1>5, <1>6 DEF Step

LEMMA ControlPreserved ==
    ASSUME TypeOK, ControlOK, ReservedRowIsUntouched, [Next]_vars
    PROVE  ControlOK'
  <1> USE DEF Goto, Respond, localVars, LabelsOf
  <1>0. ASSUME NEW r \in Requests, Arrive(r) \/ Step(r) \/ Crash(r), Controlled(r)'
        PROVE  ControlOK'
    <2>1. ASSUME NEW s \in Requests, s # r PROVE Controlled(s)'
      BY <1>0, <2>1, OthersAreLeftAlone DEF ControlOK, Controlled, Valid
    <2>2. QED
      BY <1>0, <2>1 DEF ControlOK
  <1>1. ASSUME NEW r \in Requests, Arrive(r) PROVE Controlled(r)'
    BY <1>1, RequestFields DEF Arrive, FirstLabel, TypeOK, Controlled, Valid, AllOps
  <1>2. ASSUME NEW r \in Requests, LookupHit(r) PROVE Controlled(r)'
    <2>1. /\ Controlled(r) /\ pc[r] = "lookup" /\ InFlight(r)
          /\ target[r] \in Products /\ cache[target[r]] \in Row \cup {None}
      BY <1>2, AtLabel DEF LookupHit, TypeOK, ControlOK, InFlight
    <2>2. req' = req /\ target' = target /\ Found(r)
      BY <1>2 DEF LookupHit
    <2>3. QED
      BY <2>1, <2>2 DEF Found, TypeOK, Controlled, Valid, InFlight
  <1>3. ASSUME NEW r \in Requests, LookupMiss(r) PROVE Controlled(r)'
    BY <1>3, AtLabel DEF LookupMiss, TypeOK, Controlled, Valid
  <1>4. ASSUME NEW r \in Requests, SelectRow(r) PROVE Controlled(r)'
    BY <1>4, AtLabel DEF SelectRow, TypeOK, Controlled, Valid
  <1>5. ASSUME NEW r \in Requests, Fill(r) PROVE Controlled(r)'
    BY <1>5, AtLabel DEF Fill, Found, TypeOK, Controlled, Valid
  <1>6. ASSUME NEW r \in Requests, Insert(r) PROVE Controlled(r)'
    BY <1>6, AtLabel DEF Insert, Executed, TypeOK, Controlled, Valid
  <1>7. ASSUME NEW r \in Requests, Write(r) PROVE Controlled(r)'
    BY <1>7, AtLabel DEF Write, Executed, TypeOK, Controlled, Valid
  <1>8. ASSUME NEW r \in Requests, Erase(r) PROVE Controlled(r)'
    BY <1>8, AtLabel DEF Erase, Executed, TypeOK, Controlled, Valid
  <1>9. ASSUME NEW r \in Requests, Purge(r) PROVE Controlled(r)'
    BY <1>9, AtLabel DEF Purge, TypeOK, Controlled, Valid
  <1>10. ASSUME NEW r \in Requests, Publish(r) PROVE Controlled(r)'
    BY <1>10, AtLabel DEF Publish, Sent, TypeOK, Controlled, Valid
  <1>11. ASSUME NEW r \in Requests, Reserve(r) PROVE Controlled(r)'
    BY <1>11, AtLabel DEF Reserve, InStock, TypeOK, ControlOK, Controlled, Valid
  <1>12. ASSUME NEW r \in Requests, Record(r) PROVE Controlled(r)'
    BY <1>12, AtLabel DEF Record, RolledBack, TypeOK, ControlOK, Controlled, Valid
  <1>13. ASSUME NEW r \in Requests, Commit(r) PROVE Controlled(r)'
    BY <1>13, AtLabel DEF Commit, Committed, RolledBack, TypeOK, ControlOK, Controlled, Valid
  <1>14. ASSUME NEW r \in Requests, Notify(r) PROVE Controlled(r)'
    BY <1>14, AtLabel DEF Notify, Sent, TypeOK, ControlOK, Controlled, Valid
  <1>15. ASSUME NEW r \in Requests, Crash(r) PROVE Controlled(r)'
    BY <1>15, AtLabel DEF Crash, TypeOK, Controlled, Valid
  <1>16. ASSUME NEW id \in Products, Expire(id) PROVE ControlOK'
    BY <1>16 DEF Expire, ControlOK, Controlled, Valid
  <1>17. CASE UNCHANGED vars
    BY <1>17 DEF vars, ControlOK, Controlled, Valid
  <1>18. QED
    BY <1>0, <1>1, <1>2, <1>3, <1>4, <1>5, <1>6, <1>7, <1>8, <1>9, <1>10, <1>11,
       <1>12, <1>13, <1>14, <1>15, <1>16, <1>17 DEF Next, Step
-----------------------------------------------------------------------------
(* The history of the rows.                                                *)

\* The four steps that change the table, the other outcomes of their actions
\* left out.
Added(r, id) ==
    Insert(r) /\ versions[id] = {} /\ target'[r] = id /\ StoreRow(id, req[r].row)
        /\ Fits(req[r].row)
Replaced(r) ==
    Write(r) /\ products[target[r]] # None /\ ~Locked(target[r])
        /\ StoreRow(target[r], req[r].row) /\ Fits(req[r].row)
Removed(r) ==
    Erase(r) /\ products[target[r]] # None /\ ~Locked(target[r]) /\ ~Sold(target[r])
        /\ products' = [products EXCEPT ![target[r]] = None] /\ UNCHANGED versions
Sells(r) ==
    Commit(r) /\ transactions' = Append(transactions, SaleOf(r))
        /\ StoreRow(target[r], [products[target[r]] EXCEPT !.stock = @ - req[r].quantity])

TableUnchanged == UNCHANGED dbVars

LEMMA TableChange ==
    ASSUME TypeOK, [Next]_vars
    PROVE  \/ TableUnchanged
           \/ UNCHANGED transactions /\ \E r \in Requests, id \in Products : Added(r, id)
           \/ UNCHANGED transactions /\ \E r \in Requests : Replaced(r) \/ Removed(r)
           \/ \E r \in Requests : Sells(r)
  <1>1. ASSUME NEW r \in Requests,
               Arrive(r) \/ LookupHit(r) \/ LookupMiss(r) \/ SelectRow(r) \/ Fill(r)
        PROVE  TableUnchanged
    BY <1>1 DEF Arrive, LookupHit, LookupMiss, SelectRow, Fill, TableUnchanged, dbVars
  <1>2. ASSUME NEW r \in Requests,
               Purge(r) \/ Publish(r) \/ Reserve(r) \/ Record(r) \/ Notify(r) \/ Crash(r)
        PROVE  TableUnchanged
    BY <1>2 DEF Purge, Publish, Reserve, Record, Notify, Crash, TableUnchanged, dbVars
  <1>3. ASSUME NEW id \in Products, Expire(id) PROVE TableUnchanged
    BY <1>3 DEF Expire, TableUnchanged, dbVars
  <1>4. ASSUME NEW r \in Requests, Insert(r)
        PROVE  \/ TableUnchanged
               \/ UNCHANGED transactions /\ \E id \in Products : Added(r, id)
    <2>1. CASE UNCHANGED <<products, versions>>
      BY <1>4, <2>1 DEF Insert, TableUnchanged, dbVars
    <2>2. CASE Fits(req[r].row) /\ \E id \in Products :
                 /\ versions[id] = {} /\ StoreRow(id, req[r].row)
                 /\ target' = [target EXCEPT ![r] = id]
      BY <1>4, <2>2 DEF Insert, TypeOK, Added
    <2>3. \/ UNCHANGED <<products, versions>>
          \/ Fits(req[r].row) /\ \E id \in Products :
                 /\ versions[id] = {} /\ StoreRow(id, req[r].row)
                 /\ target' = [target EXCEPT ![r] = id]
      BY <1>4 DEF Insert
    <2>4. QED
      BY <2>1, <2>2, <2>3, Zenon
  <1>5. ASSUME NEW r \in Requests, Write(r)
        PROVE  TableUnchanged \/ (UNCHANGED transactions /\ Replaced(r))
    BY <1>5 DEF Write, Replaced, TableUnchanged, dbVars
  <1>6. ASSUME NEW r \in Requests, Erase(r)
        PROVE  TableUnchanged \/ (UNCHANGED transactions /\ Removed(r))
    BY <1>6 DEF Erase, Removed, TableUnchanged, dbVars
  <1>7. ASSUME NEW r \in Requests, Commit(r)
        PROVE  TableUnchanged \/ Sells(r)
    BY <1>7 DEF Commit, Sells, TableUnchanged, dbVars
  <1>8. ASSUME UNCHANGED vars PROVE TableUnchanged
    BY <1>8 DEF vars, TableUnchanged, dbVars
  <1>9. ASSUME NEW r \in Requests, Step(r)
        PROVE  TableUnchanged \/ Insert(r) \/ Write(r) \/ Erase(r) \/ Commit(r)
    BY <1>1, <1>2, <1>9, Zenon DEF Step
  <1>10. TableUnchanged \/ \E r \in Requests : Insert(r) \/ Write(r) \/ Erase(r) \/ Commit(r)
    <2>1. CASE Next
      BY <1>1, <1>2, <1>3, <1>9, <2>1, Zenon DEF Next
    <2>2. QED
      BY <1>8, <2>1, Zenon
  <1>11. QED
    BY <1>4, <1>5, <1>6, <1>7, <1>10, Zenon

\* No row ever leaves the history.
LEMMA VersionsGrow ==
    ASSUME TypeOK, [Next]_vars, NEW id \in Products
    PROVE  versions[id] \subseteq versions'[id]
  <1>1. ASSUME NEW i, NEW row, StoreRow(i, row) PROVE versions[id] \subseteq versions'[id]
    BY <1>1 DEF TypeOK, StoreRow
  <1>2. (\E i, row : StoreRow(i, row)) \/ UNCHANGED versions
    BY TableChange, Zenon DEF TableUnchanged, dbVars, Added, Replaced, Removed, Sells
  <1>3. QED
    BY <1>1, <1>2

\* A cached copy changes by being dropped or by the fill of a reader.
LEMMA CacheChange ==
    ASSUME TypeOK, [Next]_vars, NEW id \in Products
    PROVE  \/ cache'[id] \in {cache[id], None}
           \/ \E r \in Requests :
                Fill(r) /\ pc[r] = "fill" /\ target[r] = id /\ cache'[id] = held[r]
  <1>1. ASSUME NEW r \in Requests, Step(r)
        PROVE  UNCHANGED cache \/ Fill(r) \/ Purge(r)
    BY <1>1 DEF Step, LookupHit, LookupMiss, SelectRow, Insert, Write, Erase, Publish,
                Reserve, Record, Commit, Notify
  <1>2. ASSUME NEW r \in Requests, Arrive(r) \/ Crash(r) PROVE UNCHANGED cache
    BY <1>2 DEF Arrive, Crash
  <1>3. ASSUME UNCHANGED vars PROVE UNCHANGED cache
    BY <1>3 DEF vars
  <1>4. \/ UNCHANGED cache
        \/ \E r \in Requests : Fill(r) \/ Purge(r)
        \/ \E p \in Products : Expire(p)
    <2>1. CASE Next
      BY <1>1, <1>2, <2>1, Zenon DEF Next
    <2>2. QED
      BY <1>3, <2>1, Zenon
  <1>5. ASSUME NEW r \in Requests, Fill(r)
        PROVE  \/ cache'[id] \in {cache[id], None}
               \/ pc[r] = "fill" /\ target[r] = id /\ cache'[id] = held[r]
    BY <1>5 DEF Fill, CacheEntry, TypeOK
  <1>6. ASSUME NEW r \in Requests, Purge(r) PROVE cache'[id] \in {cache[id], None}
    BY <1>6 DEF Purge, TypeOK
  <1>7. ASSUME NEW p \in Products, Expire(p) PROVE cache'[id] \in {cache[id], None}
    BY <1>7 DEF Expire, TypeOK
  <1>8. QED
    BY <1>4, <1>5, <1>6, <1>7

\* What a request knows of the history: the row it is about to cache, or has
\* answered with, was stored; and something was stored under an id it changes.
Informed(r) ==
    /\ pc[r] = "fill" => held[r] \in versions[target[r]]
    /\ pc[r] \in {"write", "erase", "purge", "publish"} => versions[target[r]] # {}
    /\ pc[r] = "done" /\ reply[r] = "200" /\ req[r].op \in {"get", "getStock"}
         => held[r] \in versions[target[r]]

LEMMA InformedPreserved ==
    ASSUME TypeOK, ControlOK, VersionsAreKept, ReadsShowCommittedRows, [Next]_vars,
           NEW r \in Requests, Arrive(r) \/ Step(r) \/ Crash(r)
    PROVE  Informed(r)'
  <1> USE DEF TypeOK, Goto, Respond, localVars, dbVars, Informed
  <1>1. CASE Arrive(r)
    BY <1>1 DEF Arrive, FirstLabel
  <1>2. CASE LookupHit(r)
    <2>1. target[r] \in Products /\ cache[target[r]] \in versions[target[r]]
      BY <1>2, AtLabel DEF LookupHit, ReadsShowCommittedRows
    <2>2. QED
      BY <1>2, <2>1 DEF LookupHit, Found
  <1>3. CASE LookupMiss(r)
    BY <1>3 DEF LookupMiss
  <1>4. CASE SelectRow(r)
    <2>1. target[r] \in Products
      BY <1>4, AtLabel DEF SelectRow
    <2>2. QED
      BY <1>4, <2>1 DEF SelectRow, VersionsAreKept, NotFoundStatus, LookupErrorStatus
  <1>5. CASE Fill(r)
    BY <1>5 DEF Fill, Found, VersionsAreKept
  <1>6. CASE Insert(r)
    <2>1. req'[r].op = "create" /\ pc'[r] \in {"publish", "done"}
      BY <1>6, AtLabel DEF Insert, Executed
    <2>2. ASSUME pc'[r] = "publish" PROVE versions'[target'[r]] # {}
      <3>1. PICK id \in Products : StoreRow(id, req[r].row) /\ target' = [target EXCEPT ![r] = id]
        BY <1>6, <2>2 DEF Insert
      <3>2. versions'[id] # {} /\ target'[r] = id
        BY <3>1 DEF StoreRow
      <3>3. QED
        BY <3>2
    <2>3. QED
      BY <2>1, <2>2
  <1>7. CASE Write(r)
    <2>1. target[r] \in Products /\ versions[target[r]] # {} /\ req[r].op = "update"
      BY <1>7, AtLabel DEF Write, VersionsAreKept
    <2>2. versions'[target[r]] # {}
      BY <2>1, VersionsGrow
    <2>3. QED
      BY <1>7, <2>1, <2>2 DEF Write, Executed
  <1>8. CASE Erase(r)
    BY <1>8, AtLabel DEF Erase, Executed, VersionsAreKept
  <1>9. CASE Purge(r)
    BY <1>9 DEF Purge, VersionsAreKept
  <1>10. CASE Publish(r)
    BY <1>10, AtLabel DEF Publish, Sent, VersionsAreKept
  <1>11. CASE Reserve(r)
    BY <1>11, AtLabel DEF Reserve
  <1>12. CASE Record(r)
    BY <1>12, AtLabel DEF Record, RolledBack
  <1>13. CASE Commit(r)
    BY <1>13, AtLabel DEF Commit, Committed, RolledBack
  <1>14. CASE Notify(r)
    BY <1>14, AtLabel DEF Notify, Sent
  <1>15. CASE Crash(r)
    BY <1>15 DEF Crash
  <1>16. QED
    BY <1>1, <1>2, <1>3, <1>4, <1>5, <1>6, <1>7, <1>8, <1>9, <1>10, <1>11, <1>12,
       <1>13, <1>14, <1>15 DEF Step

LEMMA HistoryPreserved ==
    ASSUME TypeOK, ControlOK, VersionsAreKept, ReadsShowCommittedRows, [Next]_vars
    PROVE  VersionsAreKept' /\ ReadsShowCommittedRows'
  <1>1. ASSUME NEW id \in Products PROVE products'[id] \in versions'[id] \cup {None}
    <2>1. ASSUME NEW i, NEW row, StoreRow(i, row)
          PROVE  products'[id] \in versions'[id] \cup {None}
      BY <2>1 DEF StoreRow, TypeOK, VersionsAreKept
    <2>2. ASSUME TableUnchanged PROVE products'[id] \in versions'[id] \cup {None}
      BY <2>2 DEF TableUnchanged, dbVars, VersionsAreKept
    <2>3. ASSUME NEW r \in Requests, Removed(r)
          PROVE  products'[id] \in versions'[id] \cup {None}
      BY <2>3 DEF Removed, TypeOK, VersionsAreKept
    <2>4. QED
      BY <2>1, <2>2, <2>3, TableChange, Zenon DEF Added, Replaced, Sells
  <1>2. ASSUME NEW id \in Products PROVE cache'[id] \in versions'[id] \cup {None}
    BY CacheChange, VersionsGrow DEF VersionsAreKept
  <1>3. ASSUME NEW r \in Requests PROVE Informed(r)'
    <2>1. CASE Arrive(r) \/ Step(r) \/ Crash(r)
      BY <2>1, InformedPreserved
    <2>2. CASE /\ pc'[r] = pc[r] /\ req'[r] = req[r] /\ target'[r] = target[r]
               /\ held'[r] = held[r] /\ reply'[r] = reply[r]
      <3>1. Informed(r)
        BY DEF Informed, VersionsAreKept, ReadsShowCommittedRows
      <3>2. pc[r] \in {"fill", "write", "erase", "purge", "publish"} => target[r] \in Products
        BY AtLabel
      <3>3. pc[r] = "done" /\ req[r].op \in {"get", "getStock"} => target[r] \in Products
        BY DEF ControlOK, Controlled
      <3>4. QED
        BY <2>2, <3>1, <3>2, <3>3, VersionsGrow DEF Informed
    <2>3. CASE \E s \in Requests \ {r} : Arrive(s) \/ Step(s) \/ Crash(s)
      BY <2>2, <2>3, OthersAreLeftAlone
    <2>4. CASE UNCHANGED vars \/ \E id \in Products : Expire(id)
      BY <2>2, <2>4 DEF vars, localVars, Expire
    <2>5. QED
      BY <2>1, <2>3, <2>4 DEF Next
  <1>4. QED
    BY <1>1, <1>2, <1>3 DEF VersionsAreKept, ReadsShowCommittedRows, Informed
-----------------------------------------------------------------------------
(* The row lock of Checkout.                                               *)

Locals(r) == <<req[r], target[r], held[r]>>

\* A request is in a transaction because it just reserved its units, or
\* because it was, and then nothing of what it works on has changed.
LEMMA InTransactionBecause ==
    ASSUME TypeOK, ControlOK, [Next]_vars, NEW s \in Requests, InTransaction(s)'
    PROVE  \/ /\ InTransaction(s) /\ UNCHANGED Locals(s)
              /\ pc'[s] = "commit" => pc[s] = "commit" \/ SaleOf(s).total <= MaxInt
           \/ /\ InStock(s) /\ ~Locked(target[s]) /\ held'[s] = products[target[s]]
              /\ UNCHANGED <<req[s], target[s], products>> /\ pc'[s] = "record"
              /\ \A r \in Requests \ {s} : UNCHANGED <<pc[r], target[r]>>
  <1> USE DEF TypeOK, Goto, Respond, localVars, dbVars, Locals
  <1>1. CASE Arrive(s)
    BY <1>1 DEF Arrive, FirstLabel
  <1>2. CASE LookupHit(s) \/ LookupMiss(s) \/ SelectRow(s) \/ Fill(s)
    BY <1>2 DEF LookupHit, LookupMiss, SelectRow, Fill, Found
  <1>3. CASE Insert(s) \/ Write(s) \/ Erase(s) \/ Purge(s)
    BY <1>3 DEF Insert, Write, Erase, Purge, Executed
  <1>4. CASE Publish(s) \/ Notify(s)
    BY <1>4 DEF Publish, Notify, Sent
  <1>5. CASE Reserve(s)
    BY <1>5 DEF Reserve
  <1>6. CASE Record(s)
    BY <1>6 DEF Record, RolledBack
  <1>7. CASE Commit(s)
    BY <1>7 DEF Commit, RolledBack, Committed
  <1>8. CASE Crash(s)
    BY <1>8 DEF Crash
  <1>9. CASE pc'[s] = pc[s] /\ UNCHANGED Locals(s)
    BY <1>9
  <1>10. CASE \E r \in Requests \ {s} : Arrive(r) \/ Step(r) \/ Crash(r)
    BY <1>9, <1>10, OthersAreLeftAlone
  <1>11. CASE UNCHANGED vars \/ \E id \in Products : Expire(id)
    BY <1>9, <1>11 DEF vars, Expire
  <1>12. QED
    BY <1>1, <1>2, <1>3, <1>4, <1>5, <1>6, <1>7, <1>8, <1>10, <1>11 DEF Next, Step

\* No step of any request changes a row that a transaction has reserved, but
\* the COMMIT of that transaction.
LEMMA ReservedRowUnchanged ==
    ASSUME TypeOK, ControlOK, ReservedRowIsUntouched, VersionsAreKept, [Next]_vars,
           NEW s \in Requests, InTransaction(s), InTransaction(s)'
    PROVE  products'[target[s]] = products[target[s]]
  <1> DEFINE id == target[s]
  <1>0. id \in Products /\ products[id] \in Row /\ products[id] # None
    BY AtLabel, NoneAssumption DEF ReservedRowIsUntouched, ControlOK, Controlled, Row
  <1>1. CASE TableUnchanged
    BY <1>1 DEF TableUnchanged, dbVars
  <1>2. ASSUME NEW r \in Requests, NEW p \in Products, Added(r, p)
        PROVE  products'[id] = products[id]
    <2>1. p # id
      BY <1>0, <1>2 DEF Added, VersionsAreKept
    <2>2. QED
      BY <1>2, <2>1 DEF Added, StoreRow, TypeOK
  <1>3. ASSUME NEW r \in Requests, Replaced(r) \/ Removed(r)
        PROVE  products'[id] = products[id]
    <2>1. target[r] # id
      BY <1>3 DEF Replaced, Removed, Locked
    <2>2. CASE Replaced(r)
      BY <2>1, <2>2 DEF Replaced, StoreRow, TypeOK
    <2>3. CASE Removed(r)
      BY <2>1, <2>3 DEF Removed, TypeOK
    <2>4. QED
      BY <1>3, <2>2, <2>3
  <1>4. ASSUME NEW r \in Requests, Sells(r)
        PROVE  products'[id] = products[id]
    <2>1. r # s
      BY <1>4 DEF Sells, Commit, Committed, RolledBack, Goto, Respond, TypeOK
    <2>2. InTransaction(r)
      BY <1>4 DEF Sells, Commit
    <2>3. target[r] # id
      BY <2>1, <2>2 DEF ReservedRowIsUntouched
    <2>4. QED
      BY <1>4, <2>3 DEF Sells, StoreRow, TypeOK
  <1>5. QED
    BY <1>1, <1>2, <1>3, <1>4, TableChange

LEMMA ReservationPreserved ==
    ASSUME TypeOK, ControlOK, ReservedRowIsUntouched, VersionsAreKept, [Next]_vars
    PROVE  ReservedRowIsUntouched'
  <1> SUFFICES ASSUME NEW s \in Requests, InTransaction(s)'
      PROVE  /\ held'[s] = products'[target'[s]]
             /\ held'[s].stock >= req'[s].quantity
             /\ pc'[s] = "commit" => SaleOf(s)'.total <= MaxInt
             /\ \A t \in Requests : InTransaction(t)' /\ target'[t] = target'[s] => t = s
    BY DEF ReservedRowIsUntouched
  <1>1. CASE InTransaction(s) /\ UNCHANGED Locals(s)
             /\ (pc'[s] = "commit" => pc[s] = "commit" \/ SaleOf(s).total <= MaxInt)
    <2>1. held[s] = products[target[s]] /\ held[s].stock >= req[s].quantity
          /\ (pc[s] = "commit" => SaleOf(s).total <= MaxInt)
      BY <1>1 DEF ReservedRowIsUntouched
    <2>2. products'[target[s]] = products[target[s]]
      BY <1>1, ReservedRowUnchanged
    <2>3. SaleOf(s)' = SaleOf(s)
      BY <1>1 DEF SaleOf, Locals
    <2>4. ASSUME NEW t \in Requests, InTransaction(t)', target'[t] = target'[s], t # s
          PROVE  FALSE
      <3>1. CASE InTransaction(t) /\ UNCHANGED Locals(t)
        <4>1. target[t] = target[s]
          BY <1>1, <2>4, <3>1 DEF Locals
        <4>2. QED
          BY <1>1, <2>4, <3>1, <4>1 DEF ReservedRowIsUntouched
      <3>2. CASE ~Locked(target[t]) /\ UNCHANGED target[t]
        BY <1>1, <2>4, <3>2 DEF Locked, Locals
      <3>3. QED
        BY <2>4, <3>1, <3>2, InTransactionBecause
    <2>5. QED
      BY <1>1, <2>1, <2>2, <2>3, <2>4 DEF Locals
  <1>2. CASE /\ InStock(s) /\ ~Locked(target[s]) /\ held'[s] = products[target[s]]
             /\ UNCHANGED <<req[s], target[s], products>> /\ pc'[s] = "record"
             /\ \A r \in Requests \ {s} : UNCHANGED <<pc[r], target[r]>>
    BY <1>2 DEF InStock, Locked
  <1>3. QED
    BY <1>1, <1>2, InTransactionBecause

LEMMA RangePreserved ==
    ASSUME TypeOK, ControlOK, RowsInRange, ReservedRowIsUntouched, [Next]_vars
    PROVE  RowsInRange'
  <1>1. CASE TableUnchanged
    BY <1>1 DEF TableUnchanged, dbVars, RowsInRange
  <1>2. ASSUME NEW i, NEW row \in StoredRow, StoreRow(i, row) PROVE RowsInRange'
    BY <1>2 DEF StoreRow, RowsInRange, TypeOK
  <1>3. ASSUME NEW r \in Requests, NEW id \in Products, Added(r, id) PROVE RowsInRange'
    <2>1. req[r].row \in StoredRow
      BY <1>3, AtLabel, BodyIsStorable DEF Added, Insert
    <2>2. QED
      BY <1>2, <1>3, <2>1 DEF Added
  <1>4. ASSUME NEW r \in Requests, Replaced(r) PROVE RowsInRange'
    <2>1. req[r].row \in StoredRow
      BY <1>4, AtLabel, BodyIsStorable DEF Replaced, Write
    <2>2. QED
      BY <1>2, <1>4, <2>1 DEF Replaced
  <1>5. ASSUME NEW r \in Requests, Removed(r) PROVE RowsInRange'
    BY <1>5 DEF Removed, RowsInRange, TypeOK
  <1>6. ASSUME NEW r \in Requests, Sells(r) PROVE RowsInRange'
    <2>1. /\ target[r] \in Products /\ Valid(req[r])
          /\ req[r].op = "checkout" /\ req[r].quantity \in Int
      BY <1>6, AtLabel, RequestFields DEF Sells, Commit
    <2>2. held[r] = products[target[r]] /\ held[r].stock >= req[r].quantity /\ held[r] \in Row
      BY <1>6 DEF Sells, Commit, ReservedRowIsUntouched, ControlOK, Controlled
    <2>3. held[r] \in StoredRow
      BY <2>1, <2>2, NoneAssumption DEF RowsInRange, Row
    <2>4. [products[target[r]] EXCEPT !.stock = @ - req[r].quantity] \in StoredRow
      BY <2>1, <2>2, <2>3, MaxIntAssumption DEF StoredRow, Valid
    <2>5. QED
      BY <1>2, <1>6, <2>4 DEF Sells
  <1>7. QED
    BY <1>1, <1>3, <1>4, <1>5, <1>6, TableChange
-----------------------------------------------------------------------------
(* The books: sales, invoices and events.                                  *)

\* A row of `transactions` is there for good, and a new one is a sale's.
LEMMA SalesGrow ==
    ASSUME TypeOK, ControlOK, [Next]_vars
    PROVE  \/ UNCHANGED transactions
           \/ \E r \in Requests :
                Sells(r) /\ Range(transactions)' = Range(transactions) \cup {SaleOf(r)}
  <1>1. ASSUME NEW r \in Requests, Sells(r)
        PROVE  Range(transactions') = Range(transactions) \cup {SaleOf(r)}
    <2>1. SaleOf(r) \in Sale
      BY <1>1, SaleIsTyped DEF Sells, Commit
    <2>2. QED
      BY <1>1, <2>1, RangeOfAppend DEF Sells, TypeOK
  <1>2. QED
    BY <1>1, TableChange DEF TableUnchanged, dbVars

\* A product leaves the table only if it was never sold.
LEMMA ProductStays ==
    ASSUME TypeOK, ControlOK, ReservedRowIsUntouched, [Next]_vars,
           NEW id \in Products, products[id] # None, products'[id] = None
    PROVE  ~Sold(id) /\ UNCHANGED transactions
  <1>1. ASSUME NEW i, NEW row \in Row, StoreRow(i, row) PROVE FALSE
    BY <1>1, NoneAssumption DEF StoreRow, TypeOK, Row
  <1>2. ASSUME NEW r \in Requests, NEW p \in Products, Added(r, p) PROVE FALSE
    BY <1>1, <1>2, AtLabel, RequestFields DEF Added, Insert
  <1>3. ASSUME NEW r \in Requests, Replaced(r) PROVE FALSE
    BY <1>1, <1>3, AtLabel, RequestFields DEF Replaced, Write
  <1>4. ASSUME NEW r \in Requests, Sells(r) PROVE FALSE
    <2>1. products[target[r]] \in Row /\ req[r].quantity \in Int
      BY <1>4, AtLabel, RequestFields
      DEF Sells, Commit, ReservedRowIsUntouched, ControlOK, Controlled
    <2>2. QED
      BY <1>1, <1>4, <2>1, RowAfterSale DEF Sells
  <1>5. ~TableUnchanged
    BY DEF TableUnchanged, dbVars
  <1>6. ASSUME NEW r \in Requests, Removed(r) PROVE ~Sold(id)
    BY <1>6 DEF Removed, TypeOK
  <1>7. QED
    BY <1>2, <1>3, <1>4, <1>5, <1>6, TableChange

LEMMA SalesPreserved ==
    ASSUME TypeOK, ControlOK, ReservedRowIsUntouched, SalesReferToProducts, [Next]_vars
    PROVE  SalesReferToProducts'
  <1>1. \A x \in Range(transactions) : x \in Sale /\ Sold(x.product) /\ products[x.product] # None
    BY LenProperties, ElementOfSeq DEF TypeOK, Range, Sold, SalesReferToProducts
  <1>2. ASSUME NEW x \in Range(transactions)
        PROVE  products'[x.product] # None
    BY <1>1, ProductStays DEF Sale
  <1>3. ASSUME NEW r \in Requests, Sells(r)
        PROVE  products'[SaleOf(r).product] # None
    <2>1. /\ products[target[r]] \in Row /\ target[r] \in Products /\ target[r] = SaleOf(r).product
          /\ products[target[r]] # None
      BY <1>3, AtLabel, NoneAssumption
      DEF Sells, Commit, ReservedRowIsUntouched, ControlOK, Controlled, SaleOf, Row
    <2>2. transactions' # transactions
      BY <1>3, SaleIsTyped, AppendProperties, LenProperties DEF Sells, Commit, TypeOK
    <2>3. QED
      BY <2>1, <2>2, ProductStays
  <1>4. \A x \in Range(transactions)' : products'[x.product] # None
    BY <1>2, <1>3, SalesGrow
  <1>5. QED
    BY <1>4 DEF SalesReferToProducts, Range

\* A request that has yet to send its invoice, or was answered 200, has its
\* sale in the table.
Booked(r) ==
    pc[r] = "notify" \/ (pc[r] = "done" /\ reply[r] = "200" /\ req[r].op = "checkout")
        => SaleOf(r) \in Range(transactions)

LEMMA BookedPreserved ==
    ASSUME TypeOK, ControlOK, [Next]_vars, NEW r \in Requests, Booked(r)
    PROVE  Booked(r)'
  <1> USE DEF TypeOK, Goto, Respond, localVars, Booked
  <1>0. Range(transactions) \subseteq Range(transactions)'
    BY SalesGrow
  <1>1. CASE Arrive(r)
    BY <1>1 DEF Arrive, FirstLabel
  <1>2. CASE LookupHit(r) \/ LookupMiss(r) \/ SelectRow(r) \/ Fill(r)
    BY <1>2, AtLabel DEF LookupHit, LookupMiss, SelectRow, Fill, Found
  <1>3. CASE Insert(r) \/ Write(r) \/ Erase(r) \/ Purge(r)
    BY <1>3, AtLabel DEF Insert, Write, Erase, Purge, Executed
  <1>4. CASE Publish(r)
    BY <1>4, AtLabel DEF Publish, Sent
  <1>5. CASE Reserve(r) \/ Record(r) \/ Crash(r)
    BY <1>5, AtLabel DEF Reserve, Record, RolledBack, Crash
  <1>6. CASE Commit(r)
    <2>1. SaleOf(r)' = SaleOf(r)
      BY <1>6 DEF Commit, SaleOf
    <2>2. \/ pc'[r] = "done" /\ reply'[r] = "400"
          \/ transactions' = Append(transactions, SaleOf(r))
      BY <1>6 DEF Commit, RolledBack
    <2>3. SaleOf(r) \in Sale
      BY <1>6, SaleIsTyped DEF Commit
    <2>4. ASSUME transactions' = Append(transactions, SaleOf(r))
          PROVE  SaleOf(r) \in Range(transactions)'
      <3>1. Range(Append(transactions, SaleOf(r))) = Range(transactions) \cup {SaleOf(r)}
        BY <2>3, RangeOfAppend
      <3>2. QED
        BY <2>4, <3>1
    <2>5. QED
      BY <2>1, <2>2, <2>4
  <1>7. CASE Notify(r)
    <2>1. SaleOf(r)' = SaleOf(r) /\ pc[r] = "notify"
      BY <1>7 DEF Notify, SaleOf
    <2>2. QED
      BY <1>0, <2>1
  <1>8. CASE UNCHANGED <<pc[r], reply[r], Locals(r)>>
    BY <1>0, <1>8 DEF SaleOf, Locals
  <1>9. CASE \E s \in Requests \ {r} : Arrive(s) \/ Step(s) \/ Crash(s)
    BY <1>8, <1>9, OthersAreLeftAlone DEF Locals
  <1>10. CASE UNCHANGED vars \/ \E id \in Products : Expire(id)
    BY <1>8, <1>10 DEF vars, Expire, Locals
  <1>11. QED
    BY <1>1, <1>2, <1>3, <1>4, <1>5, <1>6, <1>7, <1>9, <1>10 DEF Next, Step

LEMMA InvoicesPreserved ==
    ASSUME TypeOK, ControlOK, InvoiceFollowsSale, InvoicesAreForSales, [Next]_vars
    PROVE  InvoicesAreForSales'
  <1>1. Range(transactions) \subseteq Range(transactions)'
    BY SalesGrow
  <1>2. CASE UNCHANGED checkoutEvents
    BY <1>1, <1>2 DEF InvoicesAreForSales
  <1>3. ASSUME NEW r \in Requests, Notify(r) PROVE InvoicesAreForSales'
    <2>1. SaleOf(r) \in Sale /\ SaleOf(r) \in Range(transactions)
      BY <1>3, SaleIsTyped DEF Notify, InvoiceFollowsSale
    <2>2. \/ UNCHANGED checkoutEvents
          \/ checkoutEvents' = Append(checkoutEvents, SaleOf(r))
      BY <1>3 DEF Notify
    <2>3. ASSUME checkoutEvents' = Append(checkoutEvents, SaleOf(r))
          PROVE  InvoicesAreForSales'
      <3>1. Range(Append(checkoutEvents, SaleOf(r))) = Range(checkoutEvents) \cup {SaleOf(r)}
        BY <2>1, RangeOfAppend DEF TypeOK
      <3>2. QED
        BY <1>1, <2>1, <2>3, <3>1 DEF InvoicesAreForSales
    <2>4. QED
      BY <1>2, <2>2, <2>3
  <1>4. ASSUME NEW r \in Requests, Arrive(r) \/ Step(r) \/ Crash(r)
        PROVE  UNCHANGED checkoutEvents \/ Notify(r)
    BY <1>4 DEF Arrive, Crash, Step, LookupHit, LookupMiss, SelectRow, Fill, Insert, Write,
                Erase, Purge, Publish, Reserve, Record, Commit, kafkaVars
  <1>5. CASE UNCHANGED vars \/ \E id \in Products : Expire(id)
    BY <1>2, <1>5 DEF vars, kafkaVars, Expire
  <1>6. QED
    BY <1>2, <1>3, <1>4, <1>5 DEF Next

LEMMA EventsPreserved ==
    ASSUME TypeOK, ControlOK, VersionsAreKept, EventsNameKnownProducts, [Next]_vars
    PROVE  EventsNameKnownProducts'
  <1>1. CASE UNCHANGED productEvents
    BY <1>1, VersionsGrow DEF EventsNameKnownProducts
  <1>2. ASSUME NEW r \in Requests, Publish(r) PROVE EventsNameKnownProducts'
    <2>1. target[r] \in Products /\ versions[target[r]] # {}
      BY <1>2, AtLabel DEF Publish, VersionsAreKept
    <2>2. \A id \in Products \ {target[r]} : productEvents'[id] = productEvents[id]
      BY <1>2 DEF Publish, TypeOK
    <2>3. QED
      BY <2>1, <2>2, VersionsGrow DEF EventsNameKnownProducts
  <1>3. ASSUME NEW r \in Requests, Arrive(r) \/ Step(r) \/ Crash(r)
        PROVE  UNCHANGED productEvents \/ Publish(r)
    BY <1>3 DEF Arrive, Crash, Step, LookupHit, LookupMiss, SelectRow, Fill, Insert, Write,
                Erase, Purge, Notify, Reserve, Record, Commit, kafkaVars
  <1>4. CASE UNCHANGED vars \/ \E id \in Products : Expire(id)
    BY <1>1, <1>4 DEF vars, kafkaVars, Expire
  <1>5. QED
    BY <1>1, <1>2, <1>3, <1>4 DEF Next
-----------------------------------------------------------------------------
(* The copies in the cache.                                                *)

\* Once a request has its product it keeps it, and a request that was answered
\* does nothing more.
LEMMA TargetStays ==
    ASSUME TypeOK, ControlOK, [Next]_vars, NEW r \in Requests, pc[r] \notin {"new", "insert"}
    PROVE  /\ UNCHANGED <<req[r], target[r]>> /\ pc'[r] # "new"
           /\ pc[r] = "done" => UNCHANGED <<pc[r], reply[r]>>
  <1> USE DEF TypeOK, Goto, Respond, localVars
  <1>1. ~Arrive(r) /\ ~Insert(r)
    BY DEF Arrive, Insert
  <1>2. CASE LookupHit(r) \/ LookupMiss(r) \/ SelectRow(r) \/ Fill(r)
    BY <1>2 DEF LookupHit, LookupMiss, SelectRow, Fill, Found
  <1>3. CASE Write(r) \/ Erase(r) \/ Purge(r)
    BY <1>3 DEF Write, Erase, Purge, Executed
  <1>4. CASE Publish(r) \/ Notify(r)
    BY <1>4 DEF Publish, Notify, Sent
  <1>5. CASE Reserve(r) \/ Record(r) \/ Commit(r) \/ Crash(r)
    BY <1>5 DEF Reserve, Record, Commit, RolledBack, Committed, Crash
  <1>6. CASE \E s \in Requests \ {r} : Arrive(s) \/ Step(s) \/ Crash(s)
    BY <1>6, OthersAreLeftAlone
  <1>7. CASE UNCHANGED vars \/ \E id \in Products : Expire(id)
    BY <1>7 DEF vars, Expire
  <1>8. QED
    BY <1>1, <1>2, <1>3, <1>4, <1>5, <1>6, <1>7 DEF Next, Step

LEMMA SoldStays ==
    ASSUME TypeOK, ControlOK, [Next]_vars, NEW id \in Products
    PROVE  /\ Sold(id) => Sold(id)'
           /\ \A r \in Requests : Sells(r) /\ target[r] = id => Sold(id)'
  <1>1. ASSUME NEW r \in Requests, Sells(r)
        PROVE  Range(transactions') = Range(transactions) \cup {SaleOf(r)}
    <2>1. SaleOf(r) \in Sale
      BY <1>1, SaleIsTyped DEF Sells, Commit
    <2>2. QED
      BY <1>1, <2>1, RangeOfAppend DEF Sells, TypeOK
  <1>2. Range(transactions) \subseteq Range(transactions')
    BY SalesGrow
  <1>3. Sold(id) <=> \E x \in Range(transactions) : x.product = id
    BY DEF Sold, Range
  <1>4. Sold(id)' <=> \E x \in Range(transactions') : x.product = id
    BY DEF Sold, Range
  <1>5. \A r \in Requests : SaleOf(r).product = target[r]
    BY DEF SaleOf
  <1>6. QED
    BY <1>1, <1>2, <1>3, <1>4, <1>5

\* What can leave an old copy behind stays a reason for one.
LEMMA CausesStay ==
    ASSUME TypeOK, ControlOK, [Next]_vars, NEW id \in Products, LeavesStaleCopy(id)
    PROVE  LeavesStaleCopy(id)'
  <1>1. CASE Sold(id)
    BY <1>1, SoldStays DEF LeavesStaleCopy
  <1>2. ASSUME NEW r \in Requests, LeavesBehind(r), target[r] = id
        PROVE  LeavesBehind(r)' /\ target'[r] = id
    <2>1. pc[r] # "insert"
      BY <1>2, AtLabel DEF LeavesBehind
    <2>2. QED
      BY <1>2, <2>1, TargetStays DEF LeavesBehind
  <1>3. QED
    BY <1>1, <1>2 DEF LeavesStaleCopy

\* A writer comes to its DEL, or its product has a reason for an old copy.
LEMMA WritersPurge ==
    ASSUME TypeOK, ControlOK, [Next]_vars, NEW id \in Products,
           NEW r \in Requests, WillPurge(r, id)
    PROVE  cache'[id] = None \/ WillPurge(r, id)' \/ LeavesStaleCopy(id)'
  <1> USE DEF TypeOK, Goto, Respond, localVars
  <1>1. UNCHANGED <<req[r], target[r]>> /\ pc'[r] # "new" /\ target[r] = id
    BY TargetStays DEF WillPurge
  <1>2. CASE Write(r)
    BY <1>1, <1>2 DEF Write, Executed, WillPurge, LeavesStaleCopy, LeavesBehind
  <1>3. CASE Erase(r)
    BY <1>1, <1>3 DEF Erase, Executed, WillPurge, LeavesStaleCopy, LeavesBehind
  <1>4. CASE Purge(r)
    <2>1. CASE UNCHANGED cache
      <3>1. Fault("redis") \/ cache'[id] = None
        BY <1>1, <1>4, <2>1 DEF Purge
      <3>2. req[r].op \in {"update", "delete"}
        BY <1>4, AtLabel DEF Purge
      <3>3. QED
        BY <1>1, <3>1, <3>2 DEF LeavesStaleCopy, LeavesBehind
    <2>2. QED
      BY <1>1, <1>4, <2>1 DEF Purge
  <1>5. CASE Crash(r)
    BY <1>1, <1>5 DEF Crash, LeavesStaleCopy, LeavesBehind
  <1>6. CASE pc'[r] = pc[r]
    BY <1>1, <1>6 DEF WillPurge
  <1>7. CASE \E s \in Requests \ {r} : Arrive(s) \/ Step(s) \/ Crash(s)
    BY <1>6, <1>7, OthersAreLeftAlone
  <1>8. CASE UNCHANGED vars \/ \E p \in Products : Expire(p)
    BY <1>6, <1>8 DEF vars, Expire
  <1>9. Arrive(r) \/ Step(r) => Write(r) \/ Erase(r) \/ Purge(r)
    BY DEF WillPurge, Arrive, Step, LookupHit, LookupMiss, SelectRow, Fill, Insert, Publish,
           Reserve, Record, Commit, Notify
  <1>10. QED
    BY <1>2, <1>3, <1>4, <1>5, <1>7, <1>8, <1>9 DEF Next

\* A copy that was current gets old by the statement of a writer or by a sale.
LEMMA CopyGetsOld ==
    ASSUME TypeOK, ControlOK, VersionsAreKept, [Next]_vars, NEW id \in Products,
           cache[id] \in {None, products[id]}, cache'[id] \notin {None, products'[id]}
    PROVE  LeavesStaleCopy(id)' \/ \E r \in Requests : WillPurge(r, id) \/ WillPurge(r, id)'
  <1>1. ASSUME NEW r \in Requests, Fill(r), target[r] = id
        PROVE  LeavesStaleCopy(id)' \/ WillPurge(r, id)'
    <2>1. req[r].op \in {"get", "getStock", "update", "delete"} /\ pc[r] = "fill"
      BY <1>1, AtLabel DEF Fill
    <2>2. target'[r] = id /\ req'[r] = req[r]
      BY <1>1 DEF Fill, localVars
    <2>3. CASE req[r].op \in {"update", "delete"}
      BY <1>1, <2>2, <2>3 DEF Fill, Found, Goto, TypeOK, WillPurge
    <2>4. CASE req[r].op \in {"get", "getStock"}
      BY <1>1, <2>1, <2>4, CausesStay DEF LeavesStaleCopy, LeavesBehind
    <2>5. QED
      BY <2>1, <2>3, <2>4
  <1>2. ASSUME cache'[id] = cache[id], products'[id] # products[id]
        PROVE  LeavesStaleCopy(id)' \/ \E r \in Requests : WillPurge(r, id)
    <2>1. cache[id] \in versions[id]
      BY <1>2 DEF VersionsAreKept
    <2>2. ~TableUnchanged
      BY <1>2 DEF TableUnchanged, dbVars
    <2>3. ASSUME NEW i, NEW row, StoreRow(i, row) PROVE i = id
      BY <1>2, <2>3 DEF StoreRow, TypeOK
    <2>4. ASSUME NEW r \in Requests, NEW p \in Products, Added(r, p) PROVE FALSE
      BY <2>1, <2>3, <2>4 DEF Added
    <2>5. ASSUME NEW r \in Requests, Replaced(r) PROVE WillPurge(r, id)
      BY <2>3, <2>5 DEF Replaced, Write, WillPurge
    <2>6. ASSUME NEW r \in Requests, Removed(r) PROVE WillPurge(r, id)
      BY <1>2, <2>6 DEF Removed, Erase, WillPurge, TypeOK
    <2>7. ASSUME NEW r \in Requests, Sells(r) PROVE LeavesStaleCopy(id)'
      BY <2>3, <2>7, SoldStays DEF Sells, LeavesStaleCopy
    <2>8. QED
      BY <2>2, <2>4, <2>5, <2>6, <2>7, TableChange
  <1>3. QED
    BY <1>1, <1>2, CacheChange

LEMMA CopiesPreserved == IInv /\ CopiesAreCurrent /\ [Next]_vars => CopiesAreCurrent'
  <1> SUFFICES ASSUME IInv, CopiesAreCurrent, [Next]_vars,
                      NEW id \in Products, cache'[id] \notin {None, products'[id]}
               PROVE  LeavesStaleCopy(id)' \/ \E r \in Requests : WillPurge(r, id)'
    BY DEF CopiesAreCurrent
  <1> USE DEF IInv
  <1>1. CASE LeavesStaleCopy(id)
    BY <1>1, CausesStay
  <1>2. CASE \E r \in Requests : WillPurge(r, id)
    BY <1>2, WritersPurge
  <1>3. CASE cache[id] \in {None, products[id]}
    BY <1>2, <1>3, CopyGetsOld
  <1>4. QED
    BY <1>1, <1>2, <1>3 DEF CopiesAreCurrent
-----------------------------------------------------------------------------
(* How often a sale is invoiced.                                           *)

LEMMA AttemptsPreserved ==
    ASSUME TypeOK, ControlOK, AttemptsAreFaults, [Next]_vars
    PROVE  AttemptsAreFaults'
  <1> SUFFICES ASSUME NEW r \in Requests, attempts'[r] > 0
               PROVE  Fault("kafka") /\ pc'[r] \in {"publish", "notify", "done"}
    BY DEF AttemptsAreFaults
  <1> USE MaxRetryAssumption DEF TypeOK, Goto, Respond, AttemptsAreFaults
  <1>1. CASE Arrive(r) \/ Crash(r)
    BY <1>1 DEF Arrive, FirstLabel, Crash
  <1>2. CASE LookupHit(r) \/ LookupMiss(r) \/ SelectRow(r) \/ Fill(r)
    BY <1>2 DEF LookupHit, LookupMiss, SelectRow, Fill, Found
  <1>3. CASE Insert(r) \/ Write(r) \/ Erase(r) \/ Purge(r)
    BY <1>3 DEF Insert, Write, Erase, Purge, Executed
  <1>4. CASE Publish(r) \/ Notify(r)
    BY <1>4 DEF Publish, Notify, Sent
  <1>5. CASE Reserve(r) \/ Record(r) \/ Commit(r)
    BY <1>5 DEF Reserve, Record, Commit, RolledBack, Committed
  <1>6. CASE UNCHANGED <<pc[r], attempts[r]>>
    BY <1>6
  <1>7. CASE \E s \in Requests \ {r} : Arrive(s) \/ Step(s) \/ Crash(s)
    BY <1>6, <1>7, OthersAreLeftAlone
  <1>8. CASE UNCHANGED vars \/ \E id \in Products : Expire(id)
    BY <1>6, <1>8 DEF vars, Expire
  <1>9. QED
    BY <1>1, <1>2, <1>3, <1>4, <1>5, <1>7, <1>8 DEF Next, Step

\* A request that does nothing keeps its place in the books.
LEMMA Bystanders ==
    ASSUME NEW r, UNCHANGED <<pc[r], req[r], target[r], held[r], attempts[r], reply[r]>>
    PROVE  /\ MayOweInvoice(r)' = MayOweInvoice(r) /\ SaleOf(r)' = SaleOf(r)
           /\ SendsOf(r)' = SendsOf(r)
           /\ \A s : IsNotifier(r, s)' = IsNotifier(r, s)
  <1>1. MayOweInvoice(r)' = MayOweInvoice(r)
    BY DEF MayOweInvoice
  <1>2. SaleOf(r)' = SaleOf(r)
    BY DEF SaleOf
  <1>3. SendsOf(r)' = SendsOf(r)
    BY DEF SendsOf
  <1>4. ASSUME NEW s PROVE IsNotifier(r, s)' = IsNotifier(r, s)
    BY <1>2, <1>3 DEF IsNotifier
  <1>5. QED
    BY <1>1, <1>2, <1>3, <1>4

\* COMMIT puts one row into the table, and its request in charge of the invoice.
LEMMA SaleIsOwed ==
    ASSUME IInv, NEW r \in Requests, Sells(r)
    PROVE  /\ SaleOf(r) \in Sale /\ UNCHANGED checkoutEvents
           /\ transactions' = Append(transactions, SaleOf(r))
           /\ ~MayOweInvoice(r) /\ MayOweInvoice(r)' /\ SaleOf(r)' = SaleOf(r)
  <1> USE DEF IInv, TypeOK
  <1>1. pc[r] = "commit" /\ req[r].op = "checkout" /\ held[r] \in Row /\ SaleOf(r) \in Sale
    BY AtLabel, SaleIsTyped DEF Sells, Commit, ControlOK, Controlled
  <1>2. transactions' # transactions
    BY <1>1, AppendProperties, LenProperties DEF Sells
  <1>3. Committed(r) /\ UNCHANGED <<checkoutEvents, req, target, held, attempts>>
    BY <1>2 DEF Sells, Commit, dbVars, kafkaVars, localVars
  <1>4. held[r] # None
    BY <1>1, NoneAssumption DEF Row
  <1>5. MayOweInvoice(r)'
    BY <1>1, <1>3, <1>4 DEF Committed, Goto, Respond, MayOweInvoice
  <1>6. QED
    BY <1>1, <1>3, <1>5 DEF Sells, MayOweInvoice, SaleOf

\* A checkout comes to its invoice by the COMMIT of its sale.
LEMMA NotifiersHaveSold ==
    ASSUME IInv, AttemptsAreFaults, NEW r \in Requests, Arrive(r) \/ Step(r) \/ Crash(r),
           NEW s, IsNotifier(r, s)'
    PROVE  IsNotifier(r, s) \/ (Sells(r) /\ SaleOf(r) = s)
  <1> USE DEF IInv, TypeOK, Goto, Respond, localVars
  <1>1. req'[r].op = "checkout" /\ pc'[r] \in {"notify", "done"}
        /\ (pc'[r] = "done" => SendsOf(r)' # {}) /\ SaleOf(r)' = s
    BY DEF IsNotifier
  <1>2. ASSUME pc'[r] = "done", attempts[r] = 0, attempts'[r] = 0, reply'[r] # "200"
        PROVE  FALSE
    BY <1>1, <1>2 DEF SendsOf
  <1>3. pc[r] \notin {"publish", "notify", "done"} => attempts[r] = 0
    BY MaxRetryAssumption DEF AttemptsAreFaults
  <1>4. CASE Arrive(r)
    BY <1>1, <1>2, <1>3, <1>4 DEF Arrive, FirstLabel
  <1>5. CASE LookupHit(r) \/ LookupMiss(r) \/ SelectRow(r) \/ Fill(r)
    BY <1>1, <1>5, AtLabel DEF LookupHit, LookupMiss, SelectRow, Fill
  <1>6. CASE Insert(r) \/ Write(r) \/ Erase(r) \/ Purge(r) \/ Publish(r)
    BY <1>1, <1>6, AtLabel DEF Insert, Write, Erase, Purge, Publish
  <1>7. CASE Reserve(r) \/ Record(r)
    BY <1>1, <1>2, <1>3, <1>7 DEF Reserve, Record, RolledBack
  <1>8. CASE Commit(r)
    <2>1. SaleOf(r)' = SaleOf(r)
      BY <1>8 DEF Commit, SaleOf
    <2>2. Sells(r) \/ RolledBack(r)
      BY <1>8 DEF Commit, Sells
    <2>3. ~RolledBack(r)
      BY <1>2, <1>3, <1>8 DEF Commit, RolledBack
    <2>4. QED
      BY <1>1, <2>1, <2>2, <2>3
  <1>9. CASE pc[r] = "notify"
    <2>1. Notify(r) \/ Crash(r)
      BY <1>9 DEF Arrive, Step, LookupHit, LookupMiss, SelectRow, Fill, Insert, Write, Erase,
                  Purge, Publish, Reserve, Record, Commit
    <2>2. UNCHANGED <<req, target, held>>
      BY <2>1 DEF Notify, Crash
    <2>3. held[r] # None /\ req[r].op = "checkout" /\ SaleOf(r)' = SaleOf(r)
      BY <1>9, <2>2, AtLabel, NoneAssumption DEF SaleOf, ControlOK, Controlled, Row
    <2>4. QED
      BY <1>1, <1>9, <2>3 DEF IsNotifier
  <1>10. CASE Crash(r) /\ pc[r] # "notify"
    <2>1. req[r].op = "checkout" => pc[r] # "publish"
      BY AtLabel
    <2>2. QED
      BY <1>1, <1>2, <1>3, <1>10, <2>1 DEF Crash
  <1>11. QED
    BY <1>4, <1>5, <1>6, <1>7, <1>8, <1>9, <1>10 DEF Step, Notify

\* A send is one attempt more of its request, whatever becomes of it; and the
\* invoice is owed until it is in the topic or the request is over.
LEMMA SendIsCounted ==
    ASSUME IInv, AttemptsAreFaults, NEW r \in Requests, Notify(r)
    PROVE  /\ SaleOf(r) \in Sale /\ SaleOf(r)' = SaleOf(r) /\ MayOweInvoice(r)
           /\ IsNotifier(r, SaleOf(r)) /\ IsNotifier(r, SaleOf(r))'
           /\ attempts[r] \notin SendsOf(r) /\ SendsOf(r)' = SendsOf(r) \cup {attempts[r]}
           /\ MayOweInvoice(r)' \/ checkoutEvents' = Append(checkoutEvents, SaleOf(r))
  <1> USE DEF IInv, TypeOK, Goto, Respond
  <1>1. /\ pc[r] = "notify" /\ req[r].op = "checkout" /\ held[r] \in Row
        /\ SaleOf(r) \in Sale /\ UNCHANGED <<req, target, held>>
    BY AtLabel, SaleIsTyped DEF Notify, ControlOK, Controlled, localVars
  <1>2. held[r] # None /\ SaleOf(r)' = SaleOf(r)
    BY <1>1, NoneAssumption DEF Row, SaleOf
  <1>3. PICK stored \in BOOLEAN :
          /\ checkoutEvents' = IF stored THEN Append(checkoutEvents, SaleOf(r)) ELSE checkoutEvents
          /\ Sent(r, stored, "200")
    BY DEF Notify
  <1>4. attempts[r] \in 0..MaxRetry /\ MaxRetry \in Nat
    BY MaxRetryAssumption
  <1>5. attempts[r] \notin SendsOf(r)
    BY <1>1 DEF SendsOf
  <1>6. \/ /\ attempts'[r] = attempts[r] + 1 /\ attempts[r] < MaxRetry
           /\ pc'[r] = "notify"
        \/ attempts'[r] = attempts[r] /\ pc'[r] = "done" /\ reply'[r] = "200"
    BY <1>1, <1>3 DEF Sent, RetriesLeft
  <1>7. SendsOf(r)' = SendsOf(r) \cup {attempts[r]}
    <2>1. SendsOf(r) = {i \in 0..MaxRetry : i < attempts[r]}
      BY <1>1 DEF SendsOf
    <2>2. SendsOf(r)' = {i \in 0..MaxRetry : i < attempts[r] \/ i = attempts[r]}
      BY <1>4, <1>6 DEF SendsOf
    <2>3. QED
      BY <1>4, <2>1, <2>2
  <1>8. MayOweInvoice(r)' \/ checkoutEvents' = Append(checkoutEvents, SaleOf(r))
    <2>1. ASSUME ~stored PROVE MayOweInvoice(r)'
      <3>1. Fault("kafka") /\ (pc'[r] = "notify" \/ (pc'[r] = "done" /\ attempts'[r] = MaxRetry))
        BY <1>1, <1>3, <1>4, <2>1 DEF Sent, RetriesLeft
      <3>2. QED
        BY <1>1, <1>2, <3>1 DEF MayOweInvoice
    <2>2. QED
      BY <1>3, <2>1
  <1>9. QED
    BY <1>1, <1>2, <1>5, <1>6, <1>7, <1>8 DEF IsNotifier, MayOweInvoice

\* An invoice stays owed until a send puts it into the topic.
LEMMA OwedUntilSent ==
    ASSUME IInv, AttemptsAreFaults, NEW r \in Requests, Arrive(r) \/ Step(r) \/ Crash(r),
           MayOweInvoice(r)
    PROVE  \/ MayOweInvoice(r)' /\ SaleOf(r)' = SaleOf(r)
           \/ Notify(r) /\ checkoutEvents' = Append(checkoutEvents, SaleOf(r))
  <1> USE DEF IInv
  <1>1. pc[r] = "notify"
    BY DEF MayOweInvoice, Arrive, Step, Crash, LookupHit, LookupMiss, SelectRow, Fill, Insert,
           Write, Erase, Purge, Publish, Reserve, Record, Commit, Notify
  <1>2. CASE Notify(r)
    BY <1>2, SendIsCounted
  <1>3. CASE Crash(r)
    BY <1>1, <1>3 DEF Crash, Respond, TypeOK, localVars, MayOweInvoice, SaleOf
  <1>4. QED
    BY <1>1, <1>2, <1>3 DEF Arrive, Step, LookupHit, LookupMiss, SelectRow, Fill, Insert, Write,
                            Erase, Purge, Publish, Reserve, Record, Commit

\* Attempts that were made stay in the books.
LEMMA SendsStay ==
    ASSUME IInv, AttemptsAreFaults, NEW r \in Requests, Arrive(r) \/ Step(r) \/ Crash(r),
           NEW s, NEW i, IsNotifier(r, s), i \in SendsOf(r)
    PROVE  IsNotifier(r, s)' /\ i \in SendsOf(r)'
  <1> USE DEF IInv
  <1>1. pc[r] = "notify"
    BY DEF IsNotifier, Arrive, Step, Crash, LookupHit, LookupMiss, SelectRow, Fill, Insert,
           Write, Erase, Purge, Publish, Reserve, Record, Commit, Notify
  <1>2. CASE Notify(r)
    <2>1. SaleOf(r) = s
      BY DEF IsNotifier
    <2>2. QED
      BY <1>2, <2>1, SendIsCounted
  <1>3. CASE Crash(r)
    <2>1. UNCHANGED <<req, target, held, attempts>> /\ pc'[r] = "done" /\ SaleOf(r)' = SaleOf(r)
      BY <1>3 DEF Crash, Respond, TypeOK, localVars, SaleOf
    <2>2. i \in SendsOf(r)'
      BY <1>1, <2>1 DEF SendsOf
    <2>3. QED
      BY <2>1, <2>2 DEF IsNotifier
  <1>4. QED
    BY <1>1, <1>2, <1>3 DEF Arrive, Step, LookupHit, LookupMiss, SelectRow, Fill, Insert, Write,
                            Erase, Purge, Publish, Reserve, Record, Commit

\* An attempt is new in the books because its request is sending, or just came
\* to its invoice, and then it has made none.
LEMMA SendsAreNew ==
    ASSUME IInv, AttemptsAreFaults, NEW r \in Requests, Arrive(r) \/ Step(r) \/ Crash(r),
           NEW s, NEW i, IsNotifier(r, s)', i \in SendsOf(r)'
    PROVE  i = attempts[r] \/ (IsNotifier(r, s) /\ i \in SendsOf(r))
  <1> USE DEF IInv, TypeOK, Goto, Respond, localVars
  <1>1. CASE Notify(r)
    <2>1. SaleOf(r)' = s
      BY DEF IsNotifier
    <2>2. QED
      BY <1>1, <2>1, SendIsCounted
  <1>2. CASE ~Notify(r)
    <2>1. IsNotifier(r, s) \/ Sells(r)
      BY NotifiersHaveSold
    <2>2. CASE Sells(r)
      <3>1. pc[r] = "commit" /\ attempts'[r] = attempts[r]
        BY <2>2 DEF Sells, Commit
      <3>2. attempts[r] = 0
        <4>1. attempts[r] \in 0..MaxRetry
          OBVIOUS
        <4>2. ~(attempts[r] > 0)
          BY <3>1 DEF AttemptsAreFaults
        <4>3. QED
          BY <4>1, <4>2, MaxRetryAssumption
      <3>3. QED
        BY <3>1, <3>2 DEF SendsOf
    <2>3. CASE IsNotifier(r, s)
      <3>1. pc[r] = "notify" /\ Crash(r)
        BY <1>2, <2>3 DEF IsNotifier, Arrive, Step, Crash, LookupHit, LookupMiss, SelectRow, Fill,
             Insert, Write, Erase, Purge, Publish, Reserve, Record, Commit, Notify
      <3>2. attempts'[r] = attempts[r] /\ reply'[r] = "none"
        BY <3>1 DEF Crash
      <3>3. QED
        BY <2>3, <3>1, <3>2 DEF SendsOf
    <2>4. QED
      BY <2>1, <2>2, <2>3
  <1>3. QED
    BY <1>1, <1>2

\* What a step of one request does to the three counts.
LEMMA OneRequestCounts ==
    ASSUME IInv, AttemptsAreFaults, NEW r \in Requests, Arrive(r) \/ Step(r) \/ Crash(r), NEW s
    PROVE  /\ Notifiers(s)' \subseteq Notifiers(s) \cup {r}
           /\ ~(Sells(r) /\ SaleOf(r) = s) => Notifiers(s)' \subseteq Notifiers(s)
           /\ Sends(s) \subseteq Sends(s)'
           /\ Sends(s)' \subseteq Sends(s) \cup {<<r, attempts[r]>>}
           /\ OwedInvoices(s)' \subseteq OwedInvoices(s) \cup {r}
           /\ OwedInvoices(s) \subseteq OwedInvoices(s)' \cup {r}
           /\ ~(Notify(r) /\ SaleOf(r) = s /\ checkoutEvents' = Append(checkoutEvents, SaleOf(r)))
                => OwedInvoices(s) \subseteq OwedInvoices(s)'
  <1>1. ASSUME NEW t \in Requests, t # r
        PROVE  /\ MayOweInvoice(t)' = MayOweInvoice(t) /\ SaleOf(t)' = SaleOf(t)
               /\ SendsOf(t)' = SendsOf(t) /\ IsNotifier(t, s)' = IsNotifier(t, s)
    BY <1>1, OthersAreLeftAlone, Bystanders DEF IInv
  <1>2. Notifiers(s)' \subseteq Notifiers(s) \cup {r}
    BY <1>1 DEF Notifiers
  <1>3. ~(Sells(r) /\ SaleOf(r) = s) => Notifiers(s)' \subseteq Notifiers(s)
    BY <1>1, NotifiersHaveSold DEF Notifiers
  <1>4. ASSUME NEW m \in Sends(s) PROVE m \in Sends(s)'
    <2>1. m \in Requests \X (0..MaxRetry) /\ IsNotifier(m[1], s) /\ m[2] \in SendsOf(m[1])
      BY DEF Sends
    <2>2. IsNotifier(m[1], s)' /\ m[2] \in SendsOf(m[1])'
      BY <1>1, <2>1, SendsStay
    <2>3. QED
      BY <2>1, <2>2 DEF Sends
  <1>5. ASSUME NEW m \in Sends(s)' PROVE m \in Sends(s) \cup {<<r, attempts[r]>>}
    <2>1. m \in Requests \X (0..MaxRetry) /\ IsNotifier(m[1], s)' /\ m[2] \in SendsOf(m[1])'
      BY DEF Sends
    <2>2. m = <<m[1], m[2]>>
      BY <2>1
    <2>3. \/ m[1] = r /\ m[2] = attempts[r]
          \/ IsNotifier(m[1], s) /\ m[2] \in SendsOf(m[1])
      BY <1>1, <2>1, SendsAreNew
    <2>4. QED
      BY <2>1, <2>2, <2>3 DEF Sends
  <1>6. /\ OwedInvoices(s)' \subseteq OwedInvoices(s) \cup {r}
        /\ OwedInvoices(s) \subseteq OwedInvoices(s)' \cup {r}
    BY <1>1 DEF OwedInvoices
  <1>7. ~(Notify(r) /\ SaleOf(r) = s /\ checkoutEvents' = Append(checkoutEvents, SaleOf(r)))
          => OwedInvoices(s) \subseteq OwedInvoices(s)'
    BY <1>1, OwedUntilSent DEF OwedInvoices
  <1>8. QED
    BY <1>2, <1>3, <1>4, <1>5, <1>6, <1>7, Zenon

\* The two sequences of the books grow by a sale and by a send.
LEMMA BooksGrow ==
    ASSUME IInv, NEW r \in Requests, Arrive(r) \/ Step(r) \/ Crash(r)
    PROVE  /\ UNCHANGED transactions \/ Sells(r)
           /\ \/ UNCHANGED checkoutEvents
              \/ Notify(r) /\ checkoutEvents' = Append(checkoutEvents, SaleOf(r))
  <1>1. UNCHANGED transactions \/ Sells(r)
    BY DEF Arrive, Step, Crash, LookupHit, LookupMiss, SelectRow, Fill, Insert, Write, Erase,
           Purge, Publish, Reserve, Record, Commit, Notify, Sells, dbVars
  <1>2. UNCHANGED checkoutEvents
          \/ (Notify(r) /\ checkoutEvents' = Append(checkoutEvents, SaleOf(r)))
    BY DEF Arrive, Step, Crash, LookupHit, LookupMiss, SelectRow, Fill, Insert, Write, Erase,
           Purge, Publish, Reserve, Record, Commit, Notify, kafkaVars
  <1>3. QED
    BY <1>1, <1>2

LEMMA BooksPreserved ==
    ASSUME IInv, AttemptsAreFaults, [Next]_vars, NEW s \in Sale, BooksAgree(s)
    PROVE  BooksAgree(s)'
  <1>1. ASSUME NEW r \in Requests, Arrive(r) \/ Step(r) \/ Crash(r) PROVE BooksAgree(s)'
    <2> DEFINE a == <<r, attempts[r]>>
    <2>1. /\ IsFiniteSet(Notifiers(s)) /\ IsFiniteSet(Sends(s)) /\ IsFiniteSet(OwedInvoices(s))
          /\ Cardinality(Notifiers(s)) <= Occurrences(transactions, s)
          /\ Occurrences(checkoutEvents, s) <= Cardinality(Sends(s))
          /\ Occurrences(transactions, s)
               <= Occurrences(checkoutEvents, s) + Cardinality(OwedInvoices(s))
      BY DEF BooksAgree
    <2>2. /\ IsFiniteSet(Notifiers(s)')
          /\ Cardinality(Notifiers(s)) \in Nat /\ Cardinality(Notifiers(s)') \in Nat
          /\ Cardinality(Notifiers(s)') <= Cardinality(Notifiers(s)) + 1
          /\ \/ Sells(r) /\ SaleOf(r) = s
             \/ Cardinality(Notifiers(s)') <= Cardinality(Notifiers(s))
      <3>1. /\ Notifiers(s)' \subseteq Notifiers(s) \cup {r}
            /\ ~(Sells(r) /\ SaleOf(r) = s) => Notifiers(s)' \subseteq Notifiers(s)
        BY <1>1, OneRequestCounts
      <3>2. QED
        BY <2>1, <3>1, OneApart
    <2>3. /\ IsFiniteSet(Sends(s)')
          /\ Cardinality(Sends(s)) \in Nat /\ Cardinality(Sends(s)') \in Nat
          /\ Cardinality(Sends(s)) <= Cardinality(Sends(s)')
          /\ a \in Sends(s)' \ Sends(s) => Cardinality(Sends(s)') = Cardinality(Sends(s)) + 1
      <3>1. Sends(s) \subseteq Sends(s)' /\ Sends(s)' \subseteq Sends(s) \cup {a}
        BY <1>1, OneRequestCounts
      <3> HIDE DEF a
      <3>2. QED
        BY <2>1, <3>1, OneApart
    <2>4. /\ IsFiniteSet(OwedInvoices(s)')
          /\ Cardinality(OwedInvoices(s)) \in Nat /\ Cardinality(OwedInvoices(s)') \in Nat
          /\ Cardinality(OwedInvoices(s)) <= Cardinality(OwedInvoices(s)') + 1
          /\ \/ Notify(r) /\ SaleOf(r) = s /\ checkoutEvents' = Append(checkoutEvents, SaleOf(r))
             \/ /\ Cardinality(OwedInvoices(s)) <= Cardinality(OwedInvoices(s)')
                /\ r \in OwedInvoices(s)' \ OwedInvoices(s) =>
                     Cardinality(OwedInvoices(s)') = Cardinality(OwedInvoices(s)) + 1
      <3>1. /\ OwedInvoices(s)' \subseteq OwedInvoices(s) \cup {r}
            /\ OwedInvoices(s) \subseteq OwedInvoices(s)' \cup {r}
            /\ ~(Notify(r) /\ SaleOf(r) = s
                    /\ checkoutEvents' = Append(checkoutEvents, SaleOf(r)))
                 => OwedInvoices(s) \subseteq OwedInvoices(s)'
        BY <1>1, OneRequestCounts
      <3>2. QED
        BY <2>1, <3>1, OneApart
    <2>5. transactions \in Seq(Sale) /\ checkoutEvents \in Seq(Sale)
      BY DEF IInv, TypeOK
    <2>6. Occurrences(transactions, s) \in Nat /\ Occurrences(checkoutEvents, s) \in Nat
      BY <2>5, OccurrencesAreNat
    <2>7. \A e \in Sale :
            /\ Occurrences(Append(transactions, e), s)
                 = Occurrences(transactions, s) + (IF e = s THEN 1 ELSE 0)
            /\ Occurrences(Append(checkoutEvents, e), s)
                 = Occurrences(checkoutEvents, s) + (IF e = s THEN 1 ELSE 0)
      BY <2>5, OccurrencesInAppend
    <2>8. BooksAgree(s)' <=>
            /\ IsFiniteSet(Notifiers(s)') /\ IsFiniteSet(Sends(s)') /\ IsFiniteSet(OwedInvoices(s)')
            /\ Cardinality(Notifiers(s)') <= Occurrences(transactions', s)
            /\ Occurrences(checkoutEvents', s) <= Cardinality(Sends(s)')
            /\ Occurrences(transactions', s)
                 <= Occurrences(checkoutEvents', s) + Cardinality(OwedInvoices(s)')
      BY DEF BooksAgree, Occurrences
    <2>9. CASE Sells(r)
      <3>1. /\ SaleOf(r) \in Sale /\ UNCHANGED checkoutEvents
            /\ transactions' = Append(transactions, SaleOf(r))
            /\ SaleOf(r) = s => r \in OwedInvoices(s)' \ OwedInvoices(s)
        BY <2>9, SaleIsOwed DEF OwedInvoices
      <3>2. ~Notify(r)
        BY <2>9 DEF Sells, Commit, Notify
      <3>3. CASE SaleOf(r) = s
        <4>1. Occurrences(transactions', s) = Occurrences(transactions, s) + 1
          BY <2>7, <2>6, <3>1, <3>3
        <4>2. Cardinality(OwedInvoices(s)') = Cardinality(OwedInvoices(s)) + 1
          BY <2>4, <3>1, <3>2, <3>3
        <4>3. Cardinality(Notifiers(s)') <= Occurrences(transactions', s)
          BY <2>1, <2>2, <2>6, <4>1
        <4>4. Occurrences(checkoutEvents', s) <= Cardinality(Sends(s)')
          BY <2>1, <2>3, <2>6, <3>1
        <4>5. Occurrences(transactions', s)
                <= Occurrences(checkoutEvents', s) + Cardinality(OwedInvoices(s)')
          BY <2>1, <2>4, <2>6, <3>1, <4>1, <4>2
        <4>6. QED
          BY <2>2, <2>3, <2>4, <2>8, <4>3, <4>4, <4>5
      <3>4. CASE SaleOf(r) # s
        <4>1. Occurrences(transactions', s) = Occurrences(transactions, s)
          BY <2>7, <2>6, <3>1, <3>4
        <4>2. /\ Cardinality(Notifiers(s)') <= Cardinality(Notifiers(s))
              /\ Cardinality(OwedInvoices(s)) <= Cardinality(OwedInvoices(s)')
          BY <2>2, <2>4, <3>2, <3>4
        <4>3. QED
          BY <2>1, <2>2, <2>3, <2>4, <2>8, <2>6, <3>1, <4>1, <4>2
      <3>5. QED
        BY <3>3, <3>4
    <2>10. CASE Notify(r) /\ checkoutEvents' = Append(checkoutEvents, SaleOf(r)) /\ ~Sells(r)
      <3>1. SaleOf(r) \in Sale /\ UNCHANGED transactions
        BY <1>1, <2>10, SendIsCounted, BooksGrow
      <3>2. CASE SaleOf(r) = s
        <4>1. Occurrences(checkoutEvents', s) = Occurrences(checkoutEvents, s) + 1
          BY <2>7, <2>10, <2>6, <3>1, <3>2
        <4>2. a \in Sends(s)' \ Sends(s)
          <5>1. /\ IsNotifier(r, s)' /\ attempts[r] \in SendsOf(r)' /\ attempts[r] \notin SendsOf(r)
            BY <2>10, <3>2, SendIsCounted
          <5>2. attempts[r] \in 0..MaxRetry
            BY DEF IInv, TypeOK
          <5>3. a \in Requests \X (0..MaxRetry) /\ a[1] = r /\ a[2] = attempts[r]
            BY <5>2
          <5> HIDE DEF a
          <5>4. QED
            BY <5>1, <5>3 DEF Sends
        <4>3. Cardinality(Sends(s)') = Cardinality(Sends(s)) + 1
          BY <2>3, <4>2
        <4>4. /\ Cardinality(Notifiers(s)') <= Cardinality(Notifiers(s))
              /\ Cardinality(OwedInvoices(s)) <= Cardinality(OwedInvoices(s)') + 1
          BY <2>2, <2>4, <2>10
        <4>5. QED
          BY <2>1, <2>2, <2>3, <2>4, <2>8, <2>6, <3>1, <4>1, <4>3, <4>4
      <3>3. CASE SaleOf(r) # s
        <4>1. Occurrences(checkoutEvents', s) = Occurrences(checkoutEvents, s)
          BY <2>7, <2>10, <2>6, <3>1, <3>3
        <4>2. /\ Cardinality(Notifiers(s)') <= Cardinality(Notifiers(s))
              /\ Cardinality(OwedInvoices(s)) <= Cardinality(OwedInvoices(s)')
          BY <2>2, <2>4, <2>10, <3>3
        <4>3. QED
          BY <2>1, <2>2, <2>3, <2>4, <2>8, <2>6, <3>1, <4>1, <4>2
      <3>4. QED
        BY <3>2, <3>3
    <2>11. CASE /\ UNCHANGED <<transactions, checkoutEvents>> /\ ~Sells(r)
               /\ ~(Notify(r) /\ checkoutEvents' = Append(checkoutEvents, SaleOf(r)))
      <3>1. /\ Cardinality(Notifiers(s)') <= Cardinality(Notifiers(s))
            /\ Cardinality(OwedInvoices(s)) <= Cardinality(OwedInvoices(s)')
        BY <2>2, <2>4, <2>11
      <3>2. QED
        BY <2>1, <2>2, <2>3, <2>4, <2>8, <2>11, <2>6, <3>1
    <2>12. QED
      BY <1>1, <2>9, <2>10, <2>11, BooksGrow
  <1>2. CASE UNCHANGED vars \/ \E id \in Products : Expire(id)
    <2>1. UNCHANGED <<transactions, checkoutEvents, pc, req, target, held, attempts, reply>>
      BY <1>2 DEF vars, dbVars, kafkaVars, localVars, Expire
    <2>2. \A r : /\ MayOweInvoice(r)' = MayOweInvoice(r) /\ SaleOf(r)' = SaleOf(r)
                 /\ SendsOf(r)' = SendsOf(r) /\ IsNotifier(r, s)' = IsNotifier(r, s)
      BY <2>1, Bystanders
    <2>3. Notifiers(s)' = Notifiers(s) /\ Sends(s)' = Sends(s) /\ OwedInvoices(s)' = OwedInvoices(s)
      BY <2>2 DEF Notifiers, Sends, OwedInvoices
    <2>4. QED
      BY <2>1, <2>3 DEF BooksAgree, Occurrences
  <1>3. QED
    BY <1>1, <1>2 DEF Next
-----------------------------------------------------------------------------
(* The theorems.                                                           *)

LEMMA InitInvariant == Init => IInv
  <1> SUFFICES ASSUME Init PROVE IInv
    OBVIOUS
  <1>1. TypeOK
    BY TypeInitially
  <1>2. ControlOK /\ ReservedRowIsUntouched /\ InvoiceFollowsSale
    BY DEF Init, ControlOK, Controlled, ReservedRowIsUntouched, InvoiceFollowsSale
  <1>3. RowsInRange
    BY SeedAssumption DEF Init, RowsInRange, StoredRow
  <1>4. VersionsAreKept /\ ReadsShowCommittedRows /\ EventsNameKnownProducts
    BY DEF Init, VersionsAreKept, ReadsShowCommittedRows, EventsNameKnownProducts
  <1>5. SalesReferToProducts /\ InvoicesAreForSales /\ AcknowledgedCheckoutIsRecorded
    BY DEF Init, SalesReferToProducts, InvoicesAreForSales, AcknowledgedCheckoutIsRecorded, Range
  <1>6. QED
    BY <1>1, <1>2, <1>3, <1>4, <1>5 DEF IInv

LEMMA NextInvariant == IInv /\ [Next]_vars => IInv'
  <1> SUFFICES ASSUME IInv, [Next]_vars PROVE IInv'
    OBVIOUS
  <1> USE DEF IInv
  <1>1. TypeOK'
    BY TypePreserved
  <1>2. ControlOK'
    BY ControlPreserved
  <1>3. RowsInRange' /\ ReservedRowIsUntouched'
    BY RangePreserved, ReservationPreserved
  <1>4. VersionsAreKept' /\ ReadsShowCommittedRows' /\ EventsNameKnownProducts'
    BY HistoryPreserved, EventsPreserved
  <1>5. SalesReferToProducts' /\ InvoicesAreForSales'
    BY SalesPreserved, InvoicesPreserved
  <1>6. InvoiceFollowsSale' /\ AcknowledgedCheckoutIsRecorded'
    <2>1. ASSUME NEW r \in Requests PROVE Booked(r)
      BY DEF Booked, InvoiceFollowsSale, AcknowledgedCheckoutIsRecorded
    <2>2. ASSUME NEW r \in Requests PROVE Booked(r)'
      BY <2>1, BookedPreserved
    <2>3. QED
      BY <2>2 DEF Booked, InvoiceFollowsSale, AcknowledgedCheckoutIsRecorded
  <1>7. QED
    BY <1>1, <1>2, <1>3, <1>4, <1>5, <1>6

\* Every reachable state satisfies the inductive invariant.
THEOREM Invariance == Spec => []IInv
  BY InitInvariant, NextInvariant, PTL DEF Spec

\* Every variable keeps its type.
THEOREM TypeCorrect == Spec => []TypeOK
  <1>1. IInv => TypeOK
    BY DEF IInv
  <1>2. QED
    BY Invariance, <1>1, PTL

\* No interleaving of checkouts, PUTs, rollbacks and crashes takes the stock of
\* a product below zero (Checkout's conditional UPDATE).
THEOREM NoOverselling == Spec => []StockNeverNegative
  <1>1. IInv => StockNeverNegative
    BY MaxIntAssumption DEF IInv, RowsInRange, StockNeverNegative, StoredRow
  <1>2. QED
    BY Invariance, <1>1, PTL

\* What a checkout's first statement saw stays true until it ends, whoever else
\* is at work on the product: the row lock of Checkout.
THEOREM ReservationsHold == Spec => []ReservedRowIsUntouched
  <1>1. IInv => ReservedRowIsUntouched
    BY DEF IInv
  <1>2. QED
    BY Invariance, <1>1, PTL

\* No sale outlives its product (Delete against fk_product).
THEOREM SalesKeepTheirProduct == Spec => []SalesReferToProducts
  <1>1. IInv => SalesReferToProducts
    BY DEF IInv
  <1>2. QED
    BY Invariance, <1>1, PTL

\* Nobody is invoiced for what was not sold, whatever fails after the COMMIT of
\* Checkout, and however often the producer sends.
THEOREM NoInvoiceWithoutSale == Spec => []InvoicesAreForSales
  <1>1. IInv => InvoicesAreForSales
    BY DEF IInv
  <1>2. QED
    BY Invariance, <1>1, PTL

\* A checkout that HandleCheckout answered 200 is recorded.
THEOREM AcknowledgedMeansRecorded == Spec => []AcknowledgedCheckoutIsRecorded
  <1>1. IInv => AcknowledgedCheckoutIsRecorded
    BY DEF IInv
  <1>2. QED
    BY Invariance, <1>1, PTL

\* A read, from the cache or the table, shows a row that was committed under the
\* id it names (GetByID).
THEOREM ReadsAreHistory == Spec => []ReadsShowCommittedRows
  <1>1. IInv => ReadsShowCommittedRows
    BY DEF IInv
  <1>2. QED
    BY Invariance, <1>1, PTL

\* An event is about a product that was committed (Create, Update, Delete).
THEOREM EventsAreHistory == Spec => []EventsNameKnownProducts
  <1>1. IInv => EventsNameKnownProducts
    BY DEF IInv
  <1>2. QED
    BY Invariance, <1>1, PTL

\* However reads, writes and checkouts of a product overlap, a copy that is not
\* its row is left in the cache only by a sale, by a reader, by a writer that
\* failed, or by a Redis that did not take a DEL (Update and Delete).
THEOREM StaleCopiesAreExplained == Spec => []StaleCopiesHaveACause
  <1>1. Init => CopiesAreCurrent
    BY DEF Init, CopiesAreCurrent
  <1>2. IInv /\ CopiesAreCurrent => StaleCopiesHaveACause
    BY DEF CopiesAreCurrent, StaleCopiesHaveACause, Quiescent, WillPurge
  <1>3. QED
    BY Invariance, <1>1, <1>2, CopiesPreserved, PTL DEF Spec

LEMMA BooksInitially == Init => BooksOK
  <1> SUFFICES ASSUME Init PROVE BooksOK
    OBVIOUS
  <1>1. AttemptsAreFaults
    BY DEF Init, AttemptsAreFaults
  <1>2. ASSUME NEW s \in Sale PROVE BooksAgree(s)
    <2>1. Notifiers(s) = {} /\ OwedInvoices(s) = {}
      BY DEF Init, Notifiers, IsNotifier, OwedInvoices, MayOweInvoice
    <2>2. Sends(s) = {}
      BY <2>1 DEF Sends, Notifiers
    <2>3. Occurrences(transactions, s) = 0 /\ Occurrences(checkoutEvents, s) = 0
      <3>1. << >> \in Seq(Sale) /\ s \notin Range(<< >>)
        BY EmptySeq DEF Range
      <3>2. Occurrences(<< >>, s) = 0
        BY <3>1, OccurrencesAreNat
      <3>3. QED
        BY <3>2 DEF Init
    <2>4. QED
      BY <2>1, <2>2, <2>3, FS_EmptySet DEF BooksAgree
  <1>3. QED
    BY <1>1, <1>2 DEF BooksOK

LEMMA BooksStep == IInv /\ BooksOK /\ [Next]_vars => BooksOK'
  BY AttemptsPreserved, BooksPreserved DEF BooksOK, IInv

LEMMA RangeOfBooks ==
    TypeOK => Range(transactions) \subseteq Sale /\ Range(checkoutEvents) \subseteq Sale
  BY LenProperties, ElementOfSeq DEF TypeOK, Range

\* Every attempt of a request to send is one of MaxSends.
LEMMA SendsAreBounded ==
    ASSUME TypeOK, BooksOK, NEW s \in Sale
    PROVE  Cardinality(Sends(s)) <= MaxSends * Occurrences(transactions, s)
  <1> DEFINE tries == 0..(MaxSends - 1)
  <1>1. MaxSends \in Nat /\ MaxSends > 0 /\ (Fault("kafka") => MaxSends = MaxRetry + 1)
    BY MaxRetryAssumption DEF MaxSends
  <1>2. IsFiniteSet(tries) /\ Cardinality(tries) = MaxSends
    BY <1>1, FS_Interval
  <1>3. IsFiniteSet(Notifiers(s)) /\ Cardinality(Notifiers(s)) <= Occurrences(transactions, s)
    BY DEF BooksOK, BooksAgree
  <1>4. ASSUME NEW r \in Requests, NEW i \in SendsOf(r) PROVE i \in tries
    <2>1. attempts[r] \in 0..MaxRetry /\ i \in 0..MaxRetry /\ i <= attempts[r]
      BY MaxRetryAssumption DEF TypeOK, SendsOf
    <2>2. attempts[r] > 0 => Fault("kafka")
      BY DEF BooksOK, AttemptsAreFaults
    <2>3. QED
      BY <1>1, <2>1, <2>2, MaxRetryAssumption
  <1>5. Sends(s) \subseteq Notifiers(s) \X tries
    <2>1. ASSUME NEW m \in Sends(s) PROVE m[1] \in Notifiers(s) /\ m[2] \in tries
      BY <1>4 DEF Sends, Notifiers
    <2>2. ASSUME NEW m \in Sends(s) PROVE m = <<m[1], m[2]>>
      BY DEF Sends
    <2> HIDE DEF tries
    <2>3. QED
      BY <2>1, <2>2
  <1> HIDE DEF tries
  <1>6. /\ IsFiniteSet(Notifiers(s) \X tries)
        /\ Cardinality(Notifiers(s) \X tries) = Cardinality(Notifiers(s)) * MaxSends
    BY <1>2, <1>3, FS_Product
  <1>7. Cardinality(Sends(s)) <= Cardinality(Notifiers(s)) * MaxSends
    BY <1>5, <1>6, FS_Subset
  <1>8. Cardinality(Notifiers(s)) \in Nat /\ Occurrences(transactions, s) \in Nat
    BY <1>3, FS_CardinalityType, OccurrencesAreNat DEF TypeOK
  <1>9. IsFiniteSet(Sends(s)) /\ Cardinality(Sends(s)) \in Nat
    BY FS_CardinalityType DEF BooksOK, BooksAgree
  <1>10. Cardinality(Notifiers(s)) * MaxSends <= MaxSends * Occurrences(transactions, s)
    BY <1>1, <1>3, <1>8, ProductIsMonotonic
  <1>11. QED
    BY <1>1, <1>7, <1>8, <1>9, <1>10

\* However often a producer that is not idempotent repeats a send, and whatever
\* fails, a sale is invoiced MaxRetry + 1 times at most, and only once when no
\* acknowledgement is lost: one COMMIT of Checkout stands behind each series.
THEOREM InvoicesAreCounted == Spec => []InvoicesAreBounded
  <1>1. IInv /\ BooksOK => InvoicesAreBounded
    <2> SUFFICES ASSUME IInv, BooksOK, NEW s \in Range(checkoutEvents)
                 PROVE  Occurrences(checkoutEvents, s) <= MaxSends * Occurrences(transactions, s)
      BY DEF InvoicesAreBounded
    <2> USE DEF IInv
    <2>1. s \in Sale
      BY RangeOfBooks
    <2>2. Occurrences(checkoutEvents, s) <= Cardinality(Sends(s)) /\ IsFiniteSet(Sends(s))
      BY <2>1 DEF BooksOK, BooksAgree
    <2>3. Cardinality(Sends(s)) <= MaxSends * Occurrences(transactions, s)
      BY <2>1, SendsAreBounded
    <2>4. /\ Occurrences(checkoutEvents, s) \in Nat /\ Occurrences(transactions, s) \in Nat
          /\ Cardinality(Sends(s)) \in Nat /\ MaxSends \in Nat
      <3>1. Occurrences(checkoutEvents, s) \in Nat /\ Occurrences(transactions, s) \in Nat
        BY OccurrencesAreNat DEF TypeOK
      <3>2. Cardinality(Sends(s)) \in Nat
        BY <2>2, FS_CardinalityType
      <3>3. MaxSends \in Nat
        BY MaxRetryAssumption DEF MaxSends
      <3>4. QED
        BY <3>1, <3>2, <3>3
    <2> HIDE DEF IInv
    <2>5. QED
      BY <2>2, <2>3, <2>4
  <1>2. QED
    BY Invariance, BooksInitially, BooksStep, <1>1, PTL DEF Spec

\* Every invoice that is missing is that of a checkout which a fault kept from
\* sending it after its COMMIT.
THEOREM SalesAreAccountedFor == Spec => []EverySaleIsAccountedFor
  <1>1. IInv /\ BooksOK => EverySaleIsAccountedFor
    BY RangeOfBooks DEF IInv, BooksOK, BooksAgree, EverySaleIsAccountedFor
  <1>2. QED
    BY Invariance, BooksInitially, BooksStep, <1>1, PTL DEF Spec

\* Both together: without crashes, lost COMMIT answers and lost sends, a sale
\* whose request is through has its invoice exactly once.
InvoicedOnce ==
    Faults \cap {"crash", "ack", "kafka"} = {} /\ (\A r \in Requests : pc[r] # "notify") =>
        \A s \in Sale : Occurrences(checkoutEvents, s) = Occurrences(transactions, s)

\* No sale without its invoice and none with two, of any number of checkouts.
THEOREM OneInvoicePerSale == Spec => []InvoicedOnce
  <1>1. IInv /\ BooksOK => InvoicedOnce
    <2> SUFFICES ASSUME IInv, BooksOK, Faults \cap {"crash", "ack", "kafka"} = {},
                        \A r \in Requests : pc[r] # "notify", NEW s \in Sale
                 PROVE  Occurrences(checkoutEvents, s) = Occurrences(transactions, s)
      BY DEF InvoicedOnce
    <2>1. OwedInvoices(s) = {}
      BY DEF OwedInvoices, MayOweInvoice
    <2>2. Occurrences(transactions, s) <= Occurrences(checkoutEvents, s) + 0
      BY <2>1, FS_EmptySet DEF BooksOK, BooksAgree
    <2>3. MaxSends = 1
      BY DEF MaxSends
    <2>4. Cardinality(Sends(s)) <= 1 * Occurrences(transactions, s)
      BY <2>3, SendsAreBounded DEF IInv
    <2>5. Occurrences(checkoutEvents, s) <= Cardinality(Sends(s)) /\ Cardinality(Sends(s)) \in Nat
      BY FS_CardinalityType DEF BooksOK, BooksAgree
    <2>6. Occurrences(checkoutEvents, s) \in Nat /\ Occurrences(transactions, s) \in Nat
      BY OccurrencesAreNat DEF IInv, TypeOK
    <2>7. QED
      BY <2>2, <2>4, <2>5, <2>6
  <1>2. QED
    BY Invariance, BooksInitially, BooksStep, <1>1, PTL DEF Spec

LEMMA LedgerInitially == Init => Ledger!LedgerInit
  BY DEF Init, Ledger!LedgerInit

LEMMA LedgerStep ==
    IInv /\ [Next]_vars => [Ledger!LedgerNext]_<<products, transactions>>
  <1> SUFFICES ASSUME IInv, [Next]_vars, ~UNCHANGED <<products, transactions>>
               PROVE  Ledger!LedgerNext
    OBVIOUS
  <1> USE DEF IInv, Ledger!Row, StoredRow
  <1>1. ~TableUnchanged
    BY DEF TableUnchanged, dbVars
  <1>2. ASSUME NEW r \in Requests, NEW id \in Products, Added(r, id), UNCHANGED transactions
        PROVE  Ledger!LedgerNext
    <2>1. req[r].row \in StoredRow
      BY <1>2, AtLabel, BodyIsStorable DEF Added, Insert
    <2>2. products[id] = None /\ ~Sold(id)
      <3>1. products[id] = None
        BY <1>2 DEF Added, VersionsAreKept
      <3>2. QED
        BY <3>1 DEF Sold, SalesReferToProducts
    <2>3. Ledger!AddProduct(id, req[r].row)
      BY <1>2, <2>2 DEF Added, StoreRow, Ledger!AddProduct, Ledger!Sold, Sold
    <2>4. QED
      BY <2>1, <2>3 DEF Ledger!LedgerNext
  <1>3. ASSUME NEW r \in Requests, Replaced(r), UNCHANGED transactions
        PROVE  Ledger!LedgerNext
    <2>1. req[r].row \in StoredRow /\ target[r] \in Products
      BY <1>3, AtLabel, BodyIsStorable DEF Replaced, Write
    <2>2. Ledger!ReplaceProduct(target[r], req[r].row)
      BY <1>3 DEF Replaced, StoreRow, Ledger!ReplaceProduct
    <2>3. QED
      BY <2>1, <2>2 DEF Ledger!LedgerNext
  <1>4. ASSUME NEW r \in Requests, Removed(r), UNCHANGED transactions
        PROVE  Ledger!LedgerNext
    <2>1. target[r] \in Products
      BY <1>4, AtLabel DEF Removed, Erase
    <2>2. Ledger!RemoveProduct(target[r])
      BY <1>4 DEF Removed, Ledger!RemoveProduct, Ledger!Sold, Sold
    <2>3. QED
      BY <2>1, <2>2 DEF Ledger!LedgerNext
  <1>5. ASSUME NEW r \in Requests, Sells(r) PROVE Ledger!LedgerNext
    <2> DEFINE id == target[r]
               quantity == req[r].quantity
    <2>1. /\ id \in Products /\ req[r].user \in Users
          /\ quantity \in Int /\ quantity > 0 /\ pc[r] = "commit"
      BY <1>5, AtLabel, RequestFields DEF Sells, Commit, Valid
    <2>2. /\ held[r] = products[id] /\ held[r] # None /\ held[r] \in StoredRow
          /\ quantity <= held[r].stock /\ held[r].price * quantity <= MaxInt
      BY <2>1, NoneAssumption
      DEF ReservedRowIsUntouched, ControlOK, Controlled, RowsInRange, SaleOf, Row
    <2>3. quantity \in 1..MaxInt
      BY <2>1, <2>2, MaxIntAssumption
    <2>4. Ledger!Sell(req[r].user, id, quantity)
      BY <1>5, <2>1, <2>2 DEF Sells, StoreRow, SaleOf, TypeOK, Ledger!Sell
    <2>5. QED
      BY <2>1, <2>3, <2>4 DEF Ledger!LedgerNext
  <1>6. QED
    BY <1>1, <1>2, <1>3, <1>4, <1>5, TableChange

\* The whole of the server, caches, queues, faults and interleavings included,
\* changes the two tables only as the shop's ledger does: every step of a
\* handler or a fault is one of the ledger's four atomic steps or leaves it.
THEOREM ServerImplementsLedger == Spec => ImplementsLedger
  BY Invariance, LedgerInitially, LedgerStep, PTL
  DEF Spec, ImplementsLedger, Ledger!LedgerSpec
-----------------------------------------------------------------------------
(* The work a request can cause.  Its answer in the end is a matter of     *)
(* fairness, but that it makes no more than so many calls is not.          *)

\* The calls up to "done", where a send with all its attempts is one.
CallsAt(label) ==
    CASE label = "done" -> 0
      [] label \in {"publish", "notify"} -> 1
      [] label \in {"purge", "insert", "commit"} -> 2
      [] label \in {"write", "erase", "record"} -> 3
      [] label \in {"fill", "reserve"} -> 4
      [] label = "query" -> 5
      [] label = "lookup" -> 6
      [] label = "new" -> 7

CallsLeft(r) ==
    IF pc[r] = "done" THEN 0 ELSE CallsAt(pc[r]) + (MaxRetry - attempts[r])

\* Whatever the others do and whatever fails, each call of a handler brings its
\* request nearer to the answer, and no step takes a request back: a handler and
\* the retries of SendMessage end after MaxRetry + 7 steps at the latest.
RequestsAdvance ==
    [][\A r \in Requests :
        /\ CallsLeft(r)' \in 0..CallsLeft(r)
        /\ Arrive(r) \/ Step(r) \/ Crash(r) => CallsLeft(r)' < CallsLeft(r)]_vars

LEMMA CallsAreNumbers ==
    ASSUME TypeOK, NEW r \in Requests
    PROVE  CallsLeft(r) \in Nat /\ (pc[r] # "done" => CallsLeft(r) > 0)
  <1>1. pc[r] \in Labels /\ attempts[r] \in 0..MaxRetry /\ MaxRetry \in Nat
    BY MaxRetryAssumption DEF TypeOK
  <1>2. CallsAt(pc[r]) \in 0..7 /\ (pc[r] # "done" => CallsAt(pc[r]) > 0)
    BY <1>1 DEF CallsAt, Labels
  <1>3. QED
    BY <1>1, <1>2 DEF CallsLeft

\* A call leads to a label with fewer calls to come, or is one attempt more.
LEMMA CallsLeadOn ==
    ASSUME TypeOK, NEW r \in Requests, Arrive(r) \/ Step(r) \/ Crash(r)
    PROVE  \/ /\ pc[r] # "done"
              /\ pc'[r] \in Labels /\ attempts'[r] = attempts[r]
              /\ CallsAt(pc'[r]) < CallsAt(pc[r])
           \/ pc[r] # "done" /\ pc'[r] = pc[r] /\ attempts'[r] = attempts[r] + 1
  <1> USE DEF TypeOK, Goto, Respond, CallsAt, Labels
  <1>1. CASE Arrive(r)
    BY <1>1 DEF Arrive, FirstLabel
  <1>2. CASE LookupHit(r) \/ Fill(r)
    BY <1>2 DEF LookupHit, Fill, Found
  <1>3. CASE LookupMiss(r) \/ SelectRow(r) \/ Purge(r)
    BY <1>3 DEF LookupMiss, SelectRow, Purge
  <1>4. CASE Insert(r) \/ Write(r) \/ Erase(r)
    BY <1>4 DEF Insert, Write, Erase, Executed
  <1>5. CASE Publish(r) \/ Notify(r)
    BY <1>5 DEF Publish, Notify, Sent
  <1>6. CASE Reserve(r) \/ Record(r) \/ Commit(r)
    BY <1>6 DEF Reserve, Record, Commit, RolledBack, Committed
  <1>7. CASE Crash(r)
    BY <1>7 DEF Crash, InFlight
  <1>8. QED
    BY <1>1, <1>2, <1>3, <1>4, <1>5, <1>6, <1>7 DEF Step

\* A request makes a bounded number of calls, whatever fails.
THEOREM RequestsAreFinite == Spec => RequestsAdvance
  <1>1. ASSUME TypeOK, TypeOK', NEW r \in Requests, Arrive(r) \/ Step(r) \/ Crash(r)
        PROVE  CallsLeft(r)' < CallsLeft(r)
    <2>1. /\ attempts[r] \in Nat /\ attempts'[r] \in Nat /\ MaxRetry \in Nat
          /\ attempts[r] <= MaxRetry
      BY <1>1, MaxRetryAssumption DEF TypeOK
    <2>2. pc[r] \in Labels /\ pc'[r] \in Labels
      BY <1>1 DEF TypeOK
    <2>3. CallsAt(pc[r]) \in Nat /\ CallsAt(pc'[r]) \in Nat
      BY <2>2 DEF CallsAt, Labels
    <2>4. pc[r] # "done" /\ CallsLeft(r) > 0 /\ CallsLeft(r) \in Nat
      BY <1>1, CallsLeadOn, CallsAreNumbers
    <2>5. CallsLeft(r) = CallsAt(pc[r]) + (MaxRetry - attempts[r])
      BY <2>4 DEF CallsLeft
    <2>6. CallsLeft(r)' = IF pc'[r] = "done" THEN 0
                          ELSE CallsAt(pc'[r]) + (MaxRetry - attempts'[r])
      BY DEF CallsLeft
    <2>7. CASE pc'[r] = "done"
      BY <2>4, <2>6, <2>7
    <2>8. CASE pc'[r] # "done" /\ CallsAt(pc'[r]) < CallsAt(pc[r]) /\ attempts'[r] = attempts[r]
      BY <2>1, <2>3, <2>5, <2>6, <2>8
    <2>9. CASE pc'[r] = pc[r] /\ attempts'[r] = attempts[r] + 1
      BY <2>1, <2>3, <2>4, <2>5, <2>6, <2>9
    <2>10. QED
      BY <1>1, <2>7, <2>8, <2>9, CallsLeadOn
  <1>2. ASSUME TypeOK, TypeOK', [Next]_vars, NEW r \in Requests
        PROVE  CallsLeft(r)' \in 0..CallsLeft(r)
    <2>1. CallsLeft(r) \in Nat /\ CallsLeft(r)' \in Nat
      <3>1. pc'[r] \in Labels /\ attempts'[r] \in 0..MaxRetry /\ MaxRetry \in Nat
        BY <1>2, MaxRetryAssumption DEF TypeOK
      <3>2. CallsAt(pc'[r]) \in 0..7
        BY <3>1 DEF CallsAt, Labels
      <3>3. CallsLeft(r)' \in Nat
        BY <3>1, <3>2 DEF CallsLeft
      <3>4. QED
        BY <1>2, <3>3, CallsAreNumbers
    <2>2. CallsLeft(r)' <= CallsLeft(r)
      <3>1. CASE Arrive(r) \/ Step(r) \/ Crash(r)
        BY <1>1, <1>2, <2>1, <3>1
      <3>2. ASSUME NEW s \in Requests, s # r, Arrive(s) \/ Step(s) \/ Crash(s)
            PROVE  CallsLeft(r)' = CallsLeft(r)
        BY <1>2, <3>2, OthersAreLeftAlone DEF CallsLeft
      <3>3. CASE UNCHANGED vars \/ \E id \in Products : Expire(id)
        BY <2>1, <3>3 DEF vars, Expire, CallsLeft
      <3>4. QED
        BY <1>2, <2>1, <3>1, <3>2, <3>3 DEF Next
    <2>3. QED
      BY <2>1, <2>2
  <1>3. TypeOK /\ TypeOK' /\ [Next]_vars =>
          [\A r \in Requests :
              /\ CallsLeft(r)' \in 0..CallsLeft(r)
              /\ Arrive(r) \/ Step(r) \/ Crash(r) => CallsLeft(r)' < CallsLeft(r)]_vars
    BY <1>1, <1>2
  <1>4. QED
    BY TypeCorrect, <1>3, PTL DEF Spec, RequestsAdvance
=============================================================================

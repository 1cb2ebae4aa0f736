----------------------------- MODULE GatewayProofs -----------------------------
(***************************************************************************)
(* What Gateway promises, for any number of requests, accounts and tokens. *)
(* The limiter's part is inherited from RateLimiterProofs: to the limiter  *)
(* every step of the gateway is a step of its own, or none.                *)
(***************************************************************************)
EXTENDS Gateway, RateLimiterProofs

\* To the limiter a step of the gateway is one of its own, or none.
LEMMA LimiterSteps == [Next]_vars => [LimiterNext]_limiterVars
<1>1. ASSUME NEW r \in Requests,
             \/ Arrive(r) \/ StartLimit(r) \/ Limit(r) \/ Register(r) \/ SelectUser(r)
             \/ IssueToken(r) \/ Authorize(r)
      PROVE  [LimiterNext]_limiterVars
  BY <1>1 DEF Arrive, StartLimit, Limit, Register, SelectUser, IssueToken, Authorize, LimiterNext
<1>2. ASSUME NEW e \in Emails, NEW role \in Roles, SetRole(e, role) PROVE UNCHANGED limiterVars
  BY <1>2 DEF SetRole
<1>3. Tick \/ Reset => LimiterNext
  BY DEF Tick, Reset, LimiterNext
<1>4. UNCHANGED vars => UNCHANGED limiterVars
  BY DEF vars
<1> QED
  BY <1>1, <1>2, <1>3, <1>4 DEF Next

\* The limiter of the gateway is the limiter of RateLimiter, whatever goes on
\* behind it (the middleware stack of main.go): what is proved of the one, the
\* bounds on the buckets among it, holds of the other.
THEOREM GatewayImplementsLimiter == Spec => LimiterSpec
<1>1. Init => LimiterInit
  BY DEF Init
<1> QED
  BY <1>1, LimiterSteps, PTL DEF Spec, LimiterSpec
-----------------------------------------------------------------------------
(* The limiter leaves accounts and tokens alone.                           *)

\* What the limiter may do to the requests of others.
LEMMA LimiterLeaves ==
    ASSUME LimiterTypeOK, NEW r \in Requests,
           Bypass(r) \/ Allow(r) \/ \E a \in Addresses : GetLimiter(r, a)
    PROVE  /\ now' = now
           /\ passage[r] \in {"new", "timed"}
           /\ passage'[r] # "new"
           /\ \A s \in Requests \ {r} : passage'[s] = passage[s] /\ at'[s] = at[s]
BY DEF LimiterTypeOK, Bypass, Allow, GetLimiter, LetThrough

LEMMA Starts == Init => GatewayInv
<1> SUFFICES ASSUME Init PROVE GatewayInv
  OBVIOUS
<1>1. LimiterTypeOK
  BY LimiterInitially DEF Init, LimiterInv
<1>2. /\ users \in [Emails -> User \cup {None}]
      /\ adminTimes = AdminsOf(users, now)
      /\ now \in 0..now
  BY <1>1, SeedsAssumption DEF Init, LimiterTypeOK
<1>3. TypeOK
  BY <1>1, <1>2 DEF Init, TypeOK, Stages, Statuses, AdminsOf
<1>4. \A r \in Requests : passage[r] = "new" /\ reply[r] = "none" /\ token[r] = None /\ stage[r] = "limit"
  BY DEF Init, LimiterInit
<1>5. StagesAreInOrder /\ ReadingsAreAccounts /\ TokensAreReadings
  BY <1>4 DEF StagesAreInOrder, StageInOrder, ReadingsAreAccounts, TokensAreReadings
<1>6. CallsCarryTokens /\ AdminsWereAdmins /\ AccountsAreKept
  BY <1>4 DEF CallsCarryTokens, AdminsWereAdmins, AccountsAreKept
<1>7. AdminsAreNoted
  BY <1>2 DEF AdminsAreNoted, AdminsOf
<1> QED
  BY <1>3, <1>5, <1>6, <1>7 DEF GatewayInv
-----------------------------------------------------------------------------
(* The steps.  A request that is still at its limit or route has answered  *)
(* nothing and has no token, so nothing is known of it that could be lost. *)

LEMMA ArriveKeeps ==
    ASSUME GatewayInv, LimiterTypeOK', NEW r \in Requests, Arrive(r)
    PROVE  GatewayInv'
<1> USE DEF GatewayInv
<1>1. LimiterTypeOK
  BY DEF TypeOK
<1>2. /\ now' = now /\ passage[r] = "new" /\ passage'[r] # "new"
      /\ \A s \in Requests \ {r} : passage'[s] = passage[s] /\ at'[s] = at[s]
  BY <1>1, LimiterLeaves DEF Arrive, Bypass, GetLimiter
<1>3. stage[r] = "limit" /\ reply[r] = "none" /\ token[r] = None
  BY <1>2 DEF StagesAreInOrder, StageInOrder
<1>4. /\ reply' = reply /\ token' = token /\ read' = read /\ users' = users
      /\ adminTimes' = adminTimes
      /\ stage'[r] \in {"limit", "route"} /\ (stage'[r] = "limit" \/ passage'[r] = "passed")
      /\ stage' \in [Requests -> Stages]
      /\ \A s \in Requests \ {r} : stage'[s] = stage[s]
  <2>1. CASE Bypass(r) /\ Goto(r, "route")
    <3>1. passage'[r] = "passed"
      BY <1>1, <2>1 DEF Bypass, LetThrough, LimiterTypeOK
    <3>2. stage' = [stage EXCEPT ![r] = "route"] /\ reply' = reply
      BY <2>1 DEF Goto
    <3> QED
      BY <3>1, <3>2 DEF Arrive, TypeOK, Stages
  <2>2. CASE UNCHANGED <<stage, reply>>
    BY <2>2, <1>3 DEF Arrive, TypeOK
  <2> QED
    BY <2>1, <2>2 DEF Arrive
<1>5. PICK c \in CallWith(Issued \cup Foreign) : call' = [call EXCEPT ![r] = c]
  BY DEF Arrive
<1>6. c \in CallWith(Token \cup {None})
  <2>1. Issued \subseteq Token \cup {None}
    BY DEF Issued, TypeOK
  <2>2. Foreign \subseteq Token
    BY <1>1 DEF Foreign, Token, LimiterTypeOK
  <2> QED
    BY <2>1, <2>2 DEF CallWith
<1>7. /\ call'[r] = c /\ \A s \in Requests \ {r} : call'[s] = call[s]
      /\ call' \in [Requests -> CallWith(Token \cup {None}) \cup {None}]
  BY <1>5, <1>6 DEF TypeOK
<1>8. TypeOK'
  BY <1>2, <1>4, <1>7 DEF TypeOK
<1>9. StagesAreInOrder'
  <2>1. ASSUME NEW s \in Requests \ {r}
        PROVE  StageInOrder(s)'
    <3>1. /\ call'[s] = call[s] /\ passage'[s] = passage[s] /\ stage'[s] = stage[s]
          /\ reply'[s] = reply[s] /\ token'[s] = token[s]
      BY <1>2, <1>4, <1>7
    <3>2. StageInOrder(s)
      BY DEF StagesAreInOrder
    <3> QED
      BY <3>1, <3>2 DEF StageInOrder
  <2>2. StageInOrder(r)'
    <3>1. /\ reply'[r] = "none" /\ token'[r] = None /\ stage'[r] \in {"limit", "route"}
          /\ call'[r] \in CallWith(Token \cup {None})
          /\ passage'[r] \in {"asking", "timed"} => stage'[r] = "limit"
      BY <1>2, <1>3, <1>4, <1>6, <1>7
    <3> QED
      BY <1>2, <3>1 DEF StageInOrder
  <2> QED
    BY <2>1, <2>2 DEF StagesAreInOrder
<1>10. ReadingsAreAccounts' /\ TokensAreReadings'
  BY <1>2, <1>3, <1>4, <1>7 DEF ReadingsAreAccounts, TokensAreReadings
<1>11. CallsCarryTokens'
  <2>1. Issued' = Issued /\ Foreign' = Foreign
    BY <1>2, <1>4 DEF Issued, Foreign
  <2>2. c.route \in {"user", "admin"} => c.token \in Issued \cup Foreign
    BY <1>5 DEF CallWith
  <2> QED
    BY <1>2, <1>7, <2>1, <2>2 DEF CallsCarryTokens
<1>12. AdminsAreNoted'
  BY <1>2, <1>4 DEF AdminsAreNoted
<1>13. AdminsWereAdmins'
  <2> SUFFICES ASSUME Secret \notin {None, Fallback}, NEW q \in Requests,
                      reply'[q] = "handled", call'[q].route = "admin"
               PROVE  \E l \in Requests :
                        /\ token'[l] = call'[q].token
                        /\ at'[q] < token'[l].issued + TokenLife
                        /\ [email |-> token'[l].email, time |-> read'[l].time] \in adminTimes'
    BY DEF AdminsWereAdmins
  <2>1. q # r
    BY <1>3, <1>4
  <2> QED
    BY <2>1, <1>2, <1>4, <1>7 DEF AdminsWereAdmins
<1>14. AccountsAreKept'
  <2>1. \A q \in Requests : reply'[q] \in {"200", "201"} => call'[q] = call[q] /\ reply'[q] = reply[q]
    BY <1>3, <1>4, <1>7
  <2> QED
    BY <2>1, <1>3, <1>4 DEF AccountsAreKept, Matches
<1> QED
  BY <1>8, <1>9, <1>10, <1>11, <1>12, <1>13, <1>14

LEMMA LimitKeeps ==
    ASSUME GatewayInv, LimiterTypeOK', NEW r \in Requests, Limit(r)
    PROVE  GatewayInv'
<1> USE DEF GatewayInv
<1>1. LimiterTypeOK
  BY DEF TypeOK
<1>2. /\ now' = now /\ passage[r] = "timed" /\ passage'[r] \in {"passed", "429"}
      /\ \A s \in Requests \ {r} : passage'[s] = passage[s] /\ at'[s] = at[s]
  BY <1>1, LimiterLeaves DEF Limit, Allow, LetThrough, LimiterTypeOK
<1>3. stage[r] = "limit" /\ reply[r] = "none" /\ token[r] = None
  BY <1>2 DEF StagesAreInOrder, StageInOrder
<1>4. /\ call' = call /\ token' = token /\ read' = read /\ users' = users
      /\ adminTimes' = adminTimes
  BY DEF Limit
<1>5. /\ \/ stage'[r] = "route" /\ reply'[r] = "none"
         \/ stage'[r] = "done" /\ reply'[r] = "429"
      /\ stage' \in [Requests -> Stages] /\ reply' \in [Requests -> Statuses]
      /\ \A s \in Requests \ {r} : stage'[s] = stage[s] /\ reply'[s] = reply[s]
  <2>1. \/ stage' = [stage EXCEPT ![r] = "route"] /\ reply' = reply
        \/ stage' = [stage EXCEPT ![r] = "done"] /\ reply' = [reply EXCEPT ![r] = "429"]
    BY DEF Limit, Goto, Respond
  <2> QED
    BY <2>1, <1>3 DEF TypeOK, Stages, Statuses
<1>6. TypeOK'
  BY <1>2, <1>4, <1>5 DEF TypeOK
<1>7. StagesAreInOrder'
  <2>1. ASSUME NEW s \in Requests \ {r}
        PROVE  StageInOrder(s)'
    <3>1. StageInOrder(s)
      BY DEF StagesAreInOrder
    <3> QED
      BY <3>1, <1>2, <1>4, <1>5 DEF StageInOrder
  <2>2. StageInOrder(r)'
    <3>1. call[r] \in CallWith(Token \cup {None})
      BY <1>2 DEF StagesAreInOrder, StageInOrder
    <3> QED
      BY <3>1, <1>2, <1>3, <1>4, <1>5 DEF StageInOrder
  <2> QED
    BY <2>1, <2>2 DEF StagesAreInOrder
<1>8. ReadingsAreAccounts' /\ TokensAreReadings'
  BY <1>2, <1>3, <1>4, <1>5 DEF ReadingsAreAccounts, TokensAreReadings
<1>9. CallsCarryTokens' /\ AdminsAreNoted'
  BY <1>2, <1>4 DEF CallsCarryTokens, AdminsAreNoted, Issued, Foreign
<1>10. AdminsWereAdmins'
  <2>1. \A q \in Requests : reply'[q] = "handled" => reply[q] = "handled" /\ at'[q] = at[q]
    BY <1>2, <1>5
  <2> QED
    BY <2>1, <1>4 DEF AdminsWereAdmins
<1>11. AccountsAreKept'
  <2>1. \A q \in Requests : reply'[q] \in {"200", "201"} => reply'[q] = reply[q]
    BY <1>5
  <2> QED
    BY <2>1, <1>4 DEF AccountsAreKept, Matches
<1> QED
  BY <1>6, <1>7, <1>8, <1>9, <1>10, <1>11

LEMMA RegisterKeeps ==
    ASSUME GatewayInv, NEW r \in Requests, Register(r)
    PROVE  GatewayInv'
<1> USE DEF GatewayInv
<1> DEFINE u == call[r].body
<1>1. /\ stage[r] = "route" /\ call[r].route = "register" /\ reply[r] = "none" /\ token[r] = None
      /\ passage[r] # "new"
  BY DEF Register, StagesAreInOrder, StageInOrder
<1>2. /\ now' = now /\ passage' = passage /\ at' = at /\ call' = call /\ token' = token
      /\ read' = read /\ adminTimes' = adminTimes /\ UNCHANGED limiterVars
  BY DEF Register, limiterVars
<1>3. u \in Body
  BY <1>1 DEF StagesAreInOrder, StageInOrder, CallWith
<1>4. \/ /\ u # None /\ Free(u.email)
         /\ users' = [users EXCEPT ![u.email] = NewUser(u.password)]
      \/ users' = users
  BY DEF Register
<1>5. PICK status \in {"201", "400", "409", "500"} :
        /\ stage' = [stage EXCEPT ![r] = "done"] /\ reply' = [reply EXCEPT ![r] = status]
        /\ status = "201" =>
             /\ u # None /\ Free(u.email)
             /\ users' = [users EXCEPT ![u.email] = NewUser(u.password)]
  BY DEF Register, Respond
<1>6. /\ stage' \in [Requests -> Stages] /\ reply' \in [Requests -> Statuses]
      /\ stage'[r] = "done" /\ reply'[r] = status
      /\ \A s \in Requests \ {r} : stage'[s] = stage[s] /\ reply'[s] = reply[s]
  BY <1>5 DEF TypeOK, Stages, Statuses
<1>7. u # None => u.email \in Emails /\ NewUser(u.password) \in User /\ NewUser(u.password) # None
  BY <1>3, NoAccountAssumption DEF Body, NewUser, User, Roles
<1>8. users' \in [Emails -> User \cup {None}]
  BY <1>4, <1>7 DEF TypeOK
\* No account is changed: the new one was not there.
<1>9. \A e \in Emails : users[e] # None => users'[e] = users[e]
  BY <1>4, <1>7 DEF Free, TypeOK
<1>10. TypeOK'
  BY <1>2, <1>6, <1>8 DEF TypeOK, limiterVars, LimiterTypeOK
<1>11. StagesAreInOrder'
  <2> USE DEF StagesAreInOrder, StageInOrder
  <2>1. status = "201" => u # None
    BY <1>5
  <2> QED
    BY <1>1, <1>2, <1>5, <1>6, <2>1
<1>12. ReadingsAreAccounts'
  <2> SUFFICES ASSUME NEW s \in Requests,
                      stage'[s] = "compare" \/ reply'[s] = "200" \/ token'[s] # None
               PROVE  LET e == call[s].body.email IN
                      /\ read[s] \in [user : User, time : 0..now]
                      /\ users'[e] # None
                      /\ users'[e].password = read[s].user.password
                      /\ read[s].user.role = "admin" =>
                          [email |-> e, time |-> read[s].time] \in adminTimes
    BY <1>2 DEF ReadingsAreAccounts
  <2>1. stage[s] = "compare" \/ reply[s] = "200" \/ token[s] # None
    BY <1>1, <1>2, <1>5, <1>6
  <2>2. call[s].route = "login" /\ call[s].body # None /\ call[s] \in CallWith(Token \cup {None})
    BY <2>1 DEF StagesAreInOrder, StageInOrder
  <2>3. call[s].body.email \in Emails
    BY <2>2 DEF CallWith, Body
  <2> QED
    BY <2>1, <2>3, <1>9 DEF ReadingsAreAccounts
<1>13. TokensAreReadings' /\ CallsCarryTokens'
  BY <1>2 DEF TokensAreReadings, CallsCarryTokens, Issued, Foreign
<1>14. AdminsAreNoted'
  BY <1>2, <1>4, <1>7 DEF AdminsAreNoted, NewUser, TypeOK
<1>15. AdminsWereAdmins'
  <2>1. \A q \in Requests : reply'[q] = "handled" => reply[q] = "handled"
    BY <1>5, <1>6
  <2> QED
    BY <2>1, <1>2 DEF AdminsWereAdmins
<1>16. AccountsAreKept'
  <2>1. ASSUME NEW q \in Requests, reply'[q] \in {"200", "201"}, q # r
        PROVE  /\ reply[q] = reply'[q]
               /\ call[q].body # None /\ call[q].body.email \in Emails
               /\ users[call[q].body.email] # None
    <3>1. reply[q] = reply'[q]
      BY <2>1, <1>6
    <3>2. /\ call[q].route \in {"register", "login"} /\ call[q].body # None
          /\ passage[q] # "new"
      BY <2>1, <3>1 DEF StagesAreInOrder, StageInOrder
    <3>3. call[q] \in CallWith(Token \cup {None})
      BY <3>2 DEF StagesAreInOrder, StageInOrder
    <3>4. call[q].body.email \in Emails
      BY <3>2, <3>3 DEF CallWith, Body
    <3>5. users[call[q].body.email] # None
      BY <2>1, <3>1 DEF AccountsAreKept, ReadingsAreAccounts
    <3> QED
      BY <3>1, <3>2, <3>4, <3>5
  <2>2. ASSUME NEW q \in Requests, reply'[q] = "200"
        PROVE  Matches(call[q].body.password, users'[call[q].body.email])
    <3>1. q # r
      BY <2>2, <1>5, <1>6
    <3> QED
      BY <2>1, <2>2, <3>1, <1>9 DEF AccountsAreKept
  <2>3. ASSUME NEW q \in Requests, reply'[q] = "201"
        PROVE  /\ users'[call[q].body.email] # None
               /\ users'[call[q].body.email].password = call[q].body.password
               /\ \A s \in Requests :
                    reply'[s] = "201" /\ call[s].body.email = call[q].body.email => s = q
    <3>1. CASE q = r
      <4>1. /\ users[u.email] = None /\ u.email \in Emails /\ users'[u.email] = NewUser(u.password)
            /\ NewUser(u.password) # None
        BY <2>3, <3>1, <1>5, <1>6, <1>7 DEF Free, TypeOK
      <4>2. NewUser(u.password).password = u.password
        BY DEF NewUser
      <4> QED
        BY <3>1, <4>1, <4>2, <2>1
    <3>2. CASE q # r
      <4>1. \A s \in Requests : reply'[s] = "201" /\ call[s].body.email = call[q].body.email => s # r
        BY <2>1, <2>3, <3>2, <1>5, <1>6 DEF Free
      <4> QED
        BY <2>1, <2>3, <3>2, <4>1, <1>6, <1>9 DEF AccountsAreKept
    <3> QED
      BY <3>1, <3>2
  <2> QED
    BY <2>2, <2>3, <1>2 DEF AccountsAreKept, Matches
<1> QED
  BY <1>10, <1>11, <1>12, <1>13, <1>14, <1>15, <1>16

LEMMA SelectUserKeeps ==
    ASSUME GatewayInv, NEW r \in Requests, SelectUser(r)
    PROVE  GatewayInv'
<1> USE DEF GatewayInv
<1> DEFINE u == call[r].body
<1>1. /\ stage[r] = "route" /\ call[r].route = "login" /\ reply[r] = "none" /\ token[r] = None
      /\ passage[r] # "new"
  BY DEF SelectUser, StagesAreInOrder, StageInOrder
<1>2. /\ now' = now /\ passage' = passage /\ at' = at /\ call' = call /\ token' = token
      /\ users' = users /\ adminTimes' = adminTimes /\ UNCHANGED limiterVars
  BY DEF SelectUser, limiterVars
<1>3. u \in Body
  BY <1>1 DEF StagesAreInOrder, StageInOrder, CallWith
<1>4. /\ stage'[r] \in {"compare", "done"} /\ reply'[r] \in {"none", "400", "401", "500"}
      /\ stage'[r] = "compare" =>
           /\ u # None /\ users[u.email] # None /\ reply'[r] = "none"
           /\ read'[r] = [user |-> users[u.email], time |-> now]
      /\ stage' \in [Requests -> Stages] /\ reply' \in [Requests -> Statuses]
      /\ \A s \in Requests \ {r} :
           stage'[s] = stage[s] /\ reply'[s] = reply[s] /\ read'[s] = read[s]
      /\ read' = [read EXCEPT ![r] = read'[r]]
  <2>1. CASE /\ u # None
             /\ users[u.email] # None
             /\ read' = [read EXCEPT ![r] = [user |-> users[u.email], time |-> now]]
             /\ stage' = [stage EXCEPT ![r] = "compare"] /\ reply' = reply
    BY <2>1, <1>1 DEF TypeOK, Stages
  <2>2. CASE \E status \in {"400", "401", "500"} :
               /\ stage' = [stage EXCEPT ![r] = "done"]
               /\ reply' = [reply EXCEPT ![r] = status]
               /\ read' = read
    <3>1. PICK status \in {"400", "401", "500"} :
               /\ stage' = [stage EXCEPT ![r] = "done"]
               /\ reply' = [reply EXCEPT ![r] = status]
               /\ read' = read
      BY <2>2
    <3> QED
      BY <3>1 DEF TypeOK, Stages, Statuses
  <2> QED
    BY <2>1, <2>2 DEF SelectUser, Goto, Respond
<1>5. stage'[r] = "compare" =>
        /\ u.email \in Emails
        /\ read'[r] \in [user : User, time : 0..now]
        /\ users[u.email].role = "admin" => [email |-> u.email, time |-> now] \in adminTimes
  <2>1. now \in 0..now
    BY DEF TypeOK, LimiterTypeOK
  <2> QED
    BY <2>1, <1>3, <1>4 DEF TypeOK, Body, AdminsAreNoted
<1>6. TypeOK'
  <2>1. read' \in [Requests -> [user : User, time : 0..now] \cup {None}]
    <3>1. CASE stage'[r] = "compare"
      BY <3>1, <1>4, <1>5 DEF TypeOK
    <3>2. CASE stage'[r] # "compare"
      <4>1. read' = read
        BY <3>2 DEF SelectUser, Goto, TypeOK
      <4> QED
        BY <4>1 DEF TypeOK
    <3> QED
      BY <3>1, <3>2
  <2> QED
    BY <2>1, <1>2, <1>4 DEF TypeOK, limiterVars, LimiterTypeOK
<1>7. StagesAreInOrder'
  <2>1. ASSUME NEW s \in Requests \ {r}
        PROVE  StageInOrder(s)'
    <3>1. StageInOrder(s)
      BY DEF StagesAreInOrder
    <3> QED
      BY <3>1, <1>2, <1>4 DEF StageInOrder
  <2>2. StageInOrder(r)'
    <3>1. /\ token'[r] = None /\ stage'[r] \in {"compare", "done"}
          /\ reply'[r] \in {"none", "400", "401", "500"}
          /\ stage'[r] = "compare" => reply'[r] = "none" /\ call[r].body # None
      BY <1>1, <1>2, <1>4
    <3>2. /\ call[r].route = "login" /\ call[r] \in CallWith(Token \cup {None})
          /\ passage[r] \notin {"new", "asking", "timed"}
      BY <1>1 DEF StagesAreInOrder, StageInOrder
    <3> QED
      BY <3>1, <3>2, <1>2 DEF StageInOrder
  <2> QED
    BY <2>1, <2>2 DEF StagesAreInOrder
<1>8. ReadingsAreAccounts'
  <2>1. ASSUME NEW s \in Requests \ {r},
               stage'[s] = "compare" \/ reply'[s] = "200" \/ token'[s] # None
        PROVE  stage[s] = "compare" \/ reply[s] = "200" \/ token[s] # None
    BY <2>1, <1>2, <1>4
  <2>2. stage'[r] = "compare" \/ reply'[r] = "200" \/ token'[r] # None => stage'[r] = "compare"
    BY <1>1, <1>2, <1>4
  <2> SUFFICES ASSUME NEW s \in Requests,
                      stage'[s] = "compare" \/ reply'[s] = "200" \/ token'[s] # None
               PROVE  LET e == call[s].body.email IN
                      /\ read'[s] \in [user : User, time : 0..now]
                      /\ users[e] # None
                      /\ users[e].password = read'[s].user.password
                      /\ read'[s].user.role = "admin" =>
                          [email |-> e, time |-> read'[s].time] \in adminTimes
    BY <1>2 DEF ReadingsAreAccounts
  <2>3. CASE s # r
    BY <2>1, <2>3, <1>4 DEF ReadingsAreAccounts
  <2>4. CASE s = r
    BY <2>2, <2>4, <1>4, <1>5
  <2> QED
    BY <2>3, <2>4
<1>9. TokensAreReadings'
  BY <1>1, <1>2, <1>4 DEF TokensAreReadings
<1>10. CallsCarryTokens' /\ AdminsAreNoted'
  BY <1>2 DEF CallsCarryTokens, AdminsAreNoted, Issued, Foreign
<1>11. AdminsWereAdmins'
  <2> SUFFICES ASSUME Secret \notin {None, Fallback}, NEW q \in Requests,
                      reply'[q] = "handled", call[q].route = "admin"
               PROVE  \E l \in Requests :
                        /\ token[l] = call[q].token
                        /\ at[q] < token[l].issued + TokenLife
                        /\ [email |-> token[l].email, time |-> read'[l].time] \in adminTimes
    BY <1>2 DEF AdminsWereAdmins
  <2>1. reply[q] = "handled"
    BY <1>4
  <2>2. PICK l \in Requests :
          /\ token[l] = call[q].token
          /\ at[q] < token[l].issued + TokenLife
          /\ [email |-> token[l].email, time |-> read[l].time] \in adminTimes
    BY <2>1 DEF AdminsWereAdmins
  <2>3. call[q].token # None
    BY <2>1 DEF StagesAreInOrder, StageInOrder
  <2>4. l # r
    BY <1>1, <2>2, <2>3
  <2> QED
    BY <2>2, <2>4, <1>4
<1>12. AccountsAreKept'
  <2>1. \A q \in Requests : reply'[q] \in {"200", "201"} => reply'[q] = reply[q]
    BY <1>4
  <2> QED
    BY <2>1, <1>2 DEF AccountsAreKept, Matches
<1> QED
  BY <1>6, <1>7, <1>8, <1>9, <1>10, <1>11, <1>12

LEMMA IssueTokenKeeps ==
    ASSUME GatewayInv, NEW r \in Requests, IssueToken(r)
    PROVE  GatewayInv'
<1> USE DEF GatewayInv
<1>1. /\ stage[r] = "compare" /\ reply[r] = "none" /\ token[r] = None
      /\ call[r].route = "login" /\ call[r].body # None /\ passage[r] # "new"
      /\ call[r] \in CallWith(Token \cup {None})
  BY DEF IssueToken, StagesAreInOrder, StageInOrder
<1>2. /\ now' = now /\ passage' = passage /\ at' = at /\ call' = call /\ read' = read
      /\ users' = users /\ adminTimes' = adminTimes /\ UNCHANGED limiterVars
  BY DEF IssueToken, limiterVars
<1>3. call[r].body.email \in Emails
  BY <1>1 DEF CallWith, Body
<1>4. /\ read[r].user \in User /\ users[call[r].body.email] # None
      /\ users[call[r].body.email].password = read[r].user.password
  BY <1>1 DEF ReadingsAreAccounts
<1>5. PICK t \in Token \cup {None} :
        /\ token' = [token EXCEPT ![r] = t]
        /\ t # None => t.email = call[r].body.email /\ t.role = read[r].user.role
        /\ stage' = [stage EXCEPT ![r] = "done"]
        /\ \/ /\ Matches(call[r].body.password, read[r].user)
              /\ reply' = [reply EXCEPT ![r] = "200"]
           \/ reply' = [reply EXCEPT ![r] = "401"]
  <2>1. CASE Matches(call[r].body.password, read[r].user)
    <3> DEFINE t == [email |-> call[r].body.email, role |-> read[r].user.role,
                    issued |-> now, key |-> SecretKey]
    <3>1. t \in Token
      BY <1>3, <1>4 DEF Token, User, TypeOK, LimiterTypeOK
    <3>2. t.email = call[r].body.email /\ t.role = read[r].user.role
      OBVIOUS
    <3>3. /\ token' = [token EXCEPT ![r] = t]
          /\ stage' = [stage EXCEPT ![r] = "done"] /\ reply' = [reply EXCEPT ![r] = "200"]
      BY <2>1 DEF IssueToken, Respond
    <3> HIDE DEF t
    <3> QED
      BY <2>1, <3>1, <3>2, <3>3
  <2>2. CASE ~Matches(call[r].body.password, read[r].user)
    <3>1. token' = [token EXCEPT ![r] = None]
      BY <2>2, <1>1 DEF IssueToken, TypeOK
    <3> QED
      BY <2>2, <3>1 DEF IssueToken, Respond
  <2> QED
    BY <2>1, <2>2
<1>6. /\ token'[r] = t /\ stage'[r] = "done" /\ reply'[r] \in {"200", "401"}
      /\ reply'[r] = "200" => Matches(call[r].body.password, read[r].user)
      /\ stage' \in [Requests -> Stages] /\ reply' \in [Requests -> Statuses]
      /\ token' \in [Requests -> Token \cup {None}]
      /\ \A s \in Requests \ {r} :
           stage'[s] = stage[s] /\ reply'[s] = reply[s] /\ token'[s] = token[s]
  BY <1>5 DEF TypeOK, Stages, Statuses
<1>7. TypeOK'
  BY <1>2, <1>6 DEF TypeOK, limiterVars, LimiterTypeOK
<1>8. StagesAreInOrder'
  <2>1. ASSUME NEW s \in Requests \ {r}
        PROVE  StageInOrder(s)'
    <3>1. StageInOrder(s)
      BY DEF StagesAreInOrder
    <3> QED
      BY <3>1, <1>2, <1>6 DEF StageInOrder
  <2>2. StageInOrder(r)'
    <3>1. stage'[r] = "done" /\ reply'[r] \in {"200", "401"}
      BY <1>6
    <3>2. /\ call[r].route = "login" /\ call[r].body # None
          /\ call[r] \in CallWith(Token \cup {None})
          /\ passage[r] \notin {"new", "asking", "timed"}
      BY <1>1 DEF StagesAreInOrder, StageInOrder
    <3> QED
      BY <3>1, <3>2, <1>2 DEF StageInOrder
  <2> QED
    BY <2>1, <2>2 DEF StagesAreInOrder
<1>9. ReadingsAreAccounts'
  <2>1. ASSUME NEW s \in Requests,
               stage'[s] = "compare" \/ reply'[s] = "200" \/ token'[s] # None
        PROVE  stage[s] = "compare" \/ reply[s] = "200" \/ token[s] # None
    BY <2>1, <1>1, <1>6
  <2> QED
    BY <2>1, <1>2 DEF ReadingsAreAccounts
<1>10. TokensAreReadings'
  BY <1>2, <1>5, <1>6 DEF TokensAreReadings
\* No token is taken back: this request had none.
<1>11. Issued \subseteq Issued'
  BY <1>1, <1>6 DEF Issued
<1>12. CallsCarryTokens' /\ AdminsAreNoted'
  BY <1>2, <1>11 DEF CallsCarryTokens, AdminsAreNoted, Foreign
<1>13. AdminsWereAdmins'
  <2> SUFFICES ASSUME Secret \notin {None, Fallback}, NEW q \in Requests,
                      reply'[q] = "handled", call[q].route = "admin"
               PROVE  \E l \in Requests :
                        /\ token'[l] = call[q].token
                        /\ at[q] < token'[l].issued + TokenLife
                        /\ [email |-> token'[l].email, time |-> read[l].time] \in adminTimes
    BY <1>2 DEF AdminsWereAdmins
  <2>1. reply[q] = "handled"
    BY <1>6
  <2>2. PICK l \in Requests :
          /\ token[l] = call[q].token
          /\ at[q] < token[l].issued + TokenLife
          /\ [email |-> token[l].email, time |-> read[l].time] \in adminTimes
    BY <2>1 DEF AdminsWereAdmins
  <2>3. call[q].token # None
    BY <2>1 DEF StagesAreInOrder, StageInOrder
  <2>4. l # r
    BY <1>1, <2>2, <2>3
  <2> QED
    BY <2>2, <2>4, <1>6
<1>14. AccountsAreKept'
  <2>1. \A q \in Requests : reply'[q] = "201" => reply[q] = "201"
    BY <1>6
  <2>2. ASSUME NEW q \in Requests, reply'[q] = "200"
        PROVE  Matches(call[q].body.password, users[call[q].body.email])
    BY <2>2, <1>4, <1>6 DEF AccountsAreKept, Matches
  <2> QED
    BY <2>1, <2>2, <1>2 DEF AccountsAreKept, Matches
<1> QED
  BY <1>7, <1>8, <1>9, <1>10, <1>12, <1>13, <1>14

LEMMA AuthorizeKeeps ==
    ASSUME GatewayInv, NEW r \in Requests, Authorize(r)
    PROVE  GatewayInv'
<1> USE DEF GatewayInv
<1>1. /\ stage[r] = "route" /\ call[r].route \in {"user", "admin"}
      /\ reply[r] = "none" /\ token[r] = None /\ passage[r] # "new"
  BY DEF Authorize, StagesAreInOrder, StageInOrder
<1>2. /\ now' = now /\ passage' = passage /\ at' = at /\ call' = call /\ read' = read
      /\ token' = token /\ users' = users /\ adminTimes' = adminTimes /\ UNCHANGED limiterVars
  BY DEF Authorize, limiterVars
<1>3. PICK status \in {"401", "403", "handled"} :
        /\ stage' = [stage EXCEPT ![r] = "done"] /\ reply' = [reply EXCEPT ![r] = status]
        /\ status = "handled" =>
             /\ Valid(call[r].token)
             /\ call[r].route = "admin" => call[r].token.role = "admin"
  <2>1. \/ Respond(r, "401") \/ Respond(r, "403")
        \/ /\ Valid(call[r].token)
           /\ call[r].route = "user" \/ call[r].token.role = "admin"
           /\ Respond(r, "handled")
    BY DEF Authorize
  <2> QED
    BY <2>1 DEF Respond
<1>4. /\ stage'[r] = "done" /\ reply'[r] = status
      /\ stage' \in [Requests -> Stages] /\ reply' \in [Requests -> Statuses]
      /\ \A s \in Requests \ {r} : stage'[s] = stage[s] /\ reply'[s] = reply[s]
  BY <1>3 DEF TypeOK, Stages, Statuses
<1>5. TypeOK'
  BY <1>2, <1>4 DEF TypeOK, limiterVars, LimiterTypeOK
<1>6. StagesAreInOrder'
  <2>1. ASSUME NEW s \in Requests \ {r}
        PROVE  StageInOrder(s)'
    <3>1. StageInOrder(s)
      BY DEF StagesAreInOrder
    <3> QED
      BY <3>1, <1>2, <1>4 DEF StageInOrder
  <2>2. StageInOrder(r)'
    <3>1. status = "handled" => call[r].token # None
      BY <1>3 DEF Valid
    <3>2. StageInOrder(r)
      BY DEF StagesAreInOrder
    <3> QED
      BY <1>1, <1>2, <1>4, <3>1, <3>2 DEF StageInOrder
  <2> QED
    BY <2>1, <2>2 DEF StagesAreInOrder
<1>7. ReadingsAreAccounts' /\ TokensAreReadings'
  <2>1. ASSUME NEW s \in Requests,
               stage'[s] = "compare" \/ reply'[s] = "200" \/ token'[s] # None
        PROVE  stage[s] = "compare" \/ reply[s] = "200" \/ token[s] # None
    BY <2>1, <1>1, <1>2, <1>3, <1>4
  <2> QED
    BY <2>1, <1>2 DEF ReadingsAreAccounts, TokensAreReadings
<1>8. CallsCarryTokens' /\ AdminsAreNoted'
  BY <1>2 DEF CallsCarryTokens, AdminsAreNoted, Issued, Foreign
<1>9. AdminsWereAdmins'
  <2> SUFFICES ASSUME Secret \notin {None, Fallback}, NEW q \in Requests,
                      reply'[q] = "handled", call[q].route = "admin"
               PROVE  \E l \in Requests :
                        /\ token[l] = call[q].token
                        /\ at[q] < token[l].issued + TokenLife
                        /\ [email |-> token[l].email, time |-> read[l].time] \in adminTimes
    BY <1>2 DEF AdminsWereAdmins
  <2>1. CASE q # r
    BY <2>1, <1>4 DEF AdminsWereAdmins
  <2>2. CASE q = r
    <3>1. Valid(call[r].token) /\ call[r].token.role = "admin"
      BY <2>2, <1>3, <1>4
    <3>2. PICK l \in Requests : token[l] = call[r].token
      <4>1. call[r].token \in Issued \cup Foreign
        BY <1>1 DEF CallsCarryTokens
      \* It is signed with this program's secret, which no other one has.
      <4>2. call[r].token.key # Fallback
        BY <3>1 DEF Valid, SecretKey
      <4> QED
        BY <3>1, <4>1, <4>2 DEF Valid, Issued, Foreign
    <3>3. token[l] \in Token /\ token[l] # None
      BY <3>1, <3>2 DEF Valid, TypeOK
    <3>4. [email |-> token[l].email, time |-> read[l].time] \in adminTimes
      BY <3>1, <3>2, <3>3 DEF TokensAreReadings, ReadingsAreAccounts
    <3>5. at[r] < token[l].issued + TokenLife
      <4>1. now < token[l].issued + TokenLife
        BY <3>1, <3>2 DEF Valid
      <4>2. at[r] \in Nat /\ now \in Nat /\ at[r] <= now
        BY DEF TypeOK, LimiterTypeOK
      <4> QED
        BY <4>1, <4>2, <3>3, TokenLifeAssumption DEF Token
    <3> QED
      BY <2>2, <3>2, <3>4, <3>5
  <2> QED
    BY <2>1, <2>2
<1>10. AccountsAreKept'
  <2>1. \A q \in Requests : reply'[q] \in {"200", "201"} => reply'[q] = reply[q]
    BY <1>3, <1>4
  <2> QED
    BY <2>1, <1>2 DEF AccountsAreKept, Matches
<1> QED
  BY <1>5, <1>6, <1>7, <1>8, <1>9, <1>10

LEMMA SetRoleKeeps ==
    ASSUME GatewayInv, NEW x \in Emails, NEW role \in Roles, SetRole(x, role)
    PROVE  GatewayInv'
<1> USE DEF GatewayInv
<1>1. /\ now' = now /\ passage' = passage /\ at' = at /\ call' = call /\ read' = read
      /\ token' = token /\ stage' = stage /\ reply' = reply /\ UNCHANGED limiterVars
  BY DEF SetRole, limiterVars
<1>2. /\ users[x] # None /\ users' = [users EXCEPT ![x] = [users[x] EXCEPT !.role = role]]
      /\ adminTimes' = adminTimes \cup AdminsOf(users', now)
  BY DEF SetRole
<1>3. users[x] \in User
  BY <1>2 DEF TypeOK
<1>4. /\ [users[x] EXCEPT !.role = role] \in User
      /\ [users[x] EXCEPT !.role = role].password = users[x].password
  BY <1>3 DEF User
<1>5. [users[x] EXCEPT !.role = role] # None
  BY <1>4, NoAccountAssumption DEF User, Roles
<1>6. /\ users' \in [Emails -> User \cup {None}]
      /\ \A e \in Emails : users[e] # None =>
           users'[e] # None /\ users'[e].password = users[e].password
  BY <1>2, <1>4, <1>5 DEF TypeOK
<1>7. now \in 0..now
  BY DEF TypeOK, LimiterTypeOK
<1>8. TypeOK'
  <2>1. adminTimes' \subseteq [email : Emails, time : 0..now]
    BY <1>2, <1>7 DEF TypeOK, AdminsOf
  <2> QED
    BY <2>1, <1>1, <1>6 DEF TypeOK, limiterVars, LimiterTypeOK
<1>9. StagesAreInOrder' /\ TokensAreReadings' /\ CallsCarryTokens'
  <2>1. StagesAreInOrder'
    BY <1>1 DEF StagesAreInOrder, StageInOrder
  <2>2. TokensAreReadings'
    BY <1>1 DEF TokensAreReadings
  <2>3. CallsCarryTokens'
    BY <1>1 DEF CallsCarryTokens, Issued, Foreign
  <2> QED
    BY <2>1, <2>2, <2>3
<1>10. adminTimes \subseteq adminTimes'
  BY <1>2
<1>11. ASSUME NEW s \in Requests,
              stage[s] = "compare" \/ reply[s] \in {"200", "201"} \/ token[s] # None
       PROVE  call[s].body.email \in Emails /\ users[call[s].body.email] # None
  <2>1. /\ call[s].route \in {"register", "login"} /\ call[s].body # None
        /\ passage[s] # "new"
    BY <1>11 DEF StagesAreInOrder, StageInOrder
  <2>2. call[s] \in CallWith(Token \cup {None})
    BY <2>1 DEF StagesAreInOrder, StageInOrder
  <2>3. call[s].body.email \in Emails
    BY <2>1, <2>2 DEF CallWith, Body
  <2>4. users[call[s].body.email] # None
    BY <1>11 DEF AccountsAreKept, ReadingsAreAccounts
  <2> QED
    BY <2>3, <2>4
<1>12. ReadingsAreAccounts'
  <2> SUFFICES ASSUME NEW s \in Requests,
                      stage[s] = "compare" \/ reply[s] = "200" \/ token[s] # None
               PROVE  LET e == call[s].body.email IN
                      /\ read[s] \in [user : User, time : 0..now]
                      /\ users'[e] # None
                      /\ users'[e].password = read[s].user.password
                      /\ read[s].user.role = "admin" =>
                          [email |-> e, time |-> read[s].time] \in adminTimes'
    BY <1>1 DEF ReadingsAreAccounts
  <2> QED
    BY <1>6, <1>10, <1>11 DEF ReadingsAreAccounts
<1>13. AdminsAreNoted'
  BY <1>1, <1>2 DEF AdminsAreNoted, AdminsOf
<1>14. AdminsWereAdmins'
  <2> SUFFICES ASSUME Secret \notin {None, Fallback}, NEW q \in Requests,
                      reply[q] = "handled", call[q].route = "admin"
               PROVE  \E l \in Requests :
                        /\ token[l] = call[q].token
                        /\ at[q] < token[l].issued + TokenLife
                        /\ [email |-> token[l].email, time |-> read[l].time] \in adminTimes'
    BY <1>1 DEF AdminsWereAdmins
  <2> QED
    BY <1>10 DEF AdminsWereAdmins
<1>15. AccountsAreKept'
  <2> SUFFICES ASSUME NEW q \in Requests
               PROVE  /\ reply[q] = "201" =>
                          /\ users'[call[q].body.email] # None
                          /\ users'[call[q].body.email].password = call[q].body.password
                          /\ \A s \in Requests :
                               reply[s] = "201" /\ call[s].body.email = call[q].body.email => s = q
                      /\ reply[q] = "200" =>
                          Matches(call[q].body.password, users'[call[q].body.email])
    BY <1>1 DEF AccountsAreKept, Matches
  <2> QED
    BY <1>6, <1>11 DEF AccountsAreKept, Matches
<1> QED
  BY <1>8, <1>9, <1>12, <1>13, <1>14, <1>15

LEMMA TickKeeps ==
    ASSUME GatewayInv, LimiterTypeOK', Tick
    PROVE  GatewayInv'
<1> USE DEF GatewayInv
<1>1. /\ call' = call /\ read' = read /\ token' = token /\ stage' = stage /\ reply' = reply
      /\ users' = users /\ passage' = passage /\ at' = at
      /\ adminTimes' = adminTimes \cup AdminsOf(users, now')
  BY DEF Tick, LimiterTick
<1>2. now \in Nat /\ now' \in Nat /\ now <= now'
  BY DEF Tick, LimiterTick, TypeOK, LimiterTypeOK
<1>3. now' \in 0..now' /\ 0..now \subseteq 0..now'
  BY <1>2
<1>4. adminTimes \subseteq adminTimes'
  BY <1>1
<1>5. TypeOK'
  <2>1. adminTimes' \subseteq [email : Emails, time : 0..now']
    BY <1>1, <1>3 DEF TypeOK, AdminsOf
  <2>2. read \in [Requests -> [user : User, time : 0..now'] \cup {None}]
    <3>1. [user : User, time : 0..now] \subseteq [user : User, time : 0..now']
      BY <1>3
    <3> QED
      BY <3>1 DEF TypeOK
  <2> QED
    BY <2>1, <2>2, <1>1 DEF TypeOK
<1>6. StagesAreInOrder' /\ TokensAreReadings' /\ CallsCarryTokens'
  <2>1. StagesAreInOrder'
    BY <1>1 DEF StagesAreInOrder, StageInOrder
  <2>2. TokensAreReadings'
    BY <1>1 DEF TokensAreReadings
  <2>3. CallsCarryTokens'
    <3>1. Issued' = Issued
      BY <1>1 DEF Issued
    <3>2. Foreign \subseteq Foreign'
      BY <1>3 DEF Foreign
    <3> QED
      BY <1>1, <3>1, <3>2 DEF CallsCarryTokens
  <2> QED
    BY <2>1, <2>2, <2>3
<1>7. ReadingsAreAccounts'
  <2> SUFFICES ASSUME NEW s \in Requests,
                      stage[s] = "compare" \/ reply[s] = "200" \/ token[s] # None
               PROVE  LET e == call[s].body.email IN
                      /\ read[s] \in [user : User, time : 0..now']
                      /\ users[e] # None
                      /\ users[e].password = read[s].user.password
                      /\ read[s].user.role = "admin" =>
                          [email |-> e, time |-> read[s].time] \in adminTimes'
    BY <1>1 DEF ReadingsAreAccounts
  <2> QED
    BY <1>3, <1>4 DEF ReadingsAreAccounts
<1>8. AdminsAreNoted'
  BY <1>1 DEF AdminsAreNoted, AdminsOf
<1>9. AdminsWereAdmins'
  <2> SUFFICES ASSUME Secret \notin {None, Fallback}, NEW q \in Requests,
                      reply[q] = "handled", call[q].route = "admin"
               PROVE  \E l \in Requests :
                        /\ token[l] = call[q].token
                        /\ at[q] < token[l].issued + TokenLife
                        /\ [email |-> token[l].email, time |-> read[l].time] \in adminTimes'
    BY <1>1 DEF AdminsWereAdmins
  <2> QED
    BY <1>4 DEF AdminsWereAdmins
<1>10. AccountsAreKept'
  BY <1>1 DEF AccountsAreKept, Matches
<1> QED
  BY <1>5, <1>6, <1>7, <1>8, <1>9, <1>10

\* Reading the clock, forgetting the buckets, and a stutter, touch nothing behind
\* the limiter.
LEMMA NothingKeeps ==
    ASSUME GatewayInv, LimiterTypeOK', now' = now, at' = at, UNCHANGED authVars,
           \A r \in Requests :
              passage'[r] = passage[r] \/ (passage[r] = "asking" /\ passage'[r] = "timed")
    PROVE  GatewayInv'
<1> USE DEF GatewayInv, authVars
<1>1. TypeOK'
  BY DEF TypeOK
<1>2. StagesAreInOrder' /\ TokensAreReadings' /\ CallsCarryTokens'
  <2>1. StagesAreInOrder'
    BY DEF StagesAreInOrder, StageInOrder
  <2>2. TokensAreReadings'
    BY DEF TokensAreReadings
  <2>3. CallsCarryTokens'
    BY DEF CallsCarryTokens, Issued, Foreign
  <2> QED
    BY <2>1, <2>2, <2>3
<1>3. ReadingsAreAccounts' /\ AdminsAreNoted'
  BY DEF ReadingsAreAccounts, AdminsAreNoted
<1>4. AdminsWereAdmins'
  BY DEF AdminsWereAdmins
<1>5. AccountsAreKept'
  BY DEF AccountsAreKept, Matches
<1> QED
  BY <1>1, <1>2, <1>3, <1>4, <1>5

LEMMA GatewaySteps == GatewayInv /\ LimiterTypeOK' /\ [Next]_vars => GatewayInv'
<1> SUFFICES ASSUME GatewayInv, LimiterTypeOK', [Next]_vars PROVE GatewayInv'
  OBVIOUS
<1>1. CASE Tick
  BY <1>1, TickKeeps
<1>2. CASE Reset
  <2>1. now' = now /\ at' = at /\ UNCHANGED authVars /\ passage' = passage
    BY <1>2 DEF Reset, Cleanup
  <2>2. \A r \in Requests :
          passage'[r] = passage[r] \/ (passage[r] = "asking" /\ passage'[r] = "timed")
    BY <2>1
  <2> QED
    BY <2>1, <2>2, NothingKeeps
<1>3. CASE UNCHANGED vars
  <2>1. now' = now /\ at' = at /\ UNCHANGED authVars /\ passage' = passage
    BY <1>3 DEF vars, limiterVars
  <2>2. \A r \in Requests :
          passage'[r] = passage[r] \/ (passage[r] = "asking" /\ passage'[r] = "timed")
    BY <2>1
  <2> QED
    BY <2>1, <2>2, NothingKeeps
<1>4. ASSUME NEW e \in Emails, NEW role \in Roles, SetRole(e, role) PROVE GatewayInv'
  BY <1>4, SetRoleKeeps
<1>5. ASSUME NEW r \in Requests,
             \/ Arrive(r) \/ StartLimit(r) \/ Limit(r) \/ Register(r) \/ SelectUser(r)
             \/ IssueToken(r) \/ Authorize(r)
      PROVE  GatewayInv'
  <2>1. ASSUME StartLimit(r) PROVE GatewayInv'
    <3>1. /\ now' = now /\ at' = at /\ UNCHANGED authVars
          /\ passage[r] = "asking" /\ passage' = [passage EXCEPT ![r] = "timed"]
      BY <2>1 DEF StartLimit, ReadClock
    <3>2. passage \in [Requests -> Passages]
      BY DEF GatewayInv, TypeOK, LimiterTypeOK
    <3>3. \A s \in Requests :
            passage'[s] = passage[s] \/ (passage[s] = "asking" /\ passage'[s] = "timed")
      BY <3>1, <3>2
    <3> QED
      BY <3>1, <3>3, NothingKeeps
  <2> QED
    BY <1>5, <2>1, ArriveKeeps, LimitKeeps, RegisterKeeps, SelectUserKeeps, IssueTokenKeeps,
       AuthorizeKeeps
<1> QED
  BY <1>1, <1>2, <1>3, <1>4, <1>5 DEF Next

\* The inductive invariant: what a login read, what its token says, and what
\* clients present belong together at every step.
THEOREM GatewayInvariance == Spec => []GatewayInv
<1>1. Spec => []LimiterTypeOK
  <2>1. LimiterInv => LimiterTypeOK
    BY DEF LimiterInv
  <2> QED
    BY <2>1, GatewayImplementsLimiter, LimiterInvariance, PTL
<1> QED
  BY <1>1, Starts, GatewaySteps, PTL DEF Spec

\* Every variable of the gateway stays of its type.
THEOREM GatewayTypeCorrect == Spec => []TypeOK
<1>1. GatewayInv => TypeOK
  BY DEF GatewayInv
<1> QED
  BY <1>1, GatewayInvariance, PTL

\* Under a secret of the program's own, whoever reaches an admin handler holds a
\* token of a login that read an admin's row, presented before it expired, though
\* clients also come with tokens signed with the key in the source (jwt.go:15).
THEOREM AdminsAreGenuine == Spec => []AdminsWereAdmins
<1>1. GatewayInv => AdminsWereAdmins
  BY DEF GatewayInv
<1> QED
  BY <1>1, GatewayInvariance, PTL

\* A registration answered 201 stands, however requests interleave and
\* whatever the database loses.
THEOREM AccountsStand == Spec => []AccountsAreKept
<1>1. GatewayInv => AccountsAreKept
  BY DEF GatewayInv
<1> QED
  BY <1>1, GatewayInvariance, PTL
=============================================================================

------------------------------- MODULE Gateway -------------------------------
(***************************************************************************)
(* The way of an HTTP request to a handler, as main.go stacks it: the rate *)
(* limiter, then for most routes the token check and the role check, with  *)
(* registration and login, which fill the table `users` and hand out the   *)
(* tokens.  What the product handlers do is in ProductRepository.          *)
(* Nothing in the program changes a role: that is done in SQL, by hand.    *)
(***************************************************************************)
EXTENDS RateLimiter

CONSTANTS
    Emails,      \* the addresses people register with
    Passwords,   \* the passwords they type
    Prefix,      \* what bcrypt sees of a password: the first 72 bytes
    TokenLife,   \* 24 hours, in ticks
    Secret,      \* the environment's JWT_SECRET, None if it is empty
    Fallback,    \* the key in the source that stands in for it
    Seeds,       \* the tables of users that it may start with
    Faults       \* what may go wrong, see FaultKinds

\* "db": a statement fails without effect.  "ack": it takes effect, but the
\* answer is lost.
FaultKinds == {"db", "ack"}

ASSUME EmailsAssumption == None \notin Emails
ASSUME TokenLifeAssumption == TokenLife \in Nat
ASSUME FaultsAssumption == Faults \subseteq FaultKinds
ASSUME NoAccountAssumption == None \notin [password : Passwords, role : {"user", "admin"}]

VARIABLES
    users,       \* table users, by its unique email
    adminTimes,  \* history: the [email, time] pairs at which a user was admin
    call,        \* what a request asks for
    stage,       \* where it is behind the limiter
    read,        \* the row that Login has read, and when
    token,       \* the token that Login has answered with
    reply        \* the status, "handled" when a product handler is reached

authVars == <<users, adminTimes, call, stage, read, token, reply>>
vars == <<limiterVars, authVars>>

Roles == {"user", "admin"}
User == [password : Passwords, role : Roles]

ASSUME SeedsAssumption == Seeds \subseteq [Emails -> User \cup {None}]

\* getSecretKey.
SecretKey == IF Secret = None THEN Fallback ELSE Secret

Token == [email : Emails, role : Roles, issued : Nat, key : {SecretKey, Fallback}]
Stages == {"limit", "route", "compare", "done"}
Statuses == {"none", "200", "201", "400", "401", "403", "409", "429", "500", "handled"}

\* body None: it is not JSON.  token None: no header, no "Bearer", or a token
\* signed with a key that no instance of this program uses.
Body == [email : Emails, password : Passwords] \cup {None}
CallWith(tokens) ==
    [route : {"register", "login"}, body : Body] \cup [route : {"user", "admin"}, token : tokens]

TypeOK ==
    /\ LimiterTypeOK
    /\ users \in [Emails -> User \cup {None}]
    /\ adminTimes \subseteq [email : Emails, time : 0..now]
    /\ call \in [Requests -> CallWith(Token \cup {None}) \cup {None}]
    /\ stage \in [Requests -> Stages]
    /\ read \in [Requests -> [user : User, time : 0..now] \cup {None}]
    /\ token \in [Requests -> Token \cup {None}]
    /\ reply \in [Requests -> Statuses]

AdminsOf(table, time) ==
    {[email |-> e, time |-> time] :
        e \in {e \in Emails : table[e] # None /\ table[e].role = "admin"}}

Init ==
    /\ LimiterInit
    /\ users \in Seeds
    /\ adminTimes = AdminsOf(users, now)
    /\ call = [r \in Requests |-> None]
    /\ stage = [r \in Requests |-> "limit"]
    /\ read = [r \in Requests |-> None]
    /\ token = [r \in Requests |-> None]
    /\ reply = [r \in Requests |-> "none"]
-----------------------------------------------------------------------------
Fault(kind) == kind \in Faults

Goto(r, s) == stage' = [stage EXCEPT ![r] = s] /\ UNCHANGED reply

Respond(r, status) ==
    /\ stage' = [stage EXCEPT ![r] = "done"]
    /\ reply' = [reply EXCEPT ![r] = status]

\* The tokens that clients have from this program, or none.
Issued == {token[r] : r \in Requests} \cup {None}

\* Tokens of other instances of the program, which run without JWT_SECRET and have
\* accounts of their own.
Foreign == [email : Emails, role : Roles, issued : 0..now, key : {Fallback}]

\* A request comes in; Limit is the outermost handler.
Arrive(r) ==
    /\ \E c \in CallWith(Issued \cup Foreign) : call' = [call EXCEPT ![r] = c]
    /\ \/ Bypass(r) /\ Goto(r, "route")
       \/ (\E a \in Addresses : GetLimiter(r, a)) /\ UNCHANGED <<stage, reply>>
    /\ UNCHANGED <<users, adminTimes, read, token>>

\* Limit calls Allow, which first reads the clock.
StartLimit(r) == ReadClock(r) /\ UNCHANGED authVars

Limit(r) ==
    /\ Allow(r)
    /\ IF passage'[r] = "passed" THEN Goto(r, "route") ELSE Respond(r, "429")
    /\ UNCHANGED <<users, adminTimes, call, read, token>>

\* Mutant of Free: the table lacks UNIQUE on email.
FreeAlways(e) == TRUE

Free(e) == users[e] = None

\* Mutant of NewUser: the column has no default.
NewUserWithoutRole(password) == [password |-> password, role |-> None]

\* The row that Register inserts: the role is the column's default.
NewUser(password) == [password |-> password, role |-> "user"]

\* Register.  bcrypt refuses more than 72 bytes; every error of the INSERT is
\* reported as a duplicate email.
Register(r) ==
    LET u == call[r].body IN
    /\ stage[r] = "route"
    /\ call[r].route = "register"
    /\ \/ u = None /\ Respond(r, "400") /\ UNCHANGED users
       \/ u # None /\ Prefix[u.password] # u.password /\ Respond(r, "500") /\ UNCHANGED users
       \/ /\ u # None
          /\ Prefix[u.password] = u.password
          /\ \/ /\ Free(u.email)
                /\ users' = [users EXCEPT ![u.email] = NewUser(u.password)]
                /\ Respond(r, "201") \/ (Fault("ack") /\ Respond(r, "409"))
             \/ /\ ~Free(u.email) \/ Fault("db")
                /\ Respond(r, "409")
                /\ UNCHANGED users
    /\ UNCHANGED <<limiterVars, adminTimes, call, read, token>>

\* Login, up to the SELECT of GetByEmail.
SelectUser(r) ==
    LET u == call[r].body IN
    /\ stage[r] = "route"
    /\ call[r].route = "login"
    /\ \/ /\ u # None
          /\ users[u.email] # None
          /\ read' = [read EXCEPT ![r] = [user |-> users[u.email], time |-> now]]
          /\ Goto(r, "compare")
       \/ /\ \/ u = None /\ Respond(r, "400")
             \/ u # None /\ users[u.email] = None /\ Respond(r, "401")
             \/ u # None /\ Fault("db") /\ Respond(r, "500")
          /\ UNCHANGED read
    /\ UNCHANGED <<limiterVars, users, adminTimes, call, token>>

\* Mutant of Matches: the error of CompareHashAndPassword is overlooked.
MatchesAll(password, user) == user \in User

\* CheckPasswordHash: what was stored was no longer than 72 bytes.
Matches(password, user) == Prefix[password] = user.password

\* Login, from the comparison on.  The token has the role of the row read.
IssueToken(r) ==
    LET user == read[r].user IN
    /\ stage[r] = "compare"
    /\ \/ /\ Matches(call[r].body.password, user)
          /\ token' = [token EXCEPT ![r] =
                [email |-> call[r].body.email, role |-> user.role, issued |-> now, key |-> SecretKey]]
          /\ Respond(r, "200")
       \/ /\ ~Matches(call[r].body.password, user)
          /\ Respond(r, "401")
          /\ UNCHANGED token
    /\ UNCHANGED <<limiterVars, users, adminTimes, call, read>>

\* Mutant of Valid: the expiry is not looked at.
ValidForEver(t) == t # None /\ t.key = SecretKey

\* ParseToken: the signature is checked with the key of this program, whichever
\* program has signed.
Valid(t) == t # None /\ t.key = SecretKey /\ now < t.issued + TokenLife

\* AuthMiddleware and, on the admin routes, AdminMiddleware.
Authorize(r) ==
    LET c == call[r] IN
    /\ stage[r] = "route"
    /\ c.route \in {"user", "admin"}
    /\ \/ ~Valid(c.token) /\ Respond(r, "401")
       \/ Valid(c.token) /\ c.route = "admin" /\ c.token.role # "admin" /\ Respond(r, "403")
       \/ /\ Valid(c.token)
          /\ c.route = "user" \/ c.token.role = "admin"
          /\ Respond(r, "handled")
    /\ UNCHANGED <<limiterVars, users, adminTimes, call, read, token>>

\* A role is given or taken away in the table, by hand.
SetRole(e, role) ==
    /\ users[e] # None
    /\ users' = [users EXCEPT ![e] = [users[e] EXCEPT !.role = role]]
    /\ adminTimes' = adminTimes \cup AdminsOf(users', now)
    /\ UNCHANGED <<limiterVars, call, stage, read, token, reply>>

Tick ==
    /\ LimiterTick
    /\ adminTimes' = adminTimes \cup AdminsOf(users, now')
    /\ UNCHANGED <<users, call, stage, read, token, reply>>

Reset == Cleanup /\ UNCHANGED authVars

Next ==
    \/ Tick
    \/ Reset
    \/ \E e \in Emails, role \in Roles : SetRole(e, role)
    \/ \E r \in Requests :
        \/ Arrive(r) \/ StartLimit(r) \/ Limit(r)
        \/ Register(r) \/ SelectUser(r) \/ IssueToken(r) \/ Authorize(r)

Spec == Init /\ [][Next]_vars
-----------------------------------------------------------------------------
(* Properties.                                                             *)

\* "Admin: Full CRUD access" (README.md:23): whoever reaches an admin handler
\* does so with a token that a login gave out, less than its 24 hours before
\* the request came, to an account that was admin when that login read it.  A
\* role given in between, or taken away before, counts for nothing.  It takes a secret
\* of the program's own: with JWT_SECRET empty, or equal to the key in the source
\* (jwt.go:12-18), this says nothing, and a token of another instance will do.
AdminsWereAdmins ==
    Secret \notin {None, Fallback} => \A r \in Requests :
        reply[r] = "handled" /\ call[r].route = "admin" =>
            \E l \in Requests :
                /\ token[l] = call[r].token
                /\ at[r] < token[l].issued + TokenLife
                /\ [email |-> token[l].email, time |-> read[l].time] \in adminTimes

\* A registration that was answered 201 stands: of several for one email at
\* most one is, no other overwrites it, and whoever logs in has its password
\* (UNIQUE on email behind auth_handler.go:55).
AccountsAreKept ==
    \A r \in Requests :
        /\ reply[r] = "201" =>
            /\ users[call[r].body.email] # None
            /\ users[call[r].body.email].password = call[r].body.password
            /\ \A s \in Requests :
                 reply[s] = "201" /\ call[s].body.email = call[r].body.email => s = r
        /\ reply[r] = "200" => Matches(call[r].body.password, users[call[r].body.email])
-----------------------------------------------------------------------------
(* The inductive invariant behind the theorems of GatewayProofs.           *)

\* Nothing is answered before the limiter has let a request through, and only
\* a login reads an account.
StageInOrder(r) ==
    /\ passage[r] \in {"new", "asking", "timed"} => stage[r] = "limit"
    /\ stage[r] \in {"limit", "route"} => reply[r] = "none" /\ token[r] = None
    /\ stage[r] = "compare" => reply[r] = "none" /\ token[r] = None
    /\ passage[r] # "new" => call[r] \in CallWith(Token \cup {None})
    /\ reply[r] = "201" => call[r].route = "register" /\ call[r].body # None
    /\ reply[r] = "handled" => call[r].route \in {"user", "admin"} /\ call[r].token # None
    /\ stage[r] = "compare" \/ reply[r] = "200" \/ token[r] # None =>
        call[r].route = "login" /\ call[r].body # None /\ passage[r] # "new"

StagesAreInOrder == \A r \in Requests : StageInOrder(r)

\* The row that a login works on is the account's, but for its role, and was
\* an admin's only if that was noted.
ReadingsAreAccounts ==
    \A r \in Requests :
        stage[r] = "compare" \/ reply[r] = "200" \/ token[r] # None =>
            LET e == call[r].body.email IN
            /\ read[r] \in [user : User, time : 0..now]
            /\ users[e] # None
            /\ users[e].password = read[r].user.password
            /\ read[r].user.role = "admin" => [email |-> e, time |-> read[r].time] \in adminTimes

\* A token is for the account, and has the role, that its login read.
TokensAreReadings ==
    \A r \in Requests :
        token[r] # None =>
            token[r].email = call[r].body.email /\ token[r].role = read[r].user.role

\* Clients present tokens that were given out, here or elsewhere.
CallsCarryTokens ==
    \A r \in Requests :
        passage[r] # "new" /\ call[r].route \in {"user", "admin"} =>
            call[r].token \in Issued \cup Foreign

AdminsAreNoted ==
    \A e \in Emails :
        users[e] # None /\ users[e].role = "admin" => [email |-> e, time |-> now] \in adminTimes

GatewayInv ==
    /\ TypeOK
    /\ StagesAreInOrder
    /\ ReadingsAreAccounts
    /\ TokensAreReadings
    /\ CallsCarryTokens
    /\ AdminsAreNoted
    /\ AdminsWereAdmins
    /\ AccountsAreKept
=============================================================================

---------------------------- MODULE Registration ----------------------------
(***************************************************************************)
(* POST /auth/register and POST /auth/login (AuthUsecase), the JWTs they   *)
(* issue, and the JWTAuth middleware that turns a JWT into an actor.       *)
(*                                                                         *)
(* A registration is one transaction: look the email up, insert a team,    *)
(* insert the user, sign a token.  A login is one SELECT on the pool.      *)
(* Nothing but the unique index on users.email keeps two registrations     *)
(* apart: an INSERT waits for any open transaction that has inserted the   *)
(* same email and fails if that one commits.                               *)
(***************************************************************************)
EXTENDS Integers

CONSTANTS
    Requests,   \* HTTP requests; a user and a team carry the name of their maker
    Addresses,  \* emails as clients spell them
    Emails,     \* emails trimmed and in lower case
    Canonical,  \* Canonical[a]: what address a becomes
    Passwords,  \* a password stands for its own bcrypt hash: no two of them
                \* begin with the same 72 bytes
    TooLong,    \* those of more than 72 bytes, which bcrypt does not hash
    TTL,        \* life of a JWT, in instants of the clock
    MaxTime,    \* bound of the clock
    NULL

VARIABLES
    now,        \* the clock
    users,      \* committed rows of users
    teams,      \* committed rows of teams
    pc,         \* pc[r]: the statement r is about to run
    op,         \* op[r]: what r asks for
    wrote,      \* wrote[r]: the tables r's open transaction has inserted into
    token,      \* token[r]: the variable token of Register
    out,        \* out[r]: the result of the usecase, NULL until it is settled
    actor       \* actor[r]: the actor JWTAuth gave request r, or NULL

db   == <<users, teams>>
vars == <<now, db, pc, op, wrote, token, out, actor>>

-----------------------------------------------------------------------------
(* Values *)

User  == [id : Requests, email : Emails, password : Passwords, team : Requests]
Token == [user : Requests, team : Requests, exp : Nat]
Actor == [user : Requests, team : Requests]
Entry == [id : Requests, password : Passwords]
Op    == [kind : {"register", "login"}, email : Emails, password : Passwords]

\* The errors that reach the handler, as mapErr and the usecase leave them.
Errors == {"conflict", "unauthorized", "unique_violation", "failure"}

Result == [err : Errors \cup {"none"}, token : Token \cup {NULL}]

Succeeded(t) == [err |-> "none", token |-> t]
Failed(err)  == [err |-> err, token |-> NULL]

ASSUME NullAssumption ==
    NULL \notin Requests \cup User \cup Token \cup Actor \cup Entry \cup Op \cup Result
ASSUME CanonicalAssumption == Canonical \in [Addresses -> Emails]
ASSUME TooLongAssumption == TooLong \subseteq Passwords
ASSUME TimeAssumption == TTL \in Nat /\ MaxTime \in Nat

PCs == {"idle", "lookup", "insertTeam", "insertUser", "commit", "rollback",
        "find", "reply", "done", "orphan", "lost"}

InClosure == {"lookup", "insertTeam", "insertUser"}

Goto(r, label) == pc' = [pc EXCEPT ![r] = label]

Settle(r, result) == out' = [out EXCEPT ![r] = result]

\* apperr.From: what is neither an AppError nor a domain error is a 500.
StatusOf(err) ==
    CASE err = "conflict"     -> 409
      [] err = "unauthorized" -> 401
      [] OTHER                -> 500

\* The answer the client has got.
Status(r) ==
    IF out[r].err # "none" THEN StatusOf(out[r].err)
    ELSE IF op[r].kind = "register" THEN 201 ELSE 200

\* The tokens clients have been handed.
Handed == {out[r].token : r \in {q \in Requests : pc[q] = "done" /\ out[q] # NULL}} \ {NULL}

Init ==
    /\ now   = 0
    /\ users = {}
    /\ teams = {}
    /\ pc    = [r \in Requests |-> "idle"]
    /\ op    = [r \in Requests |-> NULL]
    /\ wrote = [r \in Requests |-> {}]
    /\ token = [r \in Requests |-> NULL]
    /\ out   = [r \in Requests |-> NULL]
    /\ actor = [r \in Requests |-> NULL]

-----------------------------------------------------------------------------
(* Arrival *)

\* Both usecases trim the address and fold its case before anything else.
Arrive(r, kind, a, password) ==
    /\ pc[r] = "idle"
    /\ op' = [op EXCEPT ![r] = [kind |-> kind, email |-> Canonical[a], password |-> password]]
    /\ Goto(r, IF kind = "register" THEN "lookup" ELSE "find")
    /\ UNCHANGED <<now, db, wrote, token, out, actor>>

\* JWTAuth: the actor is what the claims say, without a look at the database;
\* a token that has expired is a 401.
Authenticate(r, t) ==
    /\ pc[r] = "idle"
    /\ t \in Handed
    /\ actor' = IF now < t.exp THEN [actor EXCEPT ![r] = [user |-> t.user, team |-> t.team]]
                               ELSE actor
    /\ Goto(r, "done")
    /\ UNCHANGED <<now, db, op, wrote, token, out>>

-----------------------------------------------------------------------------
(* Register: one transaction                                               *)

Registered(email) == {u \in users : u.email = email}

\* GetByEmail sees committed users only.
Lookup(r) ==
    /\ pc[r] = "lookup"
    /\ \/ /\ Registered(op[r].email) # {}
          /\ Settle(r, Failed("conflict"))
          /\ Goto(r, "rollback")
       \/ /\ Registered(op[r].email) = {}
          /\ Goto(r, "insertTeam")
          /\ UNCHANGED out
    /\ UNCHANGED <<now, db, op, wrote, token, actor>>

\* Mutant: the team goes through the pool, not the transaction.
InsertTeamOutsideTx(r) ==
    /\ pc[r] = "insertTeam"
    /\ teams' = teams \cup {r}
    /\ wrote' = [wrote EXCEPT ![r] = @ \cup {"teams"}]
    /\ Goto(r, "insertUser")
    /\ UNCHANGED <<now, users, op, token, out, actor>>

InsertTeam(r) ==
    /\ pc[r] = "insertTeam"
    /\ wrote' = [wrote EXCEPT ![r] = @ \cup {"teams"}]
    /\ Goto(r, "insertUser")
    /\ UNCHANGED <<now, db, op, token, out, actor>>

\* Mutant: no unique index, nobody waits.
EmailAlwaysFree(email) == TRUE

\* The unique index makes the INSERT wait for any open transaction that has
\* inserted the email.
EmailFree(email) ==
    \A q \in Requests : "users" \in wrote[q] => op[q].email # email

\* Issue: the claims are the user's, from this instant.
TokenFor(user, team) == [user |-> user, team |-> team, exp |-> now + TTL]

\* The password is hashed, which a long one cannot be.
HashFails(r) ==
    /\ pc[r] = "insertUser"
    /\ op[r].password \in TooLong
    /\ Settle(r, Failed("failure"))
    /\ Goto(r, "rollback")
    /\ UNCHANGED <<now, db, op, wrote, token, actor>>

\* Mutant: ON CONFLICT DO NOTHING, and the token for the identifier it was given.
InsertUserIgnoringConflict(r) ==
    /\ pc[r] = "insertUser"
    /\ op[r].password \notin TooLong
    /\ EmailFree(op[r].email)
    /\ IF Registered(op[r].email) # {}
       THEN UNCHANGED wrote
       ELSE wrote' = [wrote EXCEPT ![r] = @ \cup {"users"}]
    /\ token' = [token EXCEPT ![r] = TokenFor(r, r)]
    /\ Goto(r, "commit")
    /\ UNCHANGED <<now, db, op, out, actor>>

\* Mutant: the token is not kept.
InsertUserNoToken(r) ==
    /\ pc[r] = "insertUser"
    /\ op[r].password \notin TooLong
    /\ EmailFree(op[r].email)
    /\ \/ /\ Registered(op[r].email) # {}
          /\ Settle(r, Failed("unique_violation"))
          /\ Goto(r, "rollback")
          /\ UNCHANGED wrote
       \/ /\ Registered(op[r].email) = {}
          /\ wrote' = [wrote EXCEPT ![r] = @ \cup {"users"}]
          /\ Goto(r, "commit")
          /\ UNCHANGED out
    /\ UNCHANGED <<now, db, op, token, actor>>

\* INSERT INTO users once the email is free: a row committed meanwhile is a
\* unique violation, which mapErr hands on as it is.  Then the token is signed,
\* inside the transaction and before its COMMIT.
InsertUser(r) ==
    /\ pc[r] = "insertUser"
    /\ op[r].password \notin TooLong
    /\ EmailFree(op[r].email)
    /\ \/ /\ Registered(op[r].email) # {}
          /\ Settle(r, Failed("unique_violation"))
          /\ Goto(r, "rollback")
          /\ UNCHANGED <<wrote, token>>
       \/ /\ Registered(op[r].email) = {}
          /\ wrote' = [wrote EXCEPT ![r] = @ \cup {"users"}]
          /\ token' = [token EXCEPT ![r] = TokenFor(r, r)]
          /\ Goto(r, "commit")
          /\ UNCHANGED out
    /\ UNCHANGED <<now, db, op, actor>>

\* The transaction is over: its uncommitted rows are gone.
Release(r) == wrote' = [wrote EXCEPT ![r] = {}]

NewUser(r) ==
    [id |-> r, email |-> op[r].email, password |-> op[r].password, team |-> r]

\* COMMIT takes effect; its acknowledgement may be lost.
Commit(r) ==
    /\ pc[r] = "commit"
    /\ users' = IF "users" \in wrote[r] THEN users \cup {NewUser(r)} ELSE users
    /\ teams' = IF "teams" \in wrote[r] THEN teams \cup {r} ELSE teams
    /\ Release(r)
    /\ \E result \in {Succeeded(token[r]), Failed("failure")} : Settle(r, result)
    /\ Goto(r, "reply")
    /\ UNCHANGED <<now, op, token, actor>>

\* Mutant: InTx drops the error of COMMIT.
FailSilently(r) ==
    /\ pc[r] \in InClosure \cup {"commit"}
    /\ Settle(r, IF pc[r] = "commit" THEN Succeeded(token[r]) ELSE Failed("failure"))
    /\ Goto(r, "rollback")
    /\ UNCHANGED <<now, db, op, wrote, token, actor>>

\* A statement of the closure, or COMMIT itself, fails, or the context is
\* cancelled while it runs or waits.
Fail(r) ==
    /\ pc[r] \in InClosure \cup {"commit"}
    /\ Settle(r, Failed("failure"))
    /\ Goto(r, "rollback")
    /\ UNCHANGED <<now, db, op, wrote, token, actor>>

\* Mutant: the transaction is left open.
RollbackForgotten(r) ==
    /\ pc[r] = "rollback"
    /\ Goto(r, "reply")
    /\ UNCHANGED <<now, db, op, wrote, token, out, actor>>

Rollback(r) ==
    /\ pc[r] = "rollback"
    /\ Release(r)
    /\ Goto(r, "reply")
    /\ UNCHANGED <<now, db, op, token, out, actor>>

-----------------------------------------------------------------------------
(* Login: one SELECT on the pool                                           *)

\* Mutant: the error of Compare is not looked at.
FindAnyPassword(r) ==
    LET found == Registered(op[r].email) IN
    /\ pc[r] = "find"
    /\ \/ \E u \in found : Settle(r, Succeeded(TokenFor(u.id, u.team)))
       \/ found = {} /\ Settle(r, Failed("unauthorized"))
    /\ Goto(r, "reply")
    /\ UNCHANGED <<now, db, op, wrote, token, actor>>

\* GetByEmail, the comparison of the hash (the dummy one if there is no user)
\* and the token.
Find(r) ==
    LET matching == {u \in Registered(op[r].email) : u.password = op[r].password} IN
    /\ pc[r] = "find"
    /\ \/ \E u \in matching : Settle(r, Succeeded(TokenFor(u.id, u.team)))
       \/ matching = {} /\ Settle(r, Failed("unauthorized"))
    /\ Goto(r, "reply")
    /\ UNCHANGED <<now, db, op, wrote, token, actor>>

FindFails(r) ==
    /\ pc[r] = "find"
    /\ Settle(r, Failed("failure"))
    /\ Goto(r, "reply")
    /\ UNCHANGED <<now, db, op, wrote, token, actor>>

-----------------------------------------------------------------------------

Reply(r) ==
    /\ pc[r] = "reply"
    /\ Goto(r, "done")
    /\ UNCHANGED <<now, db, op, wrote, token, out, actor>>

\* The process serving r is killed; PostgreSQL keeps an open transaction
\* until it notices.
Crash(r) ==
    /\ \/ pc[r] \in InClosure \cup {"commit", "rollback"} /\ Goto(r, "orphan")
       \/ pc[r] \in {"find", "reply"} /\ Goto(r, "lost")
    /\ UNCHANGED <<now, db, op, wrote, token, out, actor>>

AbortOrphan(r) ==
    /\ pc[r] = "orphan"
    /\ Release(r)
    /\ Goto(r, "lost")
    /\ UNCHANGED <<now, db, op, token, out, actor>>

Tick ==
    /\ now < MaxTime
    /\ now' = now + 1
    /\ UNCHANGED <<db, pc, op, wrote, token, out, actor>>

\* Every request is over.
Idle ==
    /\ \A r \in Requests : pc[r] \in {"done", "lost"}
    /\ UNCHANGED vars

-----------------------------------------------------------------------------

Register(r) ==
    \/ Lookup(r)
    \/ InsertTeam(r)
    \/ HashFails(r)
    \/ InsertUser(r)
    \/ Commit(r)
    \/ Rollback(r)

Login(r) == Find(r)

\* What the server does for r once it has arrived.
Serve(r) ==
    \/ Register(r)
    \/ Login(r)
    \/ Reply(r)
    \/ AbortOrphan(r)

Next ==
    \/ \E r \in Requests :
        \/ \E kind \in {"register", "login"}, a \in Addresses, p \in Passwords :
               Arrive(r, kind, a, p)
        \/ \E t \in Handed : Authenticate(r, t)
        \/ Serve(r)
        \/ Fail(r)
        \/ FindFails(r)
        \/ Crash(r)
    \/ Tick
    \/ Idle

Spec == Init /\ [][Next]_vars

\* As in IdempotentCreate: goroutines run, PostgreSQL answers or fails every
\* statement and notices dead clients.
FairSpec == Spec /\ \A r \in Requests : WF_vars(Serve(r))

-----------------------------------------------------------------------------
(* What the code guarantees                                                *)

\* The shape of the state; a result is settled before the transaction is left.
TypeOK ==
    /\ now \in 0..MaxTime
    /\ users \subseteq User
    /\ teams \subseteq Requests
    /\ pc \in [Requests -> PCs]
    /\ op \in [Requests -> Op \cup {NULL}]
    /\ wrote \in [Requests -> SUBSET {"teams", "users"}]
    /\ token \in [Requests -> Token \cup {NULL}]
    /\ out \in [Requests -> Result \cup {NULL}]
    /\ actor \in [Requests -> Actor \cup {NULL}]
    /\ \A r \in Requests :
           /\ pc[r] \notin {"idle", "done"} => op[r] \in Op
           /\ pc[r] = "commit" => token[r] \in Token
           /\ pc[r] \in {"rollback", "reply"} => out[r] \in Result

\* An email has one user, although every registration of it that overlaps
\* another finds it free, whoever commits, fails or dies in which order.
OneUserPerEmail ==
    \A u, v \in users : u.email = v.email => u = v

\* Registration is all or nothing: every team has exactly one member, and the
\* team of a registration that was refused or failed is not left behind.
TeamsHaveTheirUser ==
    /\ teams = {u.team : u \in users}
    /\ \A u, v \in users : u.team = v.team => u = v

\* A token in a client's hands, and an actor made from one without a look at
\* the database, is a committed user in its own team: a token signed inside a
\* transaction that did not commit never gets out.  The client is the one who
\* knew the email and the password.
TokensNameUsers ==
    /\ \A r \in Requests :
           pc[r] = "done" /\ out[r] # NULL /\ out[r].err = "none" =>
               [id |-> out[r].token.user, email |-> op[r].email,
                password |-> op[r].password, team |-> out[r].token.team] \in users
    /\ \A r \in Requests :
           actor[r] # NULL =>
               \E u \in users : u.id = actor[r].user /\ u.team = actor[r].team

\* Whoever was told 201 can log in: no login is refused that begins to read
\* after the registration with its email and password was answered.
LoginAfterRegister ==
    [][\A q, r \in Requests :
          /\ pc[q] = "done" /\ out[q] # NULL
          /\ op[q].kind = "register" /\ out[q].err = "none"
          /\ pc[r] = "find" /\ pc'[r] = "reply"
          /\ op[r].email = op[q].email /\ op[r].password = op[q].password
          => out'[r].err # "unauthorized"]_vars

\* Whoever has inserted the email, and however that transaction ends, a
\* request is answered or dies with its process.
EveryRequestEnds ==
    \A r \in Requests : pc[r] \in {"lookup", "find"} ~> pc[r] \in {"done", "lost"}

-----------------------------------------------------------------------------
(* The directory                                                           *)

EntryOf(rows) ==
    IF rows = {} THEN NULL
    ELSE LET u == CHOOSE u \in rows : TRUE IN [id |-> u.id, password |-> u.password]

AnswerOf(r) ==
    IF out[r] = NULL THEN NULL
    ELSE [err  |-> out[r].err,
          user |-> IF out[r].token = NULL THEN NULL ELSE out[r].token.user]

Dir == INSTANCE Directory WITH
    who    <- [e \in Emails |-> EntryOf(Registered(e))],
    asked  <- op,
    answer <- [r \in Requests |-> AnswerOf(r)]

\* Statement by statement, registrations and logins implement the directory.
ImplementsDirectory == Dir!Spec

-----------------------------------------------------------------------------
(* What the documents say and the code does not do                         *)

\* internal/handler/auth_handler.go:23: "@Failure 409": a registration whose
\* email turns out to be taken is told so.
TakenEmailTold409 ==
    \A r \in Requests :
        pc[r] = "done" /\ out[r] # NULL /\ op[r].kind = "register" =>
            (out[r].err \in {"conflict", "unique_violation"} => Status(r) = 409)

=============================================================================

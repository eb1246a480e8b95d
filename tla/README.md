# A TLA+ model of the task management API

This directory specifies, model-checks and proves properties of the Go service
in this repository: a REST API (Gin) over PostgreSQL (pgx, sqlc) in which
members of a team create, list, edit, delete and assign tasks. Paths below are
relative to the repository.

1. [The system](#the-system)
2. [Modules and how they correspond to the code](#modules-and-how-they-correspond-to-the-code)
3. [Runs, bounds and what they show](#runs-bounds-and-what-they-show)
4. [Fairness](#fairness)
5. [Proofs](#proofs)
6. [Where the code and its documents differ](#where-the-code-and-its-documents-differ)
7. [What is not modelled](#what-is-not-modelled)
8. [Plan](#plan)

## The system

The API process keeps almost no state: every request is a goroutine that runs
handler, usecase and repository in turn, and what survives it is in PostgreSQL.
Several processes may serve one database. Interaction is by calls within a
request and by shared tables between requests; there are no background jobs.

| Component | State | Operations | What is hard | What makes it correct |
|---|---|---|---|---|
| Idempotent creation, `POST /tasks` (`usecase/task_usecase.go:41-111`, `repository/pg/idempotency_repo.go`, `db/queries/idempotency.sql`) | `idempotency_keys`, `tasks` | claim the key, insert the task, complete the key, all in one transaction; replay; reclaim after the lease or the window | concurrent calls with one key, failing commits, lost acknowledgements, dying processes, the age of a key against a waiting transaction's `now()` | one task per key and window; key and task commit together; a 201 names a committed task; no key is left in flight |
| Task endpoints by id (`task_usecase.go:113-127, 139-245`, `task_repo.go`, `task_log_repo.go`, `notifier.go`) | `tasks`, `task_logs`, the log | `GET`, `PUT`, `DELETE /tasks/:id` as statements of their own; `POST /tasks/:id/assign` as one transaction with `SELECT ... FOR UPDATE` | a row checked by one statement and written by the next; overlapping assignments; deletion during either; failure after a partial write | the log is an unbroken chain ending at the present assignee; assign is all or nothing; deletion is final; only the entitled write; other teams' tasks are "not found" |
| PostgreSQL (external; as `uow.go` and the queries use it) | row and index locks, transactions | statement, commit, rollback, abort of a dead client's transaction | waits, locks outliving their client | READ COMMITTED, unique keys |
| Listing (`task_usecase.go:125-145`, `task_handler.go:85-130`, `repository/pg/sqlc/tasks.sql.go`) | none | page and limit to offset, `total_pages` | `int32` arithmetic, clamps applied in two places, a list that changes between two pages | each task is served on the page of its place, if that lies within the cap; no page within the cap is refused; a walk misses only what moved |
| Registration and login (`auth_usecase.go`, `user_repo.go`) | `users`, `teams` | register (two inserts in a transaction), login | check-then-insert on the email | one user per email; a team with its user or neither; after a 201 the login works |
| JWT (`auth/jwt.go`, `middleware/auth.go`) | none | issue, check | expiry | the actor of a request is the one the token was issued to |
| Rate limiter (`middleware/ratelimit.go`) | one token bucket per address, in the process | look up or make a bucket, read the clock, take a token | three steps under two mutexes, so a bucket is asked at times that run backwards; a rate that is a fraction | an address gets the burst and what time adds: no more, and no less |
| Request pipeline (`cmd/api/main.go:89-105`, `handler/router.go`, `middleware/*`, `apperr`) | one `gin.Context` per request | CORS, routes, limiter, `JWTAuth`, handler; back up through `ErrorHandler`, `Recovery`, `AccessLog` | aborts, panics and failed writes at any depth: who answers, who still may | one answer per request, logged with its status; errors in the envelope; no usecase for a refused request |
| Connection pool (`repository/pg/pool.go`) | at most 20 connections | a statement takes one and gives it back, a transaction keeps one from BEGIN to its end | requests that wait for a row hold connections; the pool is closed under requests | whoever has a row locked has his connection; every connection comes back |
| Start-up and shutdown (`cmd/api/main.go:44-136`, `config`) | how far `run` has come | connect and ping, listen, signal, `Shutdown` for 10 seconds, close the pool | requests that outlast `Shutdown`, between two statements or in a transaction | the process ends, with no transaction left open |
| Views, DTOs, request ids, logger set-up, security headers; generated docs and clients; mocks and tests | none | formatting | - | - |

## Modules and how they correspond to the code

The unit of interleaving is one SQL statement (or BEGIN, COMMIT, ROLLBACK) of
one request. What a request does between two statements is local, so it is part
of the action of the statement before it. `pc[r]` is the statement that
request `r` is about to run.

**`CreateContract`** - abstract. What a client of `POST /tasks` may rely on:
tasks of one key are more than a window apart, and an answer that names a task
names one that was made for that key. No database.

**`IdempotentCreate`** - `POST /tasks` in detail.

| State or action | Code |
|---|---|
| `row`, `holder` | a row of `idempotency_keys`, and whose transaction has inserted, updated or locked it (`db/migrations/0001_init.up.sql:51-62`) |
| `tasks` | rows made by this endpoint; a task's UUID is the name of the request that made it |
| `claim`, `inserted` | what the open transaction wrote and has not committed |
| `Begin` | handler parses key and body, `InTx` opens the transaction; `start` is its `now()` |
| `AcquireFresh`, `AcquireReclaim`, `AcquireConflict` | the three outcomes of `INSERT ... ON CONFLICT DO UPDATE ... WHERE ... RETURNING (xmax = 0)`; each waits for the slot, and each locks it, the last one too |
| `GetInFlight`, `GetReplay` | `GetIdempotency` and the switch on its result |
| `InsertTask`, `Complete` | the two writes of the work |
| `Commit`, `CommitFails`, `Fail`, `Rollback` | `pgx.BeginTxFunc`; `Commit` may take effect with its acknowledgement lost |
| `Reply` | the handler's answer: a recorded status of 0 is sent as 200 |
| `Crash`, `AbortOrphan` | the process dies; PostgreSQL ends its transaction later |

**`TaskBook`** - abstract. A book in which a task is made, edited, handed over
within its team with a log entry, or removed with its log, each in one step.

**`TaskStore`** - the endpoints by id, in detail.

| State or action | Code |
|---|---|
| `task`, `logs`, `lock` | rows of `tasks`, of `task_logs` by task, and the row lock of `FOR UPDATE` |
| `draft`, `entry` | the uncommitted UPDATE and INSERT of an assignment |
| `seen` | the local `task` of the usecase methods |
| `notified` | `notification.sent` lines, which are written at once |
| `born` | history: the assignee a task was made with; also keeps identifiers from being used twice |
| `Create` | the commit of `POST /tasks` (in detail in `IdempotentCreate`) |
| `Read` | `Tasks.GetByID` with the team check, and the creator check of Delete |
| `WriteUpdate`, `WriteDelete` | the UPDATE and DELETE by id on the pool, each waiting for the row lock |
| `GetForUpdate` ... `Commit` | the closure of `Assign`, statement by statement |
| `PoolFails`, `AssignFails`, `Rollback`, `Crash`, `AbortOrphan`, `Reply` | as above |

A task's title, description, status, priority and due date are one value
(`Data`): no code path tells them apart. A team's users are given by `TeamOf`,
because no statement of the service ever updates `users.team_id`.

**`Directory`** - abstract. A directory with one user per email, in which each
registration and each login takes effect at one instant.

**`Registration`** - `POST /auth/register`, `POST /auth/login` and the tokens.

| State or action | Code |
|---|---|
| `users`, `teams` | committed rows; a user and a team are named after the request that made them |
| `wrote` | the tables the open transaction has inserted into: its user's email is in the unique index, and whoever inserts it too waits |
| `token`, `out` | the variable `token` of `Register`, and what the usecase returns |
| `actor` | what `JWTAuth` puts into the context of a request |
| `Lookup`, `InsertTeam`, `HashFails`, `InsertUser` | the closure of `Register`; the token is signed in the step of the INSERT |
| `Commit`, `Fail`, `Rollback`, `Crash`, `AbortOrphan` | as in `IdempotentCreate` |
| `Find`, `FindFails` | `Login`: one SELECT, the comparison, the token |
| `Authenticate` | `Issuer.Parse` and `JWTAuth` for a token a client was handed |

`Canonical` is the trimming and lower-casing of the address, the same on both
endpoints. A password stands for its hash; those of `TooLong` (more than 72
bytes) bcrypt refuses to hash.

**`Listing`** - `GET /tasks`. A request is one SELECT, so the module is about
numbers and about what changes between two requests of a client.

| State or action | Code |
|---|---|
| `rows`, `created` | the tasks the filters let through, and their `created_at` |
| `Parsed`, `PageOf`, `LimitOf`, `Clamped`, `Offset`, `StatusOf`, `TotalPages` | the arithmetic of `TaskHandler.List` and `TaskUsecase.List`; `MaxInt` is the largest `int32` |
| `Orders`, `Items`, `Total` | `ORDER BY created_at DESC`, the places at which a query may find the rows, since PostgreSQL orders equal times as it likes, in each query anew; `LIMIT OFFSET`; `count(*) OVER ()` |
| `Appear`, `Vanish` | other requests create, change or delete tasks |
| `Jump`, `StartWalk`, `Fetch`, `Fails` | a client asks for some page, or for all of them one after the other |

**`RateLimit`** - the limiter in front of `/auth/*`.

| State or action | Code |
|---|---|
| `limiters`, `bucket` | the map of `IPRateLimiter`, and the `rate.Limiter`s it points to; a bucket is named after the request that made it |
| `Get` | `get`: one critical section of the map's mutex |
| `Clock` | `time.Now()`, an argument of `AllowN` and so read before the bucket's mutex is taken |
| `Allow`, `Refilled` | `AllowN(t, 1)` with `advance` (golang.org/x/time/rate, external): the bucket is written only when there is a token, and then its time becomes `t`, even an earlier one |
| `granted` | history: the times of an address's grants, and how far they have run backwards |

The library counts in `float64`; here a token is `Minute` units, so that the
rate of `PerMinute / 60` a second is exact.

**`Pipeline`** - what happens to a request around its usecase; extends
`RateLimit`, whose steps are those of the requests to `/auth`.

| State or action | Code |
|---|---|
| `ctx` | the request's `gin.Context`: status and body of the writer, `c.Errors`, aborted or not, a panic on its way up, the status in the access log |
| `req`, `stage`, `ran` | what is asked, how far it has come; history: whose usecase was called |
| `SetStatus`, `Write`, `Error`, `Abort`, `AbortWithStatus`, `Flush` | gin (external), as far as the code uses it |
| `Arrive` | everything before the first thing requests share: CORS, the route, `Health`, `JWTAuth` |
| `Limit`, `Decide` | `IPRateLimiter.Middleware` |
| `Redirect`, `Redirects` | a path with a slash too many, which gin's engine redirects before any middleware runs (`gin.New`, `main.go:89`) |
| `Handle`, `Handled` | a handler with its usecase, by what it may leave behind: a view, the empty replay of a key that was reset, 204, an attached error, a view cut off while it was written, a panic |
| `Answer`, `Leave` | the way back through `ErrorHandler`, `Recovery` and `AccessLog`, in the order of `main.go:90-97` |

`SecurityHeaders`, `RequestID` and `/swagger` are left out; `BodyLimit` makes a
body that does not bind, which is one of the handler's errors.

**`TaskServer`** - `TaskStore` in one process with its pool; extends
`TaskStore`, and every action on a request is one of `TaskStore`'s with the
connection it needs.

| State or action | Code |
|---|---|
| `conn` | requests that hold a connection of the pool |
| `phase` | `starting` (`main.go:45-73`), `running`, `draining` (inside `Shutdown`), `closing` (the deferred `pool.Close`), `exited` |
| `TakeConn` | `Acquire`, waiting while the pool is exhausted |
| `PoolStatement` | a statement of `uow.Repos()`: the connection goes back when it is over |
| `TxStatement`, `TxEnd` | `pgx.BeginTxFunc`: BEGIN to COMMIT or ROLLBACK on one connection; BEGIN is part of the first statement |
| `AcquireFails`, `PoolStatementFails`, `TxStatementFails`, `ConnectionCut`, `ReplyLost`, `Die` | the failures of `TaskStore`, each where the pool and the process allow it |
| `Start` ... `Exit` | `run` |

**`MCIdempotentCreate`, `MCTaskStore`, `MCRegistration`, `MCListing`, `MCPipeline`, `MCTaskServer`** give
the constants of TLC runs and the symmetries. Requests and bodies of the first
module are interchangeable; of the second, requests, data and the two members of
one team; of the fourth, tasks; of the fifth, requests and addresses. Runs with
liveness properties use none.

**`IdempotentCreateProofs`, `TaskStoreProofs`, `RegistrationProofs`,
`ListingProofs`, `RateLimitProofs`, `PipelineProofs`, `TaskServerProofs`** hold
the theorems about the modules they are named for, and **`ContractProofs`** those
about the three abstract specifications.

Definitions commented `Mutant:` are plausible mistakes in the action that
follows them. They take part in no specification; putting one in the action's
place breaks the property named with it in `PROJECT.json`, which shows that the
property is sensitive to the code and the instance is large enough to see it.

## Runs, bounds and what they show

| Run | Question | Bounds, and why they are enough |
|---|---|---|
| `create_safety` | Do `OneTaskPerWindow`, `RepliesNameCommittedTask`, `KeyAndTaskTogether`, `InFlightOnlyAfterWindow`, `MismatchFlagged`, `RowKeptForItsTerm` hold, and does the transaction implement `CreateContract`? | Three requests for one key: one makes the task, one reclaims it, one meets the reclaimed row, in any overlap. Two bodies for mismatches. `Lease` 0 and `Window` 1 keep the two terms apart; the clock goes to 3, so that a reclaimed key can be reclaimed again. Keys do not interact (every access is by the primary key), so one is enough; the proofs are for any number. |
| `create_liveness` | Is every request with a key answered, or lost with its process? | Three contenders for the slot, no symmetry. |
| `create_expired_key` | README.md:108 - violated | Two requests. |
| `create_second_call` | README.md:107 - violated | Two requests, clock stopped. |
| `task_safety` | Do `LogChain`, `AssignAllOrNothing`, `ForeignTaskInvisible`, `DeleteIsFinal`, `WritersEntitled` hold, and do the endpoints implement `TaskBook`? | Any two requests of the four kinds by any of three users of two teams on one task, with both data values: every pair of endpoints in every overlap, with failures and crashes. All interference is through one row. |
| `task_liveness` | In one process with its pool, do `ConnectionsReturned`, `StopsCleanly` and `NobodyStuck` hold; does every request end, and the process too? | `TaskServer`: two requests of any kind for one task, and one connection, which is the case the limit is about: it is waited for whenever anybody has it, and after a cut, when it has been replaced, whoever takes it next waits with it for the row that the lost transaction still locks. The safety properties and, under the fairness named below, `EveryRequestEnds` are proved for any number of requests and connections; three requests were too many for the liveness properties in reasonable time. A chain of two waits (for a connection whose holder waits for a row) takes three requests, so it is `Unstuck` in `TaskServerProofs` that covers it. |
| `task_notification` | README.md:100 - violated | One assignment whose commit fails. |
| `register` | Do `OneUserPerEmail`, `TeamsHaveTheirUser`, `TokensNameUsers`, `LoginAfterRegister` hold, do the endpoints implement `Directory`, and is everybody answered whoever has inserted the email? | Two requests of any kind: two registrations race, or a registration is followed or overlapped by a login or by a request with its token. Two spellings of one email and another email, three passwords of which one is too long to be hashed, a token that expires at the last instant. The safety properties and the refinement are proved for any number of requests. |
| `register_taken_email` | auth_handler.go:23 - violated | Two registrations. |
| `list_walk` | Do `PagesServeOnce`, `WithinCapServed`, `WalkMissesFew` hold? | Four tasks at up to three times in any order, ties included, two of which may vanish during the walk. With a cap of 2 the fourth task lies past it when pages hold one task, so `total_pages` counts a page that is refused; pages of two tasks have tied tasks on both sides of a boundary. The limit 3 is clamped to 2, and `MaxInt` 4 makes offsets wrap to values below 0; what is said of the width is proved for any. |
| `list_offset_cap` | README.md:134 - violated | One request. |
| `pipeline` | Do `NeverTooMany`, `NeverTooFew`, `OneAnswer`, `ErrorsInEnvelope`, `OnlyAdmittedRun` hold, and does no bucket hold more than the burst (`PipelineTypeOK`)? | Three requests, so that one address can be refused after its burst of two, also when one of them asks with a time the others have overtaken; two addresses; a rate of two tokens in three instants, so that one instant refills a part of a token. Every route, a path that is redirected and one that does not exist, every origin and token, and every outcome of a handler; of its errors a validation error, a domain error and an unknown one. |

`CHECK_DEADLOCK` is left on everywhere: `Idle` is the only thing a finished
system does, and it is enabled only when every request is over, so a request
stuck for good would be reported (`Answered` in `Pipeline` and `ServerIdle` in
`TaskServer` likewise). `Listing` has no requests to get stuck and goes on as
long as tasks come and go.

Runs without liveness properties check `Spec`, without fairness; `register` and
`task_liveness` check both kinds under fairness, which takes no behaviour of the
safety properties away. The bounds in actions are `MaxTime` (`Tick` stops there) and, in `Listing`, `MaxGone` (tasks that vanish during one walk).

## Fairness

`FairSpec` adds weak fairness of `Serve(r)` for every request: a goroutine that
can run does (the Go scheduler), PostgreSQL answers a statement or fails it, a
lock that stays free is granted, and a backend whose client is gone is ended
(`AbortOrphan`; TCP keepalive). Weak fairness is enough because a lock freed is
taken by one of finitely many requests, each of which runs once. Nothing is
assumed of clients, failures, crashes or the clock.

`ServerFairSpec` of `TaskServer` assumes the same of `ServeOn(r)`, in which a
statement needs its connection first: pgxpool's waiters are a queue, so whoever
waits gets a connection that keeps coming back. A closed pool refuses
(`AcquireFails` in phase `closing`), and a process that ended takes its requests
along (`Die`). Of `run` it assumes that `Shutdown`'s timer fires and that `Close`
returns once every connection is back - not that a signal comes, nor that anybody
is drained in time. No failure is assumed to happen.

## Proofs

`tlapm` checks every theorem for any number of requests, keys, bodies, tasks,
users, teams, emails, addresses and connections, any lease, window, token life, rate
and clock bound, whatever errors handlers attach, and any width of the integers
of `Listing`. The assumptions are
those the modules state: `NULL` is none of the values it is compared with, the
times and the rate are natural numbers, a minute has an instant, the pool has a
connection, `TeamOf` maps users to teams, a `Stranger` is no user,
`Canonical` maps addresses to emails, and in `Listing` the default limit is no
larger than the largest, and that and the cap together are an `int32`.

**`IdempotentCreateProofs`.** The checked invariants are not inductive: that two
commits cannot both install a task follows only from what each transaction
knows while it owns the slot. `Inv` adds three things to `TypeOK`. `LockInv`: a
slot has at most one holder, an open transaction with that key, and whoever is
past the claim is the holder. `WorkInv`: what the transaction has written at
each label, and that the row behind its claim has not changed since it was read;
at `commit` it is about to install its own work on an empty slot, to reset an
expired row, or to change nothing. `StoreInv` and `ReplyInv`: a row exists
exactly when its one task does, and what an answer says stays true because
tasks are not unmade here and `created_at` never changes. One lemma per part
shows that every action preserves it; `Invariance` puts them together, the
theorems `TypeCorrect`, `OneTask`, `HonestReplies`, `Atomicity`, `InFlight` and
`Mismatch` follow from it, `RowKept` is proved action by action from it, and
`Implementation` shows that a commit that installs work is the contract's
`Make`, a 201 its `Answer`, an arrival its `Ask`, and every other step
invisible. `StoreInv` also shows more than the contract asks: no second task is
ever made for a key (`OneTaskEver`), which is the bug of `create_expired_key`.

**`TaskStoreProofs`.** Here the difficulty is that a row is checked by one
statement and written by another. `Inv` adds to `TypeOK` and `LogChain`:
`LockInv` (a locked row has one holder, an assignment of that task that is still
open, and an assignment past its first statement is the holder); `KindInv`
(labels belong to their endpoints); `AssignInv` (what an assignment has read,
drafted and put in its entry at each label, and that the row it read is still
the committed one, which is what the lock is for); `CheckInv` (what an update or a
deletion checked without a lock still holds unless the task is gone, because no
statement changes a task's team or creator); `StoreInv` (a task is there only
after it was made, its log only while it is, and each entry is of a request that
committed and notified); `AnswerInv` (what an answer implies stays true). Most of
the work is saying what a step leaves alone: `Elsewhere` (a step of one request
changes no other request's part), `StoreChange` (only three actions change the
store, and only with the row free or held), `Owned` (while an assignment has its row
that row is changed by nobody else), `Lasting` (team, creator and log outlive
every step that leaves the task). The theorems `TypeCorrect`, `Chain`,
`AllOrNothing`, `Invisible` and `Final` follow from `Invariance`; `Entitled` is proved
action by action; `Implementation` shows that an UPDATE is the book's `Edit`, a
DELETE its `Remove`, the COMMIT of an assignment its `Hand`, and every other
step invisible.

**`RegistrationProofs`.** Two transactions that both found the email free are kept
apart by the unique index alone. `Inv` adds to `TypeOK`: `WorkInv` (what a
registration has inserted at each label, and that its token names its own user
and team); `IndexInv` (at most one open transaction has inserted an email, and
none if a committed user has it); `StoreInv` (the users are exactly those that the
registrations named in `teams` make, with distinct emails); `ResultInv` (what a
settled result says is true of the committed rows, which are never taken back);
`ActorInv`. The theorems `TypeCorrect`, `OneUser`, `TeamAndUser` and `Tokens` follow;
`LetIn` and `Implementation` are proved action by action: a commit is the
directory's `Enrol`, a refusal its `Decline`, a login its `SignIn`.

**`ContractProofs`** says what those three refinements are worth: what `CreateContract`,
`TaskBook` and `Directory` promise holds of every implementation of them, and of
the code in particular. Tasks of one key are a window apart and nobody is told of
another key's task (`CreatePromise`); a task's log leads unbroken from the assignee
it was made with to the one it has, within one team (`BookPromise`); who is let in
came with the email and password of the user they are taken for, and a user
stays (`DirectoryPromise`). Each has an inductive invariant of its own; the only
hypotheses are that `NULL` is none of the values and the window a number.

**`ListingProofs`.** `Inv` says that whatever was answered was computed from the
page and the limit in the state; `CapServed` follows because `int32` arithmetic is exact up
to its largest value (`NoWrap`). `ServedByPlace` is about
the state alone: a query gives every task a place of its own and leaves none
empty (`Places`, `OrderFull`: an injection between sets of one size is onto); the
place lies after the tasks that are newer and within those of its time
(`PlaceBounds`), whatever the order; division puts each place on one page
(`PageNumbers`, `PageOfPlace`). For limits up to the largest `total_pages` reaches
the last place (`LastCounted`); for any limit it counts no empty page
(`CountedPage`), and the offset of a page it counts does not wrap, so the page is
served or refused as the cap says (`CountedServed`).
For `FewMissed` the invariant `WalkInv` counts the tasks
that lie within the pages fetched and were not on them: a task that appears
pushes others back (`AppearMisses`), one that vanishes pulls at most one other over
the boundary (`VanishMisses`), a page served leaves none of its own
(`FetchMisses`), and at the last page everything lies within
(`EndReached`). It also shows that a walk's offsets do not wrap, because the cap
stops it first; that needs the cap and the largest limit to be `int32` together,
as 1000 and 100 are. `CapHolds` bounds the bug of `list_offset_cap`: nothing but an
offset that is no `int32` gets past the cap.

**`RateLimitProofs`.** That a bucket holds between 0 and the burst says nothing of
what was granted. `BalanceInv` relates the bucket to the grants: for every earlier
grant, what is left and what was granted since is at most the burst and what was
gained since, which gives `NotTooMany`; and for one of them it is exactly that,
which gives `NotTooFew` (a refusal means that less than a token is left, so one
more grant would break the bound since that one). It is the second half that makes the
bucket neither leak nor forget. `MapInv` says that all requests of an address use
one bucket. A late request sets the bucket's time back, and what is refilled
between is counted again: `Gained` counts it too (`GainedOnwards`). Products are
kept to lemmas about constants (`Times`, `OneMore`). `GrantsInMinutes` turns the
bound into what an operator would ask: in `n` minutes at most `n + 1` times the rate.

**`PipelineProofs`.** A context goes through up to eight functions. One lemma for each says
field by field what it makes of a context (`StatusSet` ... `Flushed`); `LeaveOK` is the
short list of what can come up from the handlers, and a lemma for each entry shows what
answer it becomes. `PipelineInv` says which of these a request is at each stage,
and what its stage says of the limiter's label. `AnsweredOnce`, `Enveloped` and
`AdmittedOnly` follow; a redirect goes past all of this (`RedirectOK`). `LimiterInside` shows that the pipeline implements
`RateLimit`, so that its theorems hold here as well (`LimitsHold`).

**`TaskServerProofs`.** Every action of the server is written as one of
`TaskStore`'s or as one that leaves its variables alone (`ServerSteps`), so all
theorems of `TaskStoreProofs` carry over (`StoreHolds`). `ServerInv` joins the
invariant of `TaskStoreProofs` with who holds a connection at which label
(`Returned`), that every locked row is free, orphaned or its holder has a connection
(`RowOK`), that nobody has arrived before `run` serves, and, once the process is
gone, that rows are free or orphaned. `LockMoves`, `HolderKept` and `OthersKept`
say what a step of one request does to rows and to the others;
`NobodyHolds` is why an exit with all connections back leaves no row locked.

**Progress.** `IdempotentCreateProofs`, `TaskStoreProofs`, `RegistrationProofs` and
`TaskServerProofs` end with one argument in four forms.

- *Nobody is stuck* (`Unstuck`, `UnstuckRows`): whoever is under way can take a
  step or waits for somebody who can. Rows and index entries give chains of
  one wait, since no transaction locks a second thing. With the pool there are
  two kinds of wait: for a row whose holder, cut off or not, needs no
  connection it does not have, and for a connection whose holder may wait
  for a row. Hence `NobodyStuck` of `TaskServer`: two waits at most.
- *Every step goes forward* (`Forward`, `ServerForward`): each label has a rank, a
  step of a request raises its rank (with the pool, rank and connection together:
  `Effort`) and nobody else's step lowers it. A request makes at most seven steps,
  nineteen with its connections.
- *What is held is given back* (`SlotsFreed`, `RowsFreed`, `EntriesFreed`,
  `ServerRowsFreed`, `PoolComesFree`): a holder is never hindered again, so weak
  fairness takes it from rank to rank to its end; every slot, row, email entry and
  connection is therefore free over and over. (`PoolComesFree` needs the strong form
  of fairness below, since who has a connection may still wait for a row.)
- *Everyone ends* (`EveryoneEnds`, `ServerEveryoneEnds`, stating `EveryRequestEnds`):
  whoever waits for something that comes free over and over gets it if the wait is
  strongly fair, and is then a holder.

The prover cannot evaluate `ENABLED`, so fairness appears there with the action's
guards in its place: `Served(r)` is weak and `Queued(r)` strong fairness of `Serve(r)`
with `Ready(r)` for `ENABLED <<Serve(r)>>_vars`. `FairServes` and `FairQueues` derive the two
from `WF_vars` and `SF_vars` and `[](Ready(r) => ENABLED <<Serve(r)>>_vars)`, which was compared with TLC
on the instances of the runs: `Ready` lists the guards of each disjunct of `Serve`
label by label. The strong form assumes more than the runs' `FairSpec` does. It
is what PostgreSQL's lock queue and pgxpool's queue of waiters give; TLC shows that
on finite instances the weak form is enough, because each of the finitely many others
can pass a waiting request only once. That counting over a set of requests is an
induction the provers cannot do.

**What stays with TLC.** `EveryRequestEnds` from weak fairness alone, as just said, and
`ShutdownEnds`: the theorems give that each connection is back for good once the
process closes, the step to all of them at once is the same induction. The
five violations are TLC's counterexamples.

## Where the code and its documents differ

Shown by a run:

- **An expired key makes no task.** README.md:108 says that after 24 hours the
  key is reclaimable and a new `POST` makes a new task. The upsert does reset the
  row, but a row that was updated has `xmax <> 0`, so `acquired` is false
  (`idempotency_repo.go:38`) and the usecase takes the reset row for a completed
  one: status 0, no body, sent as an empty 200. The key then stays in flight and
  is reset again after each lease; it never makes a task again.
- **A concurrent call is not told 409.** README.md:107. The second upsert waits
  on the unique index and then replays the first call's 201, or does the work
  itself if the first failed. By `InFlightOnlyAfterWindow` a 409 is seen only
  after a reclaim.
- **The notification does not roll back.** README.md:100. It is a log line
  written inside the transaction (`notifier.go:21`). README.md:307 says so too, among
  what was left out on purpose.
- **A taken email is told 500.** `auth_handler.go:23` documents a 409. Of two
  concurrent registrations the second fails on the unique index, `mapErr`
  (`conv.go:17-25`) hands the error on as it is, and `apperr.From` makes it a 500; the
  mock repository returns `ErrConflict` (`mocks.go:88`).
- **The offset cap is not enforced.** README.md:134. `(page - 1) * limit`
  (`task_usecase.go:130`) wraps in 32 bits before it is compared with 1000: page
  42949674 with limit 100 has offset 4.

Read in the code, not claimed by a property:

- `POST /tasks` accepts an assignee of another team (`task_usecase.go:262`); only
  `assign` compares teams.
- `DELETE` of a row that vanished after the check answers 204; the mock
  repository answers not found.
- `total_pages` uses the limit before it is clamped to 100, so with a larger limit
  it is too small, and a total that is 0 past the last page. It does not know the
  cap either: of more than 1000 tasks it counts pages that answer 422.
  `PagesServeOnce` says which counted pages are served, for every limit.
- Passwords of 73 to 128 bytes pass validation (`dto.go:16`) and cannot be hashed:
  registration answers 500 (`HashFails`).
- The body limit is said to answer 413 (`body_limit.go:9`); a body over it fails to
  bind, and the handlers attach a validation error, which is a 422.
- "All errors return the same envelope" (README.md:65). The router's answers are none:
  CORS refuses an origin with an empty 403, and gin answers an unknown route with a
  plain 404. `ErrorsInEnvelope` claims less, what README.md:12 says: what handlers
  and middlewares attach, and a panic.
- "Every request gets a fresh UUID" (README.md:206) and goes through the chain of
  README.md:120. A path with a slash too many (`/healthz/`, `/auth/login/`) is
  redirected by gin's engine with 301 or 307, past every middleware: no id, no line
  in the access log, no CORS, no limiter (`Redirect`; `OneAnswer` names the missing line).
- The limiter allows an address the burst and, over the following minute, as many
  again: up to twice `AUTH_RATE_LIMIT_RPM` in one minute. A late time is refilled
  from twice (`Allow`). Buckets are per process and never removed.
- `pool.Close` waits for connections, not for requests: an answer may be lost
  although its transaction was committed before the process ended.
- A connection that is cut inside a transaction leaves the row locked until PostgreSQL
  notices, while others wait for it with a connection each (`ConnectionCut`).
- Tasks with equal `created_at` may change places between two queries, so a walk
  can miss one although nothing vanished (`WalkMissesFew` asks for distinct times).
- `created_at` of a log row is its transaction's start, so its order may differ
  from the order of commits that `LogChain` speaks of.

## What is not modelled

Views, DTOs, request ids, the set-up of the logger and security headers have no
state that anything else reads; `/swagger` serves files. The map of buckets
grows without bound, but an old bucket that has refilled answers like a new one.
`Pipeline` does not contain the other modules: `Handled` is what their requests
may leave behind. `TaskServer` has the requests of `TaskStore`; those of
`IdempotentCreate` and `Registration` use the pool in the same two ways (one
transaction, or single statements), and `POST /tasks` takes part as its commit.
After `ListenAndServe` has failed, connections accepted before may bring requests to
the closed pool until the process ends; they are left out, as no listener takes new
ones and such a request is given no connection. The pool's idle connections, their lifetime and its health checks replace
connections nobody holds. Of
bcrypt and JWT signatures only what they accept and refuse is modelled. Generated documents and
the mocks were read for what they claim. Of PostgreSQL, only what the queries
rely on is modelled: READ COMMITTED, index waits, row locks, atomic commit;
its foreign keys add no conflict here (users and teams are never deleted).
`IdempotentCreate` and `TaskStore` start from a request with its actor, which
`Registration` shows to be a user in its team. Two instances of
the service differ from one only in that they crash separately, which
`Crash(r)` allows already.

In these models a request runs once; a client's retry is another request with
the same key.

## Plan

In order; all of it is done.

1. `IdempotentCreate`, `TaskStore` with their contracts and runs.
2. Their proofs.
3. `Registration` over `users` and `teams` with `Directory`: runs and proofs.
4. `Listing`: runs and proofs.
5. `RateLimit`: what an address gets, between any two grants; proofs of both bounds.
6. `Pipeline` around it: one answer each; run and proofs.
7. `TaskServer`: the pool and the life of the process around `TaskStore`; run and proofs.
8. Proofs of progress (no deadlock, every step forward, everyone ends) and of what the
   three contracts promise.

What would add most next: `IdempotentCreate` on the pool of `TaskServer`, so
that requests waiting for a key and requests waiting for a row compete for
connections; and a second process on the same database, which `Crash(r)` stands
for now.

-------------------------- MODULE IdempotentCreate --------------------------
(***************************************************************************)
(* POST /tasks: TaskUsecase.Create, the idempotency repository and the     *)
(* PostgreSQL transaction they run in (pgx.BeginTxFunc, READ COMMITTED).   *)
(*                                                                         *)
(* Every request runs one transaction: claim the key, insert the task,     *)
(* complete the key.  Requests interleave statement by statement; a        *)
(* statement may fail, a commit may fail or its acknowledgement be lost,   *)
(* and the server process may die at any point.                            *)
(*                                                                         *)
(* now() is the transaction's start time in PostgreSQL, so the lease and   *)
(* the age of a row are compared with start[r], not with the clock.        *)
(***************************************************************************)
EXTENDS Integers

CONSTANTS
    Requests,   \* HTTP attempts; the UUID of a task is the name of its maker
    Keys,       \* (user_id, idempotency_key) pairs, the table's primary key
    Bodies,     \* request bodies, each standing for its own SHA-256
    Lease,      \* the 30 seconds of lease_expires_at
    Window,     \* the 24 hours after which a completed key is reclaimable
    MaxTime,    \* bound of the clock
    NULL

VARIABLES
    now,        \* the database clock
    row,        \* row[k]: the committed idempotency_keys row of k, or NULL
    tasks,      \* committed rows of the tasks table made by POST /tasks
    holder,     \* holder[k]: the transaction holding the lock on slot k
    pc,         \* pc[r]: where request r stands
    key,        \* key[r], body[r]: what r came with
    body,
    start,      \* start[r]: now() inside r's transaction
    claim,      \* claim[r]: r's uncommitted version of its row, or NULL
    inserted,   \* inserted[r]: r has an uncommitted tasks row
    out,        \* out[r]: the result the closure of r leaves behind
    warned,     \* requests that logged idempotency.body_mismatch
    resp        \* resp[r]: the HTTP answer, or NULL

db      == <<row, tasks>>
request == <<key, body, start>>
vars    == <<now, db, holder, pc, request, claim, inserted, out, warned, resp>>

-----------------------------------------------------------------------------
(* Values *)

\* status_code: 0 is "in flight", 201 "completed".
Row == [hash : Bodies, status : {0, 201}, body : Requests \cup {NULL},
        lease : Int, created : Int]

Result == [status : {0, 201, 409, 500}, body : Requests \cup {NULL}]
Answers == [status : {200, 201, 409, 500}, body : Requests \cup {NULL}]

NoResult     == [status |-> 0,   body |-> NULL]
IdemInFlight == [status |-> 409, body |-> NULL]
Internal     == [status |-> 500, body |-> NULL]

ASSUME NullAssumption == NULL \notin Requests \cup Keys \cup Bodies \cup Row \cup Answers
ASSUME TimeAssumption == Lease \in Nat /\ Window \in Nat /\ MaxTime \in Nat

PCs == {"idle", "acquire", "get", "insert", "complete", "commit",
        "rollback", "reply", "done", "orphan", "lost"}

\* Statements of the closure, each of which may fail.
InClosure == {"acquire", "get", "insert", "complete"}
\* A transaction is open on the server.
InTx == InClosure \cup {"commit", "rollback"}

Goto(r, label) == pc' = [pc EXCEPT ![r] = label]

\* The transaction is over: its lock and its uncommitted writes are gone.
Release(r) ==
    /\ holder' = [k \in Keys |-> IF holder[k] = r THEN NULL ELSE holder[k]]
    /\ claim' = [claim EXCEPT ![r] = NULL]
    /\ inserted' = [inserted EXCEPT ![r] = FALSE]

Init ==
    /\ now      = 0
    /\ row      = [k \in Keys |-> NULL]
    /\ tasks    = {}
    /\ holder   = [k \in Keys |-> NULL]
    /\ pc       = [r \in Requests |-> "idle"]
    /\ key      = [r \in Requests |-> NULL]
    /\ body     = [r \in Requests |-> NULL]
    /\ start    = [r \in Requests |-> 0]
    /\ claim    = [r \in Requests |-> NULL]
    /\ inserted = [r \in Requests |-> FALSE]
    /\ out      = [r \in Requests |-> NoResult]
    /\ warned   = {}
    /\ resp     = [r \in Requests |-> NULL]

-----------------------------------------------------------------------------
(* BEGIN *)

\* Mutant: the handler ignores the error of uuid.Parse.
BeginUnparsedKey(r, k, b) ==
    /\ pc[r] = "idle"
    /\ \E parsed \in {k, NULL} : key' = [key EXCEPT ![r] = parsed]
    /\ body' = [body EXCEPT ![r] = b]
    /\ start' = [start EXCEPT ![r] = now]
    /\ Goto(r, "acquire")
    /\ UNCHANGED <<now, db, holder, claim, inserted, out, warned, resp>>

\* The handler has parsed key and body; InTx opens the transaction.
Begin(r, k, b) ==
    /\ pc[r] = "idle"
    /\ key' = [key EXCEPT ![r] = k]
    /\ body' = [body EXCEPT ![r] = b]
    /\ start' = [start EXCEPT ![r] = now]
    /\ Goto(r, "acquire")
    /\ UNCHANGED <<now, db, holder, claim, inserted, out, warned, resp>>

-----------------------------------------------------------------------------
(* AcquireIdempotency: INSERT ... ON CONFLICT DO UPDATE ... WHERE           *)

\* Mutant: the 24 hours are dropped from the WHERE clause.
ReclaimableAtOnce(rw, t) ==
    \/ rw.status = 0 /\ rw.lease < t
    \/ rw.status # 0 /\ rw.created < t

\* The WHERE clause: an expired lease, or a completed row past its window.
Reclaimable(rw, t) ==
    \/ rw.status = 0 /\ rw.lease < t
    \/ rw.status # 0 /\ rw.created < t - Window

\* Mutant: no unique index, nobody waits.
SlotAlwaysFree(r) == TRUE

\* The unique index makes the statement wait for any transaction that has
\* inserted, updated or merely locked the row and has not ended yet.
SlotFree(r) == holder[key[r]] = NULL

LockSlot(r) == holder' = [holder EXCEPT ![key[r]] = r]

\* No row: it is inserted with the table's defaults (status_code 0,
\* created_at now()); xmax = 0, so acquired is true and work goes on.
AcquireFresh(r) ==
    /\ pc[r] = "acquire"
    /\ SlotFree(r)
    /\ row[key[r]] = NULL
    /\ LockSlot(r)
    /\ claim' = [claim EXCEPT ![r] =
           [hash |-> body[r], status |-> 0, body |-> NULL,
            lease |-> start[r] + Lease, created |-> start[r]]]
    /\ Goto(r, "insert")
    /\ UNCHANGED <<now, db, request, inserted, out, warned, resp>>

\* DO UPDATE applies: the row is reset to in flight, created_at stays.  The
\* tuple was locked before it was updated, so xmax # 0 and acquired is false;
\* the repository reports Completed with the values RETURNING gave, which are
\* the new ones: status 0, no body, the caller's own hash (hence no warning).
AcquireReclaim(r) ==
    /\ pc[r] = "acquire"
    /\ SlotFree(r)
    /\ row[key[r]] # NULL
    /\ Reclaimable(row[key[r]], start[r])
    /\ LockSlot(r)
    /\ claim' = [claim EXCEPT ![r] =
           [hash |-> body[r], status |-> 0, body |-> NULL,
            lease |-> start[r] + Lease, created |-> row[key[r]].created]]
    /\ out' = [out EXCEPT ![r] = NoResult]
    /\ Goto(r, "commit")
    /\ UNCHANGED <<now, db, request, inserted, warned, resp>>

\* The WHERE clause fails: no row is returned, but the row stays locked.
AcquireConflict(r) ==
    /\ pc[r] = "acquire"
    /\ SlotFree(r)
    /\ row[key[r]] # NULL
    /\ ~Reclaimable(row[key[r]], start[r])
    /\ LockSlot(r)
    /\ Goto(r, "get")
    /\ UNCHANGED <<now, db, request, claim, inserted, out, warned, resp>>

\* GetIdempotency after a conflict: in flight is an error of the closure,
\* a completed row is replayed whatever the body of this request.
GetInFlight(r) ==
    /\ pc[r] = "get"
    /\ row[key[r]].status = 0
    /\ out' = [out EXCEPT ![r] = IdemInFlight]
    /\ Goto(r, "rollback")
    /\ UNCHANGED <<now, db, holder, request, claim, inserted, warned, resp>>

\* Mutant: the repository forgets to fill in StoredHash.
GetReplayNoStoredHash(r) ==
    LET stored == row[key[r]] IN
    /\ pc[r] = "get"
    /\ stored.status # 0
    /\ out' = [out EXCEPT ![r] = [status |-> stored.status, body |-> stored.body]]
    /\ warned' = warned \cup {r}
    /\ Goto(r, "commit")
    /\ UNCHANGED <<now, db, holder, request, claim, inserted, resp>>

GetReplay(r) ==
    LET stored == row[key[r]] IN
    /\ pc[r] = "get"
    /\ stored.status # 0
    /\ out' = [out EXCEPT ![r] = [status |-> stored.status, body |-> stored.body]]
    /\ warned' = IF stored.hash # body[r] THEN warned \cup {r} ELSE warned
    /\ Goto(r, "commit")
    /\ UNCHANGED <<now, db, holder, request, claim, inserted, resp>>

-----------------------------------------------------------------------------
(* The work *)

\* Mutant: the task goes through the pool (uow.Repos()), not the transaction.
InsertTaskOutsideTx(r) ==
    /\ pc[r] = "insert"
    /\ tasks' = tasks \cup {r}
    /\ Goto(r, "complete")
    /\ UNCHANGED <<now, row, holder, request, claim, inserted, out, warned, resp>>

InsertTask(r) ==
    /\ pc[r] = "insert"
    /\ inserted' = [inserted EXCEPT ![r] = TRUE]
    /\ Goto(r, "complete")
    /\ UNCHANGED <<now, db, holder, request, claim, out, warned, resp>>

\* Mutant: CompleteIdempotency does not set status_code.
CompleteBodyOnly(r) ==
    /\ pc[r] = "complete"
    /\ claim' = [claim EXCEPT ![r].body = r]
    /\ out' = [out EXCEPT ![r] = [status |-> 201, body |-> r]]
    /\ Goto(r, "commit")
    /\ UNCHANGED <<now, db, holder, request, inserted, warned, resp>>

\* The response bytes recorded are those of the task just inserted.
Complete(r) ==
    /\ pc[r] = "complete"
    /\ claim' = [claim EXCEPT ![r].status = 201, ![r].body = r]
    /\ out' = [out EXCEPT ![r] = [status |-> 201, body |-> r]]
    /\ Goto(r, "commit")
    /\ UNCHANGED <<now, db, holder, request, inserted, warned, resp>>

-----------------------------------------------------------------------------
(* End of the transaction *)

\* Mutant: the claim is not part of the transaction that commits.
CommitWithoutClaim(r) ==
    /\ pc[r] = "commit"
    /\ tasks' = IF inserted[r] THEN tasks \cup {r} ELSE tasks
    /\ Release(r)
    /\ Goto(r, "reply")
    /\ UNCHANGED <<now, row, request, out, warned, resp>>

\* COMMIT takes effect; if its acknowledgement is lost InTx returns an error.
Commit(r) ==
    /\ pc[r] = "commit"
    /\ row' = IF claim[r] # NULL THEN [row EXCEPT ![key[r]] = claim[r]] ELSE row
    /\ tasks' = IF inserted[r] THEN tasks \cup {r} ELSE tasks
    /\ Release(r)
    /\ \E ack \in BOOLEAN : out' = IF ack THEN out ELSE [out EXCEPT ![r] = Internal]
    /\ Goto(r, "reply")
    /\ UNCHANGED <<now, request, warned, resp>>

\* Mutant: InTx drops the error of Commit.
CommitFailsSilently(r) ==
    /\ pc[r] = "commit"
    /\ Goto(r, "rollback")
    /\ UNCHANGED <<now, db, holder, request, claim, inserted, out, warned, resp>>

\* COMMIT never reaches the server, or the server refuses it.
CommitFails(r) ==
    /\ pc[r] = "commit"
    /\ out' = [out EXCEPT ![r] = Internal]
    /\ Goto(r, "rollback")
    /\ UNCHANGED <<now, db, holder, request, claim, inserted, warned, resp>>

\* A statement fails, or the request's context is cancelled while it runs
\* or waits for the lock.
Fail(r) ==
    /\ pc[r] \in InClosure
    /\ out' = [out EXCEPT ![r] = Internal]
    /\ Goto(r, "rollback")
    /\ UNCHANGED <<now, db, holder, request, claim, inserted, warned, resp>>

\* Mutant: the transaction is abandoned, not rolled back.
RollbackForgotten(r) ==
    /\ pc[r] = "rollback"
    /\ Goto(r, "reply")
    /\ UNCHANGED <<now, db, holder, request, claim, inserted, out, warned, resp>>

Rollback(r) ==
    /\ pc[r] = "rollback"
    /\ Release(r)
    /\ Goto(r, "reply")
    /\ UNCHANGED <<now, db, request, out, warned, resp>>

\* gin ignores a status of 0: the answer is then an empty 200.
HTTPStatus(code) == IF code > 0 THEN code ELSE 200

Reply(r) ==
    /\ pc[r] = "reply"
    /\ resp' = [resp EXCEPT ![r] =
           [status |-> HTTPStatus(out[r].status), body |-> out[r].body]]
    /\ Goto(r, "done")
    /\ UNCHANGED <<now, db, holder, request, claim, inserted, out, warned>>

-----------------------------------------------------------------------------
(* The environment *)

\* The process serving r is killed.  The backend keeps the transaction, and
\* its locks, until it notices that the connection is gone.
Crash(r) ==
    /\ \/ pc[r] \in InTx /\ Goto(r, "orphan")
       \/ pc[r] = "reply" /\ Goto(r, "lost")
    /\ UNCHANGED <<now, db, holder, request, claim, inserted, out, warned, resp>>

AbortOrphan(r) ==
    /\ pc[r] = "orphan"
    /\ Release(r)
    /\ Goto(r, "lost")
    /\ UNCHANGED <<now, db, request, out, warned, resp>>

Tick ==
    /\ now < MaxTime
    /\ now' = now + 1
    /\ UNCHANGED <<db, holder, pc, request, claim, inserted, out, warned, resp>>

\* Every request is over: the server idles.
Idle ==
    /\ \A r \in Requests : pc[r] \in {"done", "lost"}
    /\ UNCHANGED vars

-----------------------------------------------------------------------------

Acquire(r) == AcquireFresh(r) \/ AcquireReclaim(r) \/ AcquireConflict(r)
Get(r)     == GetInFlight(r) \/ GetReplay(r)

\* What the server does for r once it has arrived.
Serve(r) ==
    \/ Acquire(r)
    \/ Get(r)
    \/ InsertTask(r)
    \/ Complete(r)
    \/ Commit(r)
    \/ Rollback(r)
    \/ Reply(r)
    \/ AbortOrphan(r)

Next ==
    \/ \E r \in Requests :
        \/ \E k \in Keys, b \in Bodies : Begin(r, k, b)
        \/ Serve(r)
        \/ CommitFails(r)
        \/ Fail(r)
        \/ Crash(r)
    \/ Tick
    \/ Idle

Spec == Init /\ [][Next]_vars

\* Goroutines are scheduled, PostgreSQL answers every statement or fails it,
\* and it notices dead clients.  Nothing makes requests arrive, fail or crash.
FairSpec == Spec /\ \A r \in Requests : WF_vars(Serve(r))

-----------------------------------------------------------------------------
(* What the code guarantees                                                *)

\* The shape of the state: rows, results and answers are the ones the code
\* can write, and only a request that has begun has a key and a body.
TypeOK ==
    /\ now \in 0..MaxTime
    /\ row \in [Keys -> Row \cup {NULL}]
    /\ tasks \subseteq Requests
    /\ holder \in [Keys -> Requests \cup {NULL}]
    /\ pc \in [Requests -> PCs]
    /\ key \in [Requests -> Keys \cup {NULL}]
    /\ body \in [Requests -> Bodies \cup {NULL}]
    /\ \A r \in Requests : IF pc[r] = "idle" THEN key[r] = NULL
                                             ELSE key[r] \in Keys /\ body[r] \in Bodies
    /\ start \in [Requests -> 0..MaxTime]
    /\ claim \in [Requests -> Row \cup {NULL}]
    /\ inserted \in [Requests -> BOOLEAN]
    /\ out \in [Requests -> Result]
    /\ warned \subseteq Requests
    /\ resp \in [Requests -> Answers \cup {NULL}]

\* Two committed tasks of one key are more than a window apart, however the
\* claims of the key interleave, fail, crash or are retried ("exactly one
\* task row is created", README.md:9).
OneTaskPerWindow ==
    \A t, u \in tasks :
        t # u /\ key[t] = key[u] =>
            \/ start[t] + Window < start[u]
            \/ start[u] + Window < start[t]

\* A 201, fresh or replayed, names a task that is committed and was made
\* under the caller's own key: no answer from a transaction that rolled back.
RepliesNameCommittedTask ==
    \A r \in Requests :
        resp[r] # NULL /\ resp[r].status = 201 =>
            /\ resp[r].body \in tasks
            /\ key[resp[r].body] = key[r]

\* The key and the task commit or vanish together: a key has a row exactly
\* when a task was made for it, and a completed row is that task's record.
KeyAndTaskTogether ==
    \A k \in Keys :
        /\ row[k] # NULL <=> \E t \in tasks : key[t] = k
        /\ row[k] # NULL /\ row[k].status = 201 =>
               /\ row[k].body \in tasks
               /\ key[row[k].body] = k
               /\ row[k].created = start[row[k].body]

\* Rolling back with the claim leaves no committed in-flight row behind, so
\* a committed row is in flight only when a key was claimed again after its
\* window, and nobody is told 409 before that.
InFlightOnlyAfterWindow ==
    /\ \A k \in Keys :
           row[k] # NULL /\ row[k].status = 0 =>
               row[k].created + Window + Lease < row[k].lease
    /\ \A r \in Requests :
           resp[r] # NULL /\ resp[r].status = 409 =>
               row[key[r]].created + Window < now

\* A replay is logged as idempotency.body_mismatch exactly when the caller's
\* body is not the one the task was made from.
MismatchFlagged ==
    \A r \in Requests :
        resp[r] # NULL /\ resp[r].status = 201 =>
            (r \in warned <=> body[r] # body[resp[r].body])

\* A committed row is never dropped, and is rewritten only when its lease
\* (in flight) or its window (completed) is over.
RowKeptForItsTerm ==
    [][\A k \in Keys :
          row[k] # NULL /\ row'[k] # row[k] =>
              /\ row'[k] # NULL
              /\ IF row[k].status = 0 THEN row[k].lease < now
                                      ELSE row[k].created + Window < now]_vars

\* Whoever holds the slot, and however that transaction ends, a request that
\* has begun is answered or dies with its process: nobody waits forever.
EveryRequestEnds ==
    \A r \in Requests : pc[r] = "acquire" ~> pc[r] \in {"done", "lost"}

-----------------------------------------------------------------------------
(* The contract                                                            *)

Contract == INSTANCE CreateContract WITH
    asked  <- key,
    at     <- start,
    made   <- [k \in Keys |-> {t \in tasks : key[t] = k}],
    answer <- [r \in Requests |-> IF resp[r] = NULL THEN NULL ELSE resp[r].body]

\* POST /tasks as coded implements the contract of CreateContract.
ImplementsContract == Contract!Spec

-----------------------------------------------------------------------------
(* What the documents say and the code does not do                         *)

\* README.md:108: after 24 hours a fresh POST with the key creates a new task.
ExpiredKeyMakesTask ==
    \A r \in Requests :
        /\ resp[r] # NULL
        /\ resp[r].status < 400
        /\ row[key[r]].created + Window < start[r]
        => r \in tasks

\* README.md:107: a call made while the first is in flight is told 409
\* (or fails: an error, a lost connection).
SecondCallTold409 ==
    \A r \in Requests :
        pc[r] = "acquire" /\ ~SlotFree(r) ~>
            \/ pc[r] = "lost"
            \/ pc[r] = "done" /\ resp[r].status \in {409, 500}

=============================================================================

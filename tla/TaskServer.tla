----------------------------- MODULE TaskServer -----------------------------
(***************************************************************************)
(* TaskStore in the process that runs it: a pool of at most MaxConns       *)
(* connections, started before the first request and closed when the       *)
(* process is told to stop.                                                *)
(*                                                                         *)
(* A statement on the pool takes a connection and gives it back; a         *)
(* transaction keeps the one it began on, also while it waits for a row.   *)
(* A process that stops lets requests finish for a while, then closes the  *)
(* pool under those that are left.                                         *)
(***************************************************************************)
EXTENDS TaskStore, FiniteSets

CONSTANT MaxConns   \* DB_MAX_CONNS

VARIABLES
    conn,       \* the requests that hold a connection
    phase       \* how far run() has come

svars == <<vars, conn, phase>>

\* puddle refuses to make a pool of no connections.
ASSUME PoolAssumption == MaxConns \in Nat \ {0}

Phases == {"starting", "running", "draining", "closing", "exited"}

Alive == phase # "exited"

\* Labels at which a request is inside its transaction.
InTransaction == {"findAssignee", "updateAssignee", "insertLog", "notify", "commit"}

\* A request that is about to take a connection.
Waiting(r) == pc[r] \in {"read", "write", "forUpdate"} /\ r \notin conn

ServerInit ==
    /\ Init
    /\ conn  = {}
    /\ phase = "starting"

-----------------------------------------------------------------------------
(* Requests *)

ServerCreate(t, u, v, d) ==
    /\ phase = "running" /\ Cardinality(conn) < MaxConns
    /\ Create(t, u, v, d)
    /\ UNCHANGED <<conn, phase>>

ServerArrive(r, o) ==
    /\ phase = "running"
    /\ Arrive(r, o)
    /\ UNCHANGED <<conn, phase>>

\* Mutant: a pool without a limit.
TakeConnUnlimited(r) ==
    /\ phase \in {"running", "draining"}
    /\ Waiting(r)
    /\ conn' = conn \cup {r}
    /\ UNCHANGED <<vars, phase>>

\* Acquire waits until a connection is there.
TakeConn(r) ==
    /\ phase \in {"running", "draining"}
    /\ Waiting(r)
    /\ Cardinality(conn) < MaxConns
    /\ conn' = conn \cup {r}
    /\ UNCHANGED <<vars, phase>>

\* A closed pool, a cancelled context, a connection that could not be made.
AcquireFails(r) ==
    /\ Waiting(r)
    /\ PoolFails(r) \/ AssignFails(r)
    /\ UNCHANGED <<conn, phase>>

\* Mutant: the rows of a SELECT are not closed when it found none to work on.
PoolStatementLeaks(r) ==
    /\ r \in conn
    /\ Read(r) \/ WriteUpdate(r) \/ WriteDelete(r)
    /\ conn' = IF out'[r] = 404 THEN conn ELSE conn \ {r}
    /\ UNCHANGED phase

\* A statement on the pool.
PoolStatement(r) ==
    /\ r \in conn
    /\ Read(r) \/ WriteUpdate(r) \/ WriteDelete(r)
    /\ conn' = conn \ {r}
    /\ UNCHANGED phase

PoolStatementFails(r) ==
    /\ r \in conn
    /\ PoolFails(r)
    /\ conn' = conn \ {r}
    /\ UNCHANGED phase

\* Mutant: the assignee is looked up on the pool, beside the transaction.
TxStatementTwoConns(r) ==
    /\ r \in conn
    /\ pc[r] = "findAssignee" => Cardinality(conn) < MaxConns
    /\ GetForUpdate(r) \/ FindAssignee(r) \/ UpdateAssignee(r) \/ InsertLog(r) \/ Notify(r)
    /\ UNCHANGED <<conn, phase>>

\* A statement of the transaction, on the transaction's connection.
TxStatement(r) ==
    /\ r \in conn
    /\ GetForUpdate(r) \/ FindAssignee(r) \/ UpdateAssignee(r) \/ InsertLog(r) \/ Notify(r)
    /\ UNCHANGED <<conn, phase>>

TxStatementFails(r) ==
    /\ r \in conn
    /\ AssignFails(r)
    /\ UNCHANGED <<conn, phase>>

\* Mutant: the connection goes back without a ROLLBACK.
TxEndOpen(r) ==
    /\ Commit(r) \/ RollbackForgotten(r)
    /\ conn' = conn \ {r}
    /\ UNCHANGED phase

\* COMMIT or ROLLBACK, and the connection goes back; if BEGIN got none there
\* is nothing to end.
TxEnd(r) ==
    /\ Commit(r) \/ Rollback(r)
    /\ conn' = conn \ {r}
    /\ UNCHANGED phase

ServerReply(r) ==
    /\ Reply(r)
    /\ UNCHANGED <<conn, phase>>

\* The connection of a transaction is cut: the request is told 500, which
\* TaskStore's Crash does not tell from no answer, and its connection is
\* replaced; PostgreSQL keeps the transaction until it notices.
ConnectionCut(r) ==
    /\ r \in conn
    /\ pc[r] \in InTransaction
    /\ Crash(r)
    /\ conn' = conn \ {r}
    /\ UNCHANGED phase

\* The client is gone, or WriteTimeout has passed: the answer cannot be written.
ReplyLost(r) ==
    /\ pc[r] = "reply"
    /\ Crash(r)
    /\ UNCHANGED <<conn, phase>>

\* The process is gone, and the request with it.
Die(r) ==
    /\ ~Alive
    /\ Crash(r)
    /\ conn' = conn \ {r}
    /\ UNCHANGED phase

ServerAbortOrphan(r) ==
    /\ AbortOrphan(r)
    /\ UNCHANGED <<conn, phase>>

-----------------------------------------------------------------------------
(* run() *)

\* The configuration is loaded and the database answers a ping.
Start ==
    /\ phase = "starting"
    /\ phase' = "running"
    /\ UNCHANGED <<vars, conn>>

\* It does not: run returns before anything listens.
StartFails ==
    /\ phase = "starting"
    /\ phase' = "exited"
    /\ UNCHANGED <<vars, conn>>

\* SIGINT or SIGTERM: Shutdown closes the listener.
Signal ==
    /\ phase = "running"
    /\ phase' = "draining"
    /\ UNCHANGED <<vars, conn>>

\* Shutdown returns: no request is left,
Drained ==
    /\ phase = "draining"
    /\ \A r \in Requests : pc[r] \in {"idle", "done", "lost"}
    /\ phase' = "closing"
    /\ UNCHANGED <<vars, conn>>

\* or its 10 seconds are over.
ShutdownTimesOut ==
    /\ phase = "draining"
    /\ phase' = "closing"
    /\ UNCHANGED <<vars, conn>>

\* ListenAndServe returns an error, which run returns in turn.  What connections
\* accepted before may still ask of the closed pool is left out.
ListenFails ==
    /\ phase = "running"
    /\ phase' = "closing"
    /\ UNCHANGED <<vars, conn>>

\* Mutant: run does not close the pool.
ExitAtOnce ==
    /\ phase = "closing"
    /\ phase' = "exited"
    /\ UNCHANGED <<vars, conn>>

\* The deferred pool.Close waits until every connection is back; then main
\* ends, whoever has not been answered yet.
Exit ==
    /\ phase = "closing"
    /\ conn = {}
    /\ phase' = "exited"
    /\ UNCHANGED <<vars, conn>>

\* Nothing is left to do: no request is under way, and none will come.
ServerIdle ==
    /\ \A r \in Requests :
           \/ pc[r] \in {"done", "lost"}
           \/ pc[r] = "idle" /\ phase \notin {"starting", "running"}
    /\ UNCHANGED svars

-----------------------------------------------------------------------------

\* What goes on for r inside the process.
InProcess(r) ==
    /\ Alive
    /\ \/ TakeConn(r)
       \/ AcquireFails(r)
       \/ PoolStatement(r)
       \/ PoolStatementFails(r)
       \/ TxStatement(r)
       \/ TxStatementFails(r)
       \/ TxEnd(r)
       \/ ConnectionCut(r)
       \/ ServerReply(r)
       \/ ReplyLost(r)

Run ==
    \/ Start
    \/ StartFails
    \/ Signal
    \/ Drained
    \/ ShutdownTimesOut
    \/ ListenFails
    \/ Exit

ServerNext ==
    \/ \E t \in Tasks, u, v \in Users, d \in Data : ServerCreate(t, u, v, d)
    \/ \E r \in Requests :
        \/ \E o \in Op : ServerArrive(r, o)
        \/ InProcess(r)
        \/ Die(r)
        \/ ServerAbortOrphan(r)
    \/ Run
    \/ ServerIdle

ServerSpec == ServerInit /\ [][ServerNext]_svars

\* What is certain to happen for r: nothing that fails, but a closed pool does
\* refuse it.
ServeOn(r) ==
    \/ /\ Alive
       /\ TakeConn(r) \/ PoolStatement(r) \/ TxStatement(r) \/ TxEnd(r) \/ ServerReply(r)
    \/ phase = "closing" /\ AcquireFails(r)
    \/ Die(r)
    \/ ServerAbortOrphan(r)

\* As in TaskStore; a connection that stays free is given to who waits for it
\* (the pool queues them); Shutdown's timer fires and Close returns.
ServerFairSpec ==
    /\ ServerSpec
    /\ \A r \in Requests : WF_svars(ServeOn(r))
    /\ WF_svars(ShutdownTimesOut)
    /\ WF_svars(Exit)

-----------------------------------------------------------------------------
(* What the code guarantees                                                *)

\* The pool never lends more than it has, and to requests only.
ServerTypeOK ==
    /\ conn \subseteq Requests
    /\ Cardinality(conn) <= MaxConns
    /\ phase \in Phases

\* The connection of the transaction that locked the row was cut.
Orphaned(t) == lock[t] # NULL /\ pc[lock[t]] = "orphan"

\* While the process lives, a connection is held by requests that have a
\* statement or a transaction to run, and by every one that is inside its
\* transaction or has a row locked: nobody keeps one back, and nobody waits
\* for one while others wait for his row.
ConnectionsReturned ==
    Alive =>
        /\ \A r \in conn : pc[r] \in InTransaction \cup {"read", "write", "forUpdate", "rollback"}
        /\ \A r \in Requests : pc[r] \in InTransaction => r \in conn
        /\ \A t \in Tasks : Free(t) \/ Orphaned(t) \/ lock[t] \in conn

\* A process that stops, even when its patience ran out, leaves no transaction
\* open behind it but those it had lost already: no row stays locked until
\* PostgreSQL notices that the process is gone.
StopsCleanly ==
    phase = "exited" => \A t \in Tasks : Free(t) \/ Orphaned(t)

\* The request is neither over nor still to come.
Underway(r) == pc[r] \notin {"idle", "done", "lost"}

\* Nobody keeps r from its next step: a row lock and a free connection are all
\* that a step waits for.
Ready(r) ==
    \/ pc[r] = "orphan"
    \/ ~Alive /\ Underway(r)
    \/ Alive /\ pc[r] \in {"commit", "rollback", "reply"}
    \/ Waiting(r) /\ (phase = "closing" \/ Cardinality(conn) < MaxConns)
    \/ r \in conn /\ pc[r] \in InTransaction \cup {"read"}
    \/ r \in conn /\ pc[r] \in {"write", "forUpdate"} /\ Free(op[r].task)

\* q has what r waits for: the row, or one of the connections, all of them out.
WaitsFor(r, q) ==
    /\ Alive
    /\ \/ r \in conn /\ pc[r] \in {"write", "forUpdate"} /\ lock[op[r].task] = q
       \/ Waiting(r) /\ Cardinality(conn) = MaxConns /\ q \in conn

\* Pool and row locks together do not deadlock: whoever is under way can go on
\* or waits for somebody.  The holder of a row, cut off or not, needs neither
\* another row nor another connection; the holder of a connection needs at most
\* a row.
NobodyStuck ==
    /\ \A r \in Requests : Underway(r) => Ready(r) \/ \E q \in Requests : WaitsFor(r, q)
    /\ \A r, q \in Requests :
           WaitsFor(r, q) =>
               \/ Ready(q)
               \/ Waiting(r) /\ \E h \in Requests : WaitsFor(q, h) /\ Ready(h)

\* A process told to stop does, whoever holds rows and connections.
ShutdownEnds == phase \in {"draining", "closing"} ~> phase = "exited"

=============================================================================

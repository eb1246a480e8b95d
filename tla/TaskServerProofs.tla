-------------------------- MODULE TaskServerProofs --------------------------
(***************************************************************************)
(* Proofs about the pool and the life of the process, for any number of    *)
(* requests, tasks and connections.                                        *)
(***************************************************************************)
EXTENDS TaskServer, TaskStoreProofs, FiniteSetTheorems

-----------------------------------------------------------------------------
(* The server is a TaskStore                                               *)

\* A step of request r inside the process, or of what outlives it.
Works(r) == InProcess(r) \/ Die(r) \/ ServerAbortOrphan(r)

\* Every step of the server is one of TaskStore's, or invisible to it.
LEMMA StoreSteps == [ServerNext]_svars => [Next]_vars
  <1> SUFFICES ASSUME [ServerNext]_svars PROVE [Next]_vars
    OBVIOUS
  <1>1. ASSUME NEW t \in Tasks, NEW u \in Users, NEW v \in Users, NEW d \in Data,
               ServerCreate(t, u, v, d)
        PROVE  Next
    BY <1>1 DEF ServerCreate, Next
  <1>2. ASSUME NEW r \in Requests, NEW o \in Op, ServerArrive(r, o) PROVE Next
    BY <1>2 DEF ServerArrive, Next
  <1>3. ASSUME NEW r \in Requests, Works(r) PROVE Next \/ UNCHANGED vars
    <2>1. CASE TakeConn(r)
      BY <2>1 DEF TakeConn
    <2>2. CASE AcquireFails(r) \/ PoolStatementFails(r) \/ TxStatementFails(r)
      BY <2>2 DEF AcquireFails, PoolStatementFails, TxStatementFails, Next
    <2>3. CASE PoolStatement(r)
      BY <2>3 DEF PoolStatement, Next, Serve
    <2>4. CASE TxStatement(r)
      BY <2>4 DEF TxStatement, Next, Serve, Assign
    <2>5. CASE TxEnd(r)
      BY <2>5 DEF TxEnd, Next, Serve, Assign
    <2>6. CASE ConnectionCut(r) \/ ReplyLost(r) \/ Die(r)
      BY <2>6 DEF ConnectionCut, ReplyLost, Die, Next
    <2>7. CASE ServerReply(r) \/ ServerAbortOrphan(r)
      BY <2>7 DEF ServerReply, ServerAbortOrphan, Next, Serve
    <2> QED
      BY <1>3, <2>1, <2>2, <2>3, <2>4, <2>5, <2>6, <2>7 DEF Works, InProcess
  <1>4. CASE Run
    BY <1>4 DEF Run, Start, StartFails, Signal, Drained, ShutdownTimesOut, ListenFails, Exit
  <1>5. CASE ServerIdle \/ UNCHANGED svars
    BY <1>5 DEF ServerIdle, svars
  <1> QED
    BY <1>1, <1>2, <1>3, <1>4, <1>5 DEF ServerNext, Works

\* Every step of the server is written as a step of TaskStore, or as one of the
\* pool or of run() that leaves TaskStore's variables alone.
LEMMA ServerSteps == ServerSpec => Spec
  <1>1. ServerInit => Init
    BY DEF ServerInit
  <1> QED
    BY <1>1, StoreSteps, PTL DEF ServerSpec, Spec

\* So whatever holds of it holds of the server, pool or no pool.
THEOREM StoreHolds ==
    ServerSpec => /\ []LogChain
                  /\ []AssignAllOrNothing
                  /\ []ForeignTaskInvisible
                  /\ []DeleteIsFinal
                  /\ WritersEntitled
                  /\ ImplementsBook
  BY ServerSteps, Chain, AllOrNothing, Invisible, Final, Entitled, Implementation, PTL

-----------------------------------------------------------------------------
(* The inductive invariant                                                 *)

\* The pool's connections are finitely many, and no more than its limit.
PoolInv ==
    /\ IsFiniteSet(conn)
    /\ ServerTypeOK

\* Nothing has arrived before run() serves.
StartInv == phase = "starting" => \A r \in Requests : pc[r] = "idle"

ServerInv == Inv /\ PoolInv /\ StartInv /\ ConnectionsReturned /\ StopsCleanly

LEMMA ServerInitInv == ServerInit => ServerInv
  <1> SUFFICES ASSUME ServerInit PROVE ServerInv
    OBVIOUS
  <1>1. Inv
    BY InitInv DEF ServerInit
  <1>2. PoolInv
    BY FS_EmptySet, PoolAssumption DEF ServerInit, PoolInv, ServerTypeOK, Phases
  <1>3. StartInv /\ ConnectionsReturned /\ StopsCleanly
    BY DEF ServerInit, Init, StartInv, ConnectionsReturned, StopsCleanly, InTransaction, Free
  <1> QED
    BY <1>1, <1>2, <1>3 DEF ServerInv

\* TaskStore's invariant holds after every step of the server.
LEMMA StoreInvKept == Inv /\ [ServerNext]_svars => Inv'
  BY StoreSteps, TypeStep, LockStep, KindStep, AssignStep, CheckStep, StoreStep, ChainStep,
     AnswerStep DEF Inv

\* A connection is taken while one is left, and given back once.
LEMMA PoolStep == ServerInv /\ [ServerNext]_svars => PoolInv'
  <1> SUFFICES ASSUME ServerInv, [ServerNext]_svars PROVE PoolInv'
    OBVIOUS
  <1>1. IsFiniteSet(conn) /\ conn \subseteq Requests /\ Cardinality(conn) <= MaxConns
        /\ Cardinality(conn) \in Nat /\ phase \in Phases
    BY FS_CardinalityType DEF ServerInv, PoolInv, ServerTypeOK
  <1>2. ASSUME NEW r \in Requests, TakeConn(r) PROVE PoolInv'
    <2>1. conn' = conn \cup {r} /\ Cardinality(conn) < MaxConns /\ r \notin conn /\ phase' = phase
      BY <1>2 DEF TakeConn, Waiting
    <2>2. IsFiniteSet(conn') /\ Cardinality(conn') = Cardinality(conn) + 1
      BY <1>1, <2>1, FS_AddElement
    <2> QED
      BY <1>1, <2>1, <2>2, PoolAssumption DEF PoolInv, ServerTypeOK
  <1>3. ASSUME NEW r \in Requests, conn' = conn \ {r}, phase' = phase PROVE PoolInv'
    <2>1. IsFiniteSet(conn') /\ Cardinality(conn') <= Cardinality(conn)
          /\ Cardinality(conn') \in Nat
      <3>1. IsFiniteSet(conn') /\ Cardinality(conn')
                = IF r \in conn THEN Cardinality(conn) - 1 ELSE Cardinality(conn)
        BY <1>1, <1>3, FS_RemoveElement
      <3>2. Cardinality(conn') \in Nat
        BY <3>1, FS_CardinalityType
      <3> QED
        BY <1>1, <3>1, <3>2
    <2> QED
      BY <1>1, <1>3, <2>1, PoolAssumption DEF PoolInv, ServerTypeOK
  <1>4. CASE conn' = conn /\ phase' \in Phases
    BY <1>1, <1>4 DEF PoolInv, ServerTypeOK
  <1>5. ASSUME NEW r \in Requests, Works(r) PROVE PoolInv'
    <2>1. CASE TakeConn(r)
      BY <1>2, <2>1
    <2>2. CASE PoolStatement(r) \/ PoolStatementFails(r) \/ TxEnd(r) \/ ConnectionCut(r) \/ Die(r)
      BY <1>3, <2>2 DEF PoolStatement, PoolStatementFails, TxEnd, ConnectionCut, Die
    <2>3. CASE AcquireFails(r) \/ TxStatement(r) \/ TxStatementFails(r) \/ ServerReply(r)
               \/ ReplyLost(r) \/ ServerAbortOrphan(r)
      BY <1>1, <1>4, <2>3 DEF AcquireFails, TxStatement, TxStatementFails, ServerReply, ReplyLost,
                              ServerAbortOrphan
    <2> QED
      BY <1>5, <2>1, <2>2, <2>3 DEF Works, InProcess
  <1>6. CASE Run
    BY <1>4, <1>6 DEF Run, Start, StartFails, Signal, Drained, ShutdownTimesOut, ListenFails, Exit,
                      Phases
  <1>7. ASSUME NEW t \in Tasks, NEW u \in Users, NEW v \in Users, NEW d \in Data,
               ServerCreate(t, u, v, d)
        PROVE  PoolInv'
    BY <1>1, <1>4, <1>7 DEF ServerCreate
  <1>8. ASSUME NEW r \in Requests, NEW o \in Op, ServerArrive(r, o) PROVE PoolInv'
    BY <1>1, <1>4, <1>8 DEF ServerArrive
  <1>9. CASE ServerIdle \/ UNCHANGED svars
    BY <1>1, <1>4, <1>9 DEF ServerIdle, svars
  <1> QED
    BY <1>5, <1>6, <1>7, <1>8, <1>9 DEF ServerNext, Works

\* A step of a request is one of TaskStore's for it, or takes a connection.
LEMMA WorkIsAct ==
    ASSUME NEW r \in Requests, Works(r)
    PROVE  phase' = phase /\ (Acts(r) \/ (TakeConn(r) /\ UNCHANGED vars))
  BY DEF Works, InProcess, TakeConn, AcquireFails, PoolStatement, PoolStatementFails, TxStatement,
         TxStatementFails, TxEnd, ConnectionCut, ServerReply, ReplyLost, Die, ServerAbortOrphan,
         Acts, Serve, Assign

\* The labels at which a request has a use for a connection.
Busy == InTransaction \cup {"read", "write", "forUpdate", "rollback"}

\* One request's part of ConnectionsReturned.
Returned(r) == (r \in conn => pc[r] \in Busy) /\ (pc[r] \in InTransaction => r \in conn)

\* One row's part of it.
RowOK(t) == Free(t) \/ Orphaned(t) \/ lock[t] \in conn

LEMMA ReturnedAll ==
    ASSUME ConnectionsReturned, Alive
    PROVE  (\A r \in Requests : Returned(r)) /\ (\A t \in Tasks : RowOK(t))
  <1>1. ASSUME NEW r \in Requests PROVE Returned(r)
    BY DEF ConnectionsReturned, Returned, Busy
  <1>2. ASSUME NEW t \in Tasks PROVE RowOK(t)
    BY DEF ConnectionsReturned, RowOK
  <1> QED
    BY <1>1, <1>2

\* A step of one request neither moves another nor takes its connection.
LEMMA OthersKept ==
    ASSUME ServerInv, NEW r \in Requests, Works(r), NEW q \in Requests, q # r
    PROVE  pc'[q] = pc[q] /\ (q \in conn' <=> q \in conn)
  <1>1. pc'[q] = pc[q]
    BY WorkIsAct, Elsewhere DEF ServerInv, Inv, vars
  <1>2. q \in conn' <=> q \in conn
    BY DEF Works, InProcess, TakeConn, AcquireFails, PoolStatement, PoolStatementFails, TxStatement,
           TxStatementFails, TxEnd, ConnectionCut, ServerReply, ReplyLost, Die, ServerAbortOrphan
  <1> QED
    BY <1>1, <1>2

\* Where a step in the living process takes its request.
LEMMA MineKept ==
    ASSUME ServerInv, Alive, NEW r \in Requests, Works(r)
    PROVE  Returned(r)'
  <1>1. Returned(r) /\ pc \in [Requests -> PCs] /\ conn \subseteq Requests
    BY DEF ServerInv, ConnectionsReturned, Returned, Busy, Inv, TypeOK, PoolInv, ServerTypeOK
  <1> USE <1>1 DEF Returned, Busy, InTransaction, PCs, InClosure
  <1>2. CASE TakeConn(r)
    BY <1>2 DEF TakeConn, Waiting, vars
  <1>3. CASE AcquireFails(r)
    <2>1. pc'[r] \in {"reply", "rollback"} /\ conn' = conn /\ r \notin conn
      BY <1>3 DEF AcquireFails, Waiting, PoolFails, AssignFails, Finish, Abandon, Goto
    <2> QED
      BY <2>1
  <1>4. CASE PoolStatement(r) \/ PoolStatementFails(r)
    <2>1. pc'[r] \in {"write", "reply"} /\ r \notin conn'
      BY <1>4 DEF PoolStatement, PoolStatementFails, PoolFails, Read, WriteUpdate, WriteDelete,
                  Finish, Goto
    <2> QED
      BY <2>1
  <1>5. CASE TxStatement(r) \/ TxStatementFails(r)
    <2>1. r \in conn'
      BY <1>5 DEF TxStatement, TxStatementFails
    <2>2. pc'[r] \in {"findAssignee", "updateAssignee", "insertLog", "notify", "commit", "rollback"}
      BY <1>5 DEF TxStatement, TxStatementFails, GetForUpdate, FindAssignee, UpdateAssignee,
                  InsertLog, Notify, AssignFails, Abandon, Goto
    <2> QED
      BY <2>1, <2>2
  <1>6. CASE TxEnd(r)
    <2>1. pc'[r] = "reply" /\ r \notin conn'
      BY <1>6 DEF TxEnd, Commit, Rollback, Finish, Goto
    <2> QED
      BY <2>1
  <1>7. CASE ConnectionCut(r)
    <2>1. pc'[r] \in {"orphan", "lost"} /\ r \notin conn'
      BY <1>7 DEF ConnectionCut, Crash, Goto
    <2> QED
      BY <2>1
  <1>8. CASE ServerReply(r) \/ ReplyLost(r) \/ ServerAbortOrphan(r)
    <2>1. pc[r] \in {"reply", "orphan"} /\ pc'[r] \in {"done", "orphan", "lost"} /\ conn' = conn
      BY <1>8 DEF ServerReply, ReplyLost, ServerAbortOrphan, Reply, Crash, AbortOrphan, Goto
    <2> QED
      BY <2>1
  <1> QED
    BY <1>2, <1>3, <1>4, <1>5, <1>6, <1>7, <1>8 DEF Works, InProcess, Die

\* A lock is taken by a statement of its transaction and given up with it.
LEMMA LockMoves ==
    ASSUME ServerInv, NEW r \in Requests, Works(r), NEW t \in Tasks
    PROVE  \/ lock'[t] = lock[t]
           \/ lock[t] = r /\ lock'[t] = NULL
           \/ Free(t) /\ lock'[t] = r /\ r \in conn'
  <1> USE DEF ServerInv, Inv, TypeOK, tx
  <1>1. CASE TxStatement(r)
    <2>1. r \in conn'
      BY <1>1 DEF TxStatement
    <2>2. CASE GetForUpdate(r)
      BY <2>1, <2>2 DEF GetForUpdate, Free
    <2>3. CASE FindAssignee(r) \/ UpdateAssignee(r) \/ InsertLog(r) \/ Notify(r)
      BY <2>3 DEF FindAssignee, UpdateAssignee, InsertLog, Notify
    <2> QED
      BY <1>1, <2>2, <2>3 DEF TxStatement
  <1>2. CASE TxEnd(r) \/ ServerAbortOrphan(r)
    BY <1>2 DEF TxEnd, ServerAbortOrphan, Commit, Rollback, AbortOrphan, Release
  <1>3. CASE ~TxStatement(r) /\ ~TxEnd(r) /\ ~ServerAbortOrphan(r)
    <2>1. lock' = lock
      BY <1>3 DEF Works, InProcess, TakeConn, AcquireFails, PoolStatement, PoolStatementFails,
                  TxStatementFails, ConnectionCut, ServerReply, ReplyLost, Die, vars,
                  PoolFails, AssignFails, Read, WriteUpdate, WriteDelete, Reply, Crash
    <2> QED
      BY <2>1
  <1> QED
    BY <1>1, <1>2, <1>3

\* A request that holds a lock keeps its connection, gives up the lock or is
\* cut off from both.
LEMMA HolderKept ==
    ASSUME ServerInv, NEW r \in Requests, Works(r), NEW t \in Tasks, lock[t] = r, RowOK(t)
    PROVE  RowOK(t)'
  <1>1. pc[r] \in Owning \cup {"rollback", "orphan"} /\ r # NULL
    BY NullAssumption DEF ServerInv, Inv, LockInv
  <1>2. pc[r] = "orphan" \/ r \in conn
    BY <1>1, NullAssumption DEF RowOK, Free, Orphaned
  <1>3. pc \in [Requests -> PCs] /\ lock \in [Tasks -> Requests \cup {NULL}]
    BY DEF ServerInv, Inv, TypeOK
  <1>4. lock'[t] = NULL \/ lock'[t] = r
    BY LockMoves
  <1>5. CASE TxStatement(r) \/ TxStatementFails(r)
    <2>1. r \in conn'
      BY <1>5 DEF TxStatement, TxStatementFails
    <2> QED
      BY <1>4, <2>1 DEF RowOK, Free
  <1>6. CASE TxEnd(r) \/ ServerAbortOrphan(r)
    <2>1. lock'[t] = NULL
      BY <1>3, <1>6 DEF TxEnd, ServerAbortOrphan, Commit, Rollback, AbortOrphan, Release
    <2> QED
      BY <2>1 DEF RowOK, Free
  <1>7. CASE ConnectionCut(r) \/ Die(r)
    <2>1. pc'[r] = "orphan" /\ lock' = lock
      BY <1>1, <1>3, <1>7 DEF ConnectionCut, Die, Crash, Goto, tx, Owning
    <2> QED
      BY <1>1, <2>1 DEF RowOK, Orphaned
  <1>8. CASE TakeConn(r) \/ AcquireFails(r) \/ PoolStatement(r) \/ PoolStatementFails(r)
             \/ ServerReply(r) \/ ReplyLost(r)
    <2>1. pc[r] \in {"read", "write", "reply"} \/ r \notin conn
      BY <1>8 DEF TakeConn, AcquireFails, Waiting, PoolStatement, PoolStatementFails, PoolFails,
                  Read, WriteUpdate, WriteDelete, ServerReply, Reply, ReplyLost
    <2>2. pc[r] # "orphan"
      BY <1>8 DEF TakeConn, AcquireFails, Waiting, PoolStatement, PoolStatementFails, PoolFails,
                  Read, WriteUpdate, WriteDelete, ServerReply, Reply, ReplyLost
    <2> QED
      BY <1>1, <1>2, <2>1, <2>2 DEF Owning
  <1> QED
    BY <1>5, <1>6, <1>7, <1>8 DEF Works, InProcess

\* Every step of a request leaves every row free, orphaned or with a holder
\* that has its connection.
LEMMA RowsKept ==
    ASSUME ServerInv, NEW r \in Requests, Works(r), NEW t \in Tasks, RowOK(t)
    PROVE  RowOK(t)'
  <1>1. lock[t] \in Requests \cup {NULL}
    BY DEF ServerInv, Inv, TypeOK
  <1>2. CASE lock[t] = r
    BY <1>2, HolderKept
  <1>3. CASE lock[t] = NULL
    <2>1. lock'[t] = NULL \/ lock'[t] \in conn'
      BY <1>3, LockMoves
    <2> QED
      BY <2>1 DEF RowOK, Free
  <1>4. CASE lock[t] \in Requests /\ lock[t] # r
    <2>1. lock'[t] = lock[t]
      BY <1>4, LockMoves, NullAssumption DEF Free
    <2>2. pc'[lock[t]] = pc[lock[t]] /\ (lock[t] \in conn' <=> lock[t] \in conn)
      BY <1>4, OthersKept
    <2> QED
      BY <2>1, <2>2 DEF RowOK, Free, Orphaned
  <1> QED
    BY <1>1, <1>2, <1>3, <1>4

\* One row's part of StopsCleanly.
Left(t) == Free(t) \/ Orphaned(t)

\* Without a process no lock is taken, and an orphan stays one until
\* PostgreSQL notices.
LEMMA LeftKept ==
    ASSUME ServerInv, NEW r \in Requests, Works(r), ~Alive, NEW t \in Tasks, Left(t)
    PROVE  Left(t)'
  <1>1. lock[t] \in Requests \cup {NULL} /\ pc \in [Requests -> PCs]
    BY DEF ServerInv, Inv, TypeOK
  <1>2. CASE Die(r)
    <2>1. lock' = lock /\ pc[r] # "orphan" /\ \A q \in Requests : q # r => pc'[q] = pc[q]
      BY <1>1, <1>2 DEF Die, Crash, Goto, tx, InClosure
    <2> QED
      BY <1>1, <2>1 DEF Left, Free, Orphaned
  <1>3. CASE ServerAbortOrphan(r)
    <2>1. lock'[t] = (IF lock[t] = r THEN NULL ELSE lock[t])
          /\ \A q \in Requests : q # r => pc'[q] = pc[q]
      BY <1>1, <1>3 DEF ServerAbortOrphan, AbortOrphan, Release, Goto
    <2> QED
      BY <1>1, <2>1 DEF Left, Free, Orphaned
  <1> QED
    BY <1>2, <1>3 DEF Works, InProcess

\* Before run() serves no row is locked.
LEMMA NothingLocked ==
    ASSUME ServerInv, phase = "starting", NEW t \in Tasks PROVE Left(t)
  <1>1. lock[t] \in Requests \cup {NULL}
    BY DEF ServerInv, Inv, TypeOK
  <1>2. lock[t] # NULL => pc[lock[t]] \in Owning \cup {"rollback", "orphan"}
    BY DEF ServerInv, Inv, LockInv
  <1>3. \A r \in Requests : pc[r] = "idle"
    BY DEF ServerInv, StartInv
  <1> QED
    BY <1>1, <1>2, <1>3 DEF Left, Free, Owning

\* When everybody has given his connection back no row is left locked.
LEMMA NobodyHolds ==
    ASSUME ServerInv, Alive, conn = {}, NEW t \in Tasks PROVE Left(t)
  <1>1. RowOK(t)
    BY ReturnedAll DEF ServerInv
  <1> QED
    BY <1>1 DEF RowOK, Left

\* The three invariants after a step, from what it leaves of each request and
\* row.
LEMMA LivesOn ==
    ASSUME phase' = phase, phase # "starting", phase # "exited",
           \A r \in Requests : Returned(r)', \A t \in Tasks : RowOK(t)',
           (conn \subseteq Requests)'
    PROVE  (StartInv /\ ConnectionsReturned /\ StopsCleanly)'
  <1>1. ASSUME NEW r \in conn'
        PROVE  pc'[r] \in InTransaction \cup {"read", "write", "forUpdate", "rollback"}
    BY <1>1 DEF Returned, Busy
  <1>2. ASSUME NEW r \in Requests PROVE pc'[r] \in InTransaction => r \in conn'
    BY DEF Returned
  <1>3. ASSUME NEW t \in Tasks PROVE Free(t)' \/ Orphaned(t)' \/ lock'[t] \in conn'
    BY DEF RowOK
  <1>4. ConnectionsReturned'
    BY <1>1, <1>2, <1>3 DEF ConnectionsReturned
  <1>5. StartInv' /\ StopsCleanly'
    BY DEF StartInv, StopsCleanly
  <1> QED
    BY <1>4, <1>5

\* The same when the process is gone.
LEMMA GoneStays ==
    ASSUME phase' = "exited", \A t \in Tasks : Left(t)'
    PROVE  (StartInv /\ ConnectionsReturned /\ StopsCleanly)'
  <1>1. StartInv' /\ ConnectionsReturned'
    BY DEF StartInv, ConnectionsReturned, Alive
  <1>2. StopsCleanly'
    <2>1. ASSUME NEW t \in Tasks PROVE Free(t)' \/ Orphaned(t)'
      BY DEF Left
    <2> QED
      BY <2>1 DEF StopsCleanly
  <1> QED
    BY <1>1, <1>2

\* A request at work keeps them.
LEMMA WorkHolds ==
    ASSUME ServerInv, [ServerNext]_svars, NEW r \in Requests, Works(r)
    PROVE  (StartInv /\ ConnectionsReturned /\ StopsCleanly)'
  <1>1. phase' = phase
    BY WorkIsAct
  <1>2. phase # "starting"
    <2>1. pc[r] # "idle"
      <3>1. CASE TakeConn(r) \/ AcquireFails(r)
        BY <3>1 DEF TakeConn, AcquireFails, Waiting
      <3>2. CASE PoolStatement(r) \/ PoolStatementFails(r)
        BY <3>2 DEF PoolStatement, PoolStatementFails, PoolFails, Read, WriteUpdate, WriteDelete
      <3>3. CASE TxStatement(r) \/ TxStatementFails(r)
        BY <3>3 DEF TxStatement, TxStatementFails, AssignFails, InClosure, GetForUpdate,
                    FindAssignee, UpdateAssignee, InsertLog, Notify
      <3>4. CASE TxEnd(r) \/ ServerReply(r) \/ ServerAbortOrphan(r)
        BY <3>4 DEF TxEnd, ServerReply, ServerAbortOrphan, Commit, Rollback, Reply, AbortOrphan
      <3>5. CASE ConnectionCut(r) \/ ReplyLost(r) \/ Die(r)
        BY <3>5 DEF ConnectionCut, ReplyLost, Die, Crash, InClosure
      <3> QED
        BY <3>1, <3>2, <3>3, <3>4, <3>5 DEF Works, InProcess
    <2> QED
      BY <2>1 DEF ServerInv, StartInv
  <1>3. CASE Alive
    <2>1. ASSUME NEW q \in Requests, q # r PROVE Returned(q)'
      <3>1. Returned(q)
        BY <1>3, ReturnedAll DEF ServerInv
      <3> QED
        BY <2>1, <3>1, OthersKept DEF Returned
    <2>2. ASSUME NEW q \in Requests PROVE Returned(q)'
      BY <1>3, <2>1, MineKept
    <2>3. ASSUME NEW t \in Tasks PROVE RowOK(t)'
      <3>1. RowOK(t)
        BY <1>3, ReturnedAll DEF ServerInv
      <3> QED
        BY <3>1, RowsKept
    <2>4. (conn \subseteq Requests)'
      BY PoolStep DEF PoolInv, ServerTypeOK
    <2> QED
      BY <1>1, <1>2, <1>3, <2>2, <2>3, <2>4, LivesOn DEF Alive
  <1>4. CASE ~Alive
    <2>1. ASSUME NEW t \in Tasks PROVE Left(t)'
      <3>1. Left(t)
        BY <1>4 DEF ServerInv, StopsCleanly, Alive, Left
      <3> QED
        BY <1>4, <3>1, LeftKept
    <2> QED
      BY <1>1, <1>4, <2>1, GoneStays DEF Alive
  <1> QED
    BY <1>3, <1>4

\* So does an arrival: it has neither a connection nor a row.
LEMMA ArrivalHolds ==
    ASSUME ServerInv, [ServerNext]_svars, NEW r \in Requests, NEW o \in Op, ServerArrive(r, o)
    PROVE  (StartInv /\ ConnectionsReturned /\ StopsCleanly)'
  <1>1. /\ phase = "running" /\ phase' = phase /\ conn' = conn /\ lock' = lock /\ pc[r] = "idle"
        /\ pc' = [pc EXCEPT ![r] = IF o.kind = "assign" THEN "forUpdate" ELSE "read"]
    BY DEF ServerArrive, Arrive, Goto, tx
  <1>2. pc \in [Requests -> PCs] /\ lock \in [Tasks -> Requests \cup {NULL}]
    BY DEF ServerInv, Inv, TypeOK
  <1>3. (\A q \in Requests : Returned(q)) /\ (\A t \in Tasks : RowOK(t))
    BY <1>1, ReturnedAll DEF ServerInv, Alive
  <1>4. pc'[r] \in {"read", "forUpdate"} /\ \A q \in Requests : q # r => pc'[q] = pc[q]
    BY <1>1, <1>2
  <1>5. ASSUME NEW q \in Requests PROVE Returned(q)'
    BY <1>1, <1>3, <1>4 DEF Returned, Busy, InTransaction
  <1>6. ASSUME NEW t \in Tasks PROVE RowOK(t)'
    BY <1>1, <1>2, <1>3, <1>4 DEF RowOK, Free, Orphaned
  <1>7. (conn \subseteq Requests)'
    BY PoolStep DEF PoolInv, ServerTypeOK
  <1> QED
    BY <1>1, <1>5, <1>6, <1>7, LivesOn

\* Whatever moves no request, lock or connection keeps the parts.
LEMMA PartsKept ==
    ASSUME pc' = pc, lock' = lock, conn' = conn
    PROVE  /\ \A r \in Requests : Returned(r) => Returned(r)'
           /\ \A t \in Tasks : (RowOK(t) => RowOK(t)') /\ (Left(t) => Left(t)')
  BY DEF Returned, RowOK, Left, Free, Orphaned

\* So does run(): it ends only when nobody holds a connection.
LEMMA RunHolds ==
    ASSUME ServerInv, [ServerNext]_svars, Run
    PROVE  (StartInv /\ ConnectionsReturned /\ StopsCleanly)'
  <1>1. pc' = pc /\ lock' = lock /\ conn' = conn
    BY DEF Run, Start, StartFails, Signal, Drained, ShutdownTimesOut, ListenFails, Exit, vars, tx
  <1>2. CASE StartFails \/ Exit
    <2>1. phase' = "exited"
      BY <1>2 DEF StartFails, Exit
    <2>2. ASSUME NEW t \in Tasks PROVE Left(t)
      BY <1>2, NothingLocked, NobodyHolds DEF StartFails, Exit, Alive
    <2>3. \A t \in Tasks : Left(t)'
      BY <1>1, <2>2, PartsKept
    <2> QED
      BY <2>1, <2>3, GoneStays
  <1>3. CASE Start \/ Signal \/ Drained \/ ShutdownTimesOut \/ ListenFails
    <2>1. phase # "exited" /\ phase' \notin {"starting", "exited"}
      BY <1>3 DEF Start, Signal, Drained, ShutdownTimesOut, ListenFails
    <2>2. ConnectionsReturned'
      BY <1>1, <2>1 DEF ServerInv, ConnectionsReturned, Alive, Free, Orphaned
    <2> QED
      BY <2>1, <2>2 DEF StartInv, StopsCleanly
  <1> QED
    BY <1>2, <1>3 DEF Run

\* Every step of the server keeps them.
LEMMA HoldStep == ServerInv /\ [ServerNext]_svars => (StartInv /\ ConnectionsReturned /\ StopsCleanly)'
  <1> SUFFICES ASSUME ServerInv, [ServerNext]_svars
               PROVE  (StartInv /\ ConnectionsReturned /\ StopsCleanly)'
    OBVIOUS
  <1>1. CASE phase' = phase /\ pc' = pc /\ lock' = lock /\ conn' = conn
    BY <1>1 DEF ServerInv, StartInv, ConnectionsReturned, StopsCleanly, Alive, Free, Orphaned
  <1>2. CASE ServerIdle \/ UNCHANGED svars
    BY <1>1, <1>2 DEF ServerIdle, svars, vars, tx
  <1>3. ASSUME NEW t \in Tasks, NEW u \in Users, NEW v \in Users, NEW d \in Data,
               ServerCreate(t, u, v, d)
        PROVE  (StartInv /\ ConnectionsReturned /\ StopsCleanly)'
    BY <1>1, <1>3 DEF ServerCreate, Create, tx
  <1> QED
    BY <1>2, <1>3, WorkHolds, ArrivalHolds, RunHolds DEF ServerNext, Works

\* The server's invariant, for every instance.
THEOREM ServerInvariance == ServerSpec => []ServerInv
  <1>1. ServerInv /\ [ServerNext]_svars => ServerInv'
    BY StoreInvKept, PoolStep, HoldStep DEF ServerInv
  <1> QED
    BY <1>1, ServerInitInv, PTL DEF ServerSpec

\* Never more than MaxConns connections are out (pgxpool.New, pool.go:11).
THEOREM ServerTypeCorrect == ServerSpec => []ServerTypeOK
  <1>1. ServerInv => ServerTypeOK
    BY DEF ServerInv, PoolInv
  <1> QED
    BY <1>1, ServerInvariance, PTL

\* Every connection and every locked row is with a request that still needs
\* it: the pool and the transactions of uow.go do not lose one.
THEOREM ReturnsConnections == ServerSpec => []ConnectionsReturned
  <1>1. ServerInv => ConnectionsReturned
    BY DEF ServerInv
  <1> QED
    BY <1>1, ServerInvariance, PTL

\* run() leaves no transaction open behind it (main.go:74, :133).
THEOREM CleanStop == ServerSpec => []StopsCleanly
  <1>1. ServerInv => StopsCleanly
    BY DEF ServerInv
  <1> QED
    BY <1>1, ServerInvariance, PTL

-----------------------------------------------------------------------------
(* Nobody is stuck                                                         *)

\* A request whose transaction has the row of t can go on: inside its
\* transaction it has its connection, outside of it it needs none.
LEMMA HolderReady ==
    ASSUME ServerInv, NEW t \in Tasks, ~Free(t)
    PROVE  lock[t] \in Requests /\ Ready(lock[t])
  <1>1. lock[t] \in Requests /\ pc[lock[t]] \in Owning \cup {"rollback", "orphan"}
    BY DEF ServerInv, Inv, TypeOK, LockInv, Free
  <1>2. Alive => Returned(lock[t])
    BY <1>1, ReturnedAll DEF ServerInv
  <1> QED
    BY <1>1, <1>2 DEF Ready, Underway, Returned, Owning, InTransaction

\* A request with a connection can go on unless it waits for a row, whose
\* holder can.
LEMMA ConnectedReady ==
    ASSUME ServerInv, Alive, NEW r \in conn
    PROVE  r \in Requests /\ (Ready(r) \/ \E h \in Requests : WaitsFor(r, h) /\ Ready(h))
  <1>1. r \in Requests
    BY DEF ServerInv, PoolInv, ServerTypeOK
  <1>2. pc[r] \in Busy
    BY <1>1, ReturnedAll DEF ServerInv, Returned
  <1>3. CASE pc[r] \in InTransaction \cup {"read", "rollback"}
    BY <1>1, <1>3 DEF Ready
  <1>4. CASE pc[r] \in {"write", "forUpdate"}
    <2>1. op[r].task \in Tasks
      <3>1. op[r] \in Op
        BY <1>1, <1>4 DEF ServerInv, Inv, TypeOK
      <3> QED
        BY <3>1 DEF Op
    <2>2. CASE Free(op[r].task)
      BY <1>1, <1>4, <2>2 DEF Ready
    <2>3. CASE ~Free(op[r].task)
      BY <1>1, <1>4, <2>1, <2>3, HolderReady DEF WaitsFor
    <2> QED
      BY <2>2, <2>3
  <1> QED
    BY <1>1, <1>2, <1>3, <1>4 DEF Busy

\* When no connection is left somebody has one.
LEMMA SomebodyHolds ==
    ASSUME ServerInv, ~(Cardinality(conn) < MaxConns)
    PROVE  Cardinality(conn) = MaxConns /\ conn # {}
  <1>1. Cardinality(conn) \in Nat /\ Cardinality(conn) <= MaxConns
    BY FS_CardinalityType DEF ServerInv, PoolInv, ServerTypeOK
  <1>2. Cardinality(conn) = MaxConns /\ Cardinality(conn) # 0
    BY <1>1, PoolAssumption
  <1> QED
    BY <1>2, FS_EmptySet

\* Whoever is under way can go on or waits for somebody.
LEMMA GoesOnOrWaits ==
    ASSUME ServerInv, NEW r \in Requests, Underway(r)
    PROVE  Ready(r) \/ \E q \in Requests : WaitsFor(r, q)
  <1>1. CASE ~Alive
    BY <1>1 DEF Ready
  <1>2. CASE Alive /\ r \in conn
    BY <1>2, ConnectedReady
  <1>3. CASE Alive /\ r \notin conn
    <2>1. pc[r] \in PCs /\ Returned(r)
      BY <1>3, ReturnedAll DEF ServerInv, Inv, TypeOK
    <2>2. CASE pc[r] \in {"rollback", "reply", "orphan"}
      BY <1>3, <2>2 DEF Ready
    <2>3. CASE Waiting(r)
      <3>1. CASE Cardinality(conn) < MaxConns
        BY <2>3, <3>1 DEF Ready
      <3>2. CASE ~(Cardinality(conn) < MaxConns)
        <4>1. Cardinality(conn) = MaxConns /\ conn # {} /\ conn \subseteq Requests
          BY <3>2, SomebodyHolds DEF ServerInv, PoolInv, ServerTypeOK
        <4> QED
          BY <1>3, <2>3, <4>1 DEF WaitsFor
      <3> QED
        BY <3>1, <3>2
    <2> QED
      BY <1>3, <2>1, <2>2, <2>3 DEF Underway, Waiting, Returned, InTransaction, PCs, InClosure
  <1> QED
    BY <1>1, <1>2, <1>3

\* Connections and rows do not deadlock, whatever is cut off, killed or shut
\* down: the wait chains of pool.go and GetTaskForUpdate have at most two links
\* and end with somebody who can go on.
THEOREM Unstuck == ServerSpec => []NobodyStuck
  <1>1. ServerInv => NobodyStuck
    <2> SUFFICES ASSUME ServerInv PROVE NobodyStuck
      OBVIOUS
    <2>1. ASSUME NEW r \in Requests, NEW q \in Requests, WaitsFor(r, q)
          PROVE  \/ Ready(q)
                 \/ Waiting(r) /\ \E h \in Requests : WaitsFor(q, h) /\ Ready(h)
      <3>1. CASE r \in conn /\ pc[r] \in {"write", "forUpdate"} /\ lock[op[r].task] = q
        <4>1. op[r].task \in Tasks
          <5>1. op[r] \in Op
            BY <3>1 DEF ServerInv, Inv, TypeOK
          <5> QED
            BY <5>1 DEF Op
        <4>2. ~Free(op[r].task)
          BY <3>1, NullAssumption DEF Free
        <4> QED
          BY <3>1, <4>1, <4>2, HolderReady
      <3>2. CASE Waiting(r) /\ q \in conn
        BY <2>1, <3>2, ConnectedReady DEF WaitsFor
      <3> QED
        BY <2>1, <3>1, <3>2 DEF WaitsFor
    <2> QED
      BY <2>1, GoesOnOrWaits DEF NobodyStuck
  <1> QED
    BY <1>1, ServerInvariance, PTL

\* How far a request has come, and whether it has the connection its next step
\* may need.
Effort(r) == 2 * Rank(pc[r]) + (IF r \in conn THEN 1 ELSE 0)

\* What goes on for a request takes it further, and nothing takes it back: with
\* the waits for connections it makes at most nineteen steps.
EffortGrows ==
    [][\A r \in Requests :
          /\ Effort(r) <= Effort(r)'
          /\ Works(r) => Effort(r) < Effort(r)']_svars

\* Ranks are numbers.
LEMMA RankType == \A label \in PCs : Rank(label) \in 0..9
  BY DEF Rank, PCs, InClosure

\* A step that moves the request outweighs the connection it may give back.
LEMMA MoveGrows ==
    ASSUME NEW r \in Requests, pc[r] \in PCs, pc'[r] \in PCs, Rank(pc[r]) < Rank(pc'[r])
    PROVE  Effort(r) < Effort(r)' /\ Effort(r) <= Effort(r)'
  <1>1. Rank(pc[r]) \in 0..9 /\ Rank(pc'[r]) \in 0..9
    BY RankType
  <1>2. Effort(r)' = 2 * Rank(pc'[r]) + (IF r \in conn' THEN 1 ELSE 0)
    BY DEF Effort
  <1> HIDE DEF Rank
  <1> QED
    BY <1>1, <1>2 DEF Effort

\* Every step takes the request it works for further, and no request back.
LEMMA EffortStep ==
    ASSUME ServerInv, ServerInv', [ServerNext]_svars, NEW r \in Requests
    PROVE  /\ Effort(r) \in 0..19
           /\ Effort(r) <= Effort(r)'
           /\ Works(r) => Effort(r) < Effort(r)'
  <1>1. pc[r] \in PCs /\ pc'[r] \in PCs /\ Rank(pc[r]) \in 0..9 /\ Effort(r) \in Nat
    <2>1. pc[r] \in PCs /\ pc'[r] \in PCs
      BY DEF ServerInv, Inv, TypeOK
    <2>2. Rank(pc[r]) \in 0..9
      BY <2>1, RankType
    <2> QED
      BY <2>1, <2>2 DEF Effort
  <1>2. ASSUME pc'[r] = pc[r], r \in conn' <=> r \in conn PROVE Effort(r)' = Effort(r)
    BY <1>2 DEF Effort
  <1>3. ASSUME Works(r) PROVE Effort(r) < Effort(r)' /\ Effort(r) <= Effort(r)'
    <2>1. CASE Acts(r)
      <3>1. Rank(pc[r]) < Rank(pc'[r])
        BY <2>1, ActsForward DEF ServerInv, Inv
      <3> QED
        BY <1>1, <3>1, MoveGrows
    <2>2. CASE TakeConn(r) /\ UNCHANGED vars
      <3>1. pc' = pc /\ r \notin conn /\ r \in conn'
        BY <2>2 DEF TakeConn, Waiting, vars
      <3> QED
        BY <1>1, <3>1 DEF Effort
    <2> QED
      BY <1>3, <2>1, <2>2, WorkIsAct
  <1>4. ASSUME NEW q \in Requests, Works(q), q # r PROVE Effort(r) <= Effort(r)'
    BY <1>1, <1>2, <1>4, OthersKept
  <1>5. ASSUME NEW q \in Requests, NEW o \in Op, ServerArrive(q, o)
        PROVE  Effort(r) <= Effort(r)'
    <2>1. CASE q = r
      <3>1. Rank(pc[r]) < Rank(pc'[r])
        BY <1>5, <2>1, ArriveForward DEF ServerArrive, ServerInv, Inv
      <3> QED
        BY <1>1, <3>1, MoveGrows
    <2>2. CASE q # r
      BY <1>1, <1>2, <1>5, <2>2, ArriveForward DEF ServerArrive, ServerInv, Inv
    <2> QED
      BY <2>1, <2>2
  <1>6. ASSUME pc' = pc, conn' = conn PROVE Effort(r) <= Effort(r)'
    BY <1>1, <1>2, <1>6
  <1>7. ASSUME Run \/ ServerIdle \/ UNCHANGED svars PROVE Effort(r) <= Effort(r)'
    BY <1>6, <1>7 DEF Run, Start, StartFails, Signal, Drained, ShutdownTimesOut, ListenFails,
                      Exit, ServerIdle, svars, vars
  <1>8. ASSUME NEW t \in Tasks, NEW u \in Users, NEW v \in Users, NEW d \in Data,
               ServerCreate(t, u, v, d)
        PROVE  Effort(r) <= Effort(r)'
    BY <1>6, <1>8 DEF ServerCreate, Create
  <1>9. Works(r) => Effort(r) < Effort(r)'
    BY <1>3
  <1>10. Effort(r) <= Effort(r)'
    BY <1>3, <1>4, <1>5, <1>7, <1>8 DEF ServerNext, Works
  <1>11. Effort(r) \in 0..19
    <2> HIDE DEF Rank
    <2> QED
      BY <1>1 DEF Effort
  <1> QED
    BY <1>9, <1>10, <1>11

\* The server goes forward as TaskStore does, connection by connection.
THEOREM ServerForward == ServerSpec => EffortGrows
  <1>1. ServerInv /\ ServerInv' /\ [ServerNext]_svars =>
            [\A r \in Requests :
                /\ Effort(r) <= Effort(r)'
                /\ Works(r) => Effort(r) < Effort(r)']_svars
    BY EffortStep
  <1> QED
    BY <1>1, ServerInvariance, PTL DEF ServerSpec, EffortGrows

-----------------------------------------------------------------------------
(* Rows and connections come back                                          *)

\* Weak fairness of ServeOn(r), with its guards in the place of ENABLED.
ServedOn(r) == []<>~Ready(r) \/ []<><<ServeOn(r)>>_svars
AllServedOn == \A r \in Requests : ServedOn(r)

\* Strong fairness: who waits for a row or a connection that comes free time
\* after time is given it in the end, as PostgreSQL and the pool queue them.
QueuedOn(r) == <>[]~Ready(r) \/ []<><<ServeOn(r)>>_svars
AllQueuedOn == \A r \in Requests : QueuedOn(r)

\* They are what the two kinds of fairness say, as the guards are all that
\* ServeOn(r) needs.
LEMMA FairServesOn ==
    ASSUME NEW r \in Requests
    PROVE  /\ WF_svars(ServeOn(r)) /\ [](Ready(r) => ENABLED <<ServeOn(r)>>_svars) => ServedOn(r)
           /\ SF_svars(ServeOn(r)) /\ [](Ready(r) => ENABLED <<ServeOn(r)>>_svars) => QueuedOn(r)
  BY PTL DEF ServedOn, QueuedOn

\* What is certain to happen for a request is part of what may.
LEMMA ServingWorks == ASSUME NEW r \in Requests, ServeOn(r) PROVE Works(r)
  BY DEF ServeOn, Works, InProcess, AcquireFails, Alive

\* A process that is gone has no connections.
GoneInv == phase = "exited" => conn = {}

THEOREM GoneHasNone == ServerSpec => []GoneInv
  <1>1. ServerInit => GoneInv
    BY DEF ServerInit, GoneInv
  <1>2. ServerInv /\ GoneInv /\ [ServerNext]_svars => GoneInv'
    <2> SUFFICES ASSUME ServerInv, GoneInv, [ServerNext]_svars PROVE GoneInv'
      OBVIOUS
    <2>1. ASSUME NEW r \in Requests, Works(r) PROVE GoneInv'
      <3>1. phase' = phase
        BY <2>1, WorkIsAct
      <3>2. conn' \subseteq conn \/ phase # "exited"
        BY <2>1 DEF Works, InProcess, Die, ServerAbortOrphan, Alive
      <3> QED
        BY <3>1, <3>2 DEF GoneInv
    <2>2. CASE StartFails
      <3>1. \A r \in conn : r \in Requests /\ pc[r] = "idle" /\ Returned(r)
        BY <2>2, ReturnedAll DEF StartFails, ServerInv, StartInv, PoolInv, ServerTypeOK, Alive
      <3>2. conn = {}
        BY <3>1 DEF Returned, Busy, InTransaction
      <3> QED
        BY <2>2, <3>2 DEF StartFails, GoneInv
    <2>3. CASE Run /\ ~StartFails
      BY <2>3 DEF Run, Start, Signal, Drained, ShutdownTimesOut, ListenFails, Exit, GoneInv
    <2>4. CASE phase' = phase /\ conn' = conn
      BY <2>4 DEF GoneInv
    <2>5. CASE ServerIdle \/ UNCHANGED svars
      BY <2>4, <2>5 DEF ServerIdle, svars
    <2> QED
      BY <2>1, <2>2, <2>3, <2>4, <2>5 DEF ServerNext, Works, ServerCreate, ServerArrive
  <1> QED
    BY <1>1, <1>2, ServerInvariance, PTL DEF ServerSpec

\* Once it has its row, or needs none any more, nothing keeps a request from
\* its end: it has the connection it needs.
LEMMA ServerGoingEnds ==
    ASSUME NEW r \in Requests
    PROVE  []ServerInv /\ [][ServerNext]_svars /\ ServedOn(r) => (Going(r) ~> Came(r, 9))
  <1> DEFINE Goes    == Going(r)
             Past(n) == Came(r, n)
             Ended   == Came(r, 9)
  <1>1. ServerInv /\ Goes => Past(2) /\ (Ended \/ Ready(r))
    <2> SUFFICES ASSUME ServerInv, Goes PROVE Past(2) /\ (Ended \/ Ready(r))
      OBVIOUS
    <2>1. Past(2) /\ (Ended \/ pc[r] \in Owning \cup {"rollback", "reply", "orphan"})
      BY DEF Going, Owning, Came, Rank
    <2>2. Alive => Returned(r)
      BY ReturnedAll DEF ServerInv
    <2> QED
      BY <2>1, <2>2 DEF Ready, Underway, Returned, Owning, InTransaction
  <1>2. ServerInv /\ ServerInv' /\ [ServerNext]_svars /\ Goes =>
            /\ Goes'
            /\ Past(3) => Past(3)'
            /\ Past(4) => Past(4)'
            /\ Past(5) => Past(5)'
            /\ Past(6) => Past(6)'
            /\ Past(7) => Past(7)'
            /\ Past(8) => Past(8)'
            /\ Ended => Ended'
    BY GoingStep, StoreSteps DEF ServerInv
  <1>3. ServerInv /\ ServerInv' /\ [ServerNext]_svars /\ Goes /\ <<ServeOn(r)>>_svars =>
            /\ Past(2) => Past(3)'
            /\ Past(3) => Past(4)'
            /\ Past(4) => Past(5)'
            /\ Past(5) => Past(6)'
            /\ Past(6) => Past(7)'
            /\ Past(7) => Past(8)'
            /\ Past(8) => Ended'
    <2> SUFFICES ASSUME ServerInv, ServerInv', [ServerNext]_svars, Goes, ServeOn(r)
                 PROVE  \A n \in 2..8 : Past(n) => Past(n + 1)'
      OBVIOUS
    <2>1. ~TakeConn(r)
      BY DEF Going, Owning, TakeConn, Waiting
    <2>2. Acts(r)
      BY <2>1, ServingWorks, WorkIsAct
    <2> QED
      BY <2>2, GoingStep, StoreSteps DEF ServerInv
  <1> HIDE DEF Goes, Past, Ended
  <1>4. []ServerInv /\ [][ServerNext]_svars /\ ServedOn(r) => (Goes ~> Ended)
    BY <1>1, <1>2, <1>3, PTL DEF ServedOn
  <1> QED
    BY <1>4 DEF Goes, Ended

\* Fairness holds from any state on.
LEMMA FairForGood ==
    /\ AllServedOn => []AllServedOn
    /\ AllQueuedOn => AllServedOn /\ []AllQueuedOn
  <1>1. ASSUME NEW r \in Requests
        PROVE  /\ ServedOn(r) => []ServedOn(r)
               /\ QueuedOn(r) => ServedOn(r) /\ []QueuedOn(r)
    BY PTL DEF ServedOn, QueuedOn
  <1>2. /\ AllServedOn => \A r \in Requests : []ServedOn(r)
        /\ AllQueuedOn => \A r \in Requests : []QueuedOn(r)
        /\ AllQueuedOn => AllServedOn
    BY <1>1 DEF AllServedOn, AllQueuedOn
  <1>3. /\ (\A r \in Requests : []ServedOn(r)) => []AllServedOn
        /\ (\A r \in Requests : []QueuedOn(r)) => []AllQueuedOn
    BY DEF AllServedOn, AllQueuedOn
  <1> QED
    BY <1>2, <1>3

\* No row is kept, whatever becomes of the connection its transaction is on
\* and of the process.
THEOREM ServerRowsFreed == ServerSpec /\ AllServedOn => \A t \in Tasks : []<>Free(t)
  <1>1. ASSUME NEW t \in Tasks
        PROVE  []ServerInv /\ [][ServerNext]_svars /\ []AllServedOn => []<>Free(t)
    <2> DEFINE HasRow(r) == lock[t] = r
    <2>1. ASSUME NEW r \in Requests
          PROVE  []ServerInv /\ [][ServerNext]_svars /\ ServedOn(r) => (HasRow(r) => <>Free(t))
      <3>1. ServerInv /\ HasRow(r) => Going(r) /\ ~Came(r, 9)
        BY NullAssumption DEF ServerInv, Inv, LockInv, Going, Owning, Came, Rank
      <3>2. ServerInv /\ [ServerNext]_svars /\ HasRow(r) => HasRow(r)' \/ Free(t)'
        BY HolderStep, StoreSteps, NullAssumption DEF ServerInv, Free
      <3> HIDE DEF HasRow
      <3> QED
        BY <3>1, <3>2, ServerGoingEnds, PTL
    <2>2. ServerInv => Free(t) \/ \E r \in Requests : HasRow(r)
      BY DEF ServerInv, Inv, TypeOK, Free
    <2> SUFFICES ASSUME []ServerInv, [][ServerNext]_svars, []AllServedOn PROVE []<>Free(t)
      OBVIOUS
    <2>3. \A r \in Requests : HasRow(r) => <>Free(t)
      <3> SUFFICES ASSUME NEW r \in Requests PROVE HasRow(r) => <>Free(t)
        OBVIOUS
      <3>1. AllServedOn
        BY PTL
      <3>2. ServedOn(r)
        BY <3>1 DEF AllServedOn
      <3> QED
        BY <2>1, <3>2, PTL
    <2>4. ServerInv
      BY PTL
    <2>5. Free(t) \/ <>Free(t)
      BY <2>2, <2>3, <2>4
    <2> QED
      BY <2>5, PTL
  <1> SUFFICES ASSUME ServerSpec, AllServedOn PROVE \A t \in Tasks : []<>Free(t)
    OBVIOUS
  <1>2. []ServerInv /\ [][ServerNext]_svars
    BY ServerInvariance, PTL DEF ServerSpec
  <1>3. []AllServedOn
    BY FairForGood
  <1> QED
    BY <1>1, <1>2, <1>3

\* A connection is there for who asks for one.
Room == Cardinality(conn) < MaxConns

\* Who returns a connection makes room.
LEMMA RoomStep ==
    ASSUME ServerInv, [ServerNext]_svars, NEW r \in conn
    PROVE  r \in conn' \/ Room'
  <1>1. IsFiniteSet(conn) /\ conn \subseteq Requests /\ Cardinality(conn) <= MaxConns
    BY DEF ServerInv, PoolInv, ServerTypeOK
  <1>2. ASSUME conn' = conn \ {r} PROVE Room'
    <2>1. Cardinality(conn \ {r}) = Cardinality(conn) - 1 /\ Cardinality(conn) \in Nat
      BY <1>1, FS_RemoveElement, FS_CardinalityType
    <2>2. Cardinality(conn') < MaxConns
      BY <1>1, <1>2, <2>1, PoolAssumption
    <2> QED
      BY <2>2 DEF Room
  <1>3. ASSUME NEW q \in Requests, Works(q), q # r PROVE r \in conn'
    BY <1>1, <1>3, OthersKept
  <1>4. ASSUME Works(r) PROVE r \in conn' \/ conn' = conn \ {r}
    BY <1>4 DEF Works, InProcess, TakeConn, AcquireFails, PoolStatement, PoolStatementFails,
                TxStatement, TxStatementFails, TxEnd, ConnectionCut, ServerReply, ReplyLost, Die,
                ServerAbortOrphan
  <1>5. ASSUME Run \/ ServerIdle \/ UNCHANGED svars PROVE conn' = conn
    BY <1>5 DEF Run, Start, StartFails, Signal, Drained, ShutdownTimesOut, ListenFails, Exit,
                ServerIdle, svars
  <1>6. ASSUME NEW q \in Requests, NEW o \in Op, ServerArrive(q, o) PROVE conn' = conn
    BY <1>6 DEF ServerArrive
  <1>7. ASSUME NEW t \in Tasks, NEW u \in Users, NEW v \in Users, NEW d \in Data,
               ServerCreate(t, u, v, d)
        PROVE  conn' = conn
    BY <1>7 DEF ServerCreate
  <1> QED
    BY <1>1, <1>2, <1>3, <1>4, <1>5, <1>6, <1>7 DEF ServerNext, Works

\* r has made at least n of its steps.
Spent(r, n) == Effort(r) >= n

LEMMA SpentStep ==
    ASSUME ServerInv, ServerInv', [ServerNext]_svars, NEW r \in Requests
    PROVE  /\ \A n \in 2..6 : Spent(r, n) => Spent(r, n)'
           /\ ServeOn(r) => \A n \in 2..5 : Spent(r, n) => Spent(r, n + 1)'
  <1> DEFINE from == Effort(r)
             to   == Effort(r)'
  <1>1. from \in 0..19 /\ from <= to /\ (ServeOn(r) => from < to)
    BY EffortStep, ServingWorks
  <1>2. to \in Nat
    <2>1. pc'[r] \in PCs
      BY DEF ServerInv, Inv, TypeOK
    <2>2. Rank(pc'[r]) \in 0..9
      BY <2>1, RankType
    <2>3. to = 2 * Rank(pc'[r]) + (IF r \in conn' THEN 1 ELSE 0)
      BY DEF Effort
    <2> HIDE DEF Rank, to
    <2> QED
      BY <2>2, <2>3
  <1> SUFFICES /\ \A n \in 2..6 : from >= n => to >= n
               /\ ServeOn(r) => \A n \in 2..5 : from >= n => to >= n + 1
    BY DEF Spent
  <1> HIDE DEF from, to
  <1> QED
    BY <1>1, <1>2

\* Where a request stands that has still to get at its row, and what it needs
\* to go on: its row if it has a connection, a connection if it has none.
LEMMA ServerWaiting ==
    ASSUME NEW r \in Requests, NEW t \in Tasks, WaitsAt(r, t)
    PROVE  /\ Spent(r, 2) /\ ~Spent(r, 6)
           /\ r \in conn => Spent(r, 3) /\ (Spent(r, 4) => Spent(r, 5))
           /\ r \notin conn => (Spent(r, 3) => Spent(r, 4)) /\ ~Spent(r, 5)
           /\ r \in conn /\ Free(t) => Ready(r)
           /\ r \notin conn /\ Room => Ready(r)
  <1>1. Rank(pc[r]) \in {1, 2}
    BY DEF WaitsAt, Rank
  <1>2. /\ r \in conn => Effort(r) \in {3, 5}
        /\ r \notin conn => Effort(r) \in {2, 4}
    BY <1>1 DEF Effort
  <1>3. /\ r \in conn /\ Free(t) => Ready(r)
        /\ r \notin conn /\ Room => Ready(r)
    BY DEF WaitsAt, Ready, Waiting, Room
  <1> QED
    BY <1>2, <1>3 DEF Spent

\* r has one of the pool's connections.
Lent(r) == r \in conn

\* When a request is over it has no connection.
LEMMA OverHasNone ==
    ASSUME ServerInv, GoneInv, NEW r \in Requests, Came(r, 9)
    PROVE  pc[r] \in {"done", "lost"} /\ ~Lent(r)
  <1>1. pc[r] \in {"done", "lost"}
    BY DEF ServerInv, Inv, TypeOK, PCs, InClosure, Came, Rank
  <1>2. Alive => ~Lent(r)
    BY <1>1, ReturnedAll DEF ServerInv, Returned, Busy, InTransaction, Lent
  <1> QED
    BY <1>1, <1>2 DEF GoneInv, Alive, Lent

\* Who has a connection gives it back, and who waits ends, if the row and a
\* connection come free time after time.
LEMMA ServerWaitingEnds ==
    ASSUME NEW r \in Requests, NEW t \in Tasks
    PROVE  []ServerInv /\ []GoneInv /\ [][ServerNext]_svars /\ QueuedOn(r) /\ []<>Free(t) =>
               /\ [](WaitsAt(r, t) => (Lent(r) => <>~Lent(r)))
               /\ []<>Room => [](WaitsAt(r, t) => <>(pc[r] \in {"done", "lost"}))
  <1> DEFINE Waits    == WaitsAt(r, t)
             Over     == pc[r] \in {"done", "lost"}
             Has      == Lent(r)
             Steps(n) == Spent(r, n)
  <1>1. Waits => /\ Steps(2) /\ ~Steps(6)
                 /\ Has => Steps(3) /\ (Steps(4) => Steps(5))
                 /\ ~Has => (Steps(3) => Steps(4)) /\ ~Steps(5)
                 /\ Has /\ Free(t) => Ready(r)
                 /\ ~Has /\ Room => Ready(r)
    BY ServerWaiting DEF Lent
  <1>2. ServerInv /\ ServerInv' /\ [ServerNext]_svars =>
            /\ Waits => Waits' \/ Going(r)'
            /\ Steps(2) => Steps(2)'
            /\ Steps(3) => Steps(3)'
            /\ Steps(4) => Steps(4)'
            /\ Steps(5) => Steps(5)'
            /\ <<ServeOn(r)>>_svars =>
                   /\ Steps(2) => Steps(3)'
                   /\ Steps(3) => Steps(4)'
                   /\ Steps(4) => Steps(5)'
                   /\ Steps(5) => Steps(6)'
    <2> SUFFICES ASSUME ServerInv, ServerInv', [ServerNext]_svars
                 PROVE  /\ Waits => Waits' \/ Going(r)'
                        /\ \A n \in 2..6 : Steps(n) => Steps(n)'
                        /\ ServeOn(r) => \A n \in 2..5 : Steps(n) => Steps(n + 1)'
      OBVIOUS
    <2>1. Waits => Waits' \/ Going(r)'
      BY WaitingStep, StoreSteps DEF ServerInv
    <2> QED
      BY <2>1, SpentStep
  <1>3. ServerInv /\ GoneInv => (Came(r, 9) => Over /\ ~Has)
    BY OverHasNone
  <1>4. []ServerInv /\ [][ServerNext]_svars /\ ServedOn(r) => (Going(r) ~> Came(r, 9))
    BY ServerGoingEnds
  <1>5. QueuedOn(r) => ServedOn(r)
    BY PTL DEF QueuedOn, ServedOn
  <1>6. []ServerInv /\ []GoneInv /\ [][ServerNext]_svars /\ QueuedOn(r) /\ []<>Free(t) =>
            /\ [](Waits => (Has => <>~Has))
            /\ []<>Room => [](Waits => <>Over)
    <2> HIDE DEF Waits, Over, Has, Steps
    <2>1. []ServerInv /\ []GoneInv /\ [][ServerNext]_svars /\ QueuedOn(r) /\ []<>Free(t) =>
              [](Waits => (Has => <>~Has))
      BY <1>1, <1>2, <1>3, <1>4, <1>5, PTL DEF QueuedOn
    <2>2. []ServerInv /\ []GoneInv /\ [][ServerNext]_svars /\ QueuedOn(r) /\ []<>Free(t) =>
              ([]<>Room => [](Waits => <>Over))
      BY <1>1, <1>2, <1>3, <1>4, <1>5, PTL DEF QueuedOn
    <2> QED
      BY <2>1, <2>2
  <1> QED
    BY <1>6 DEF Waits, Over, Has

\* Once the pool is being closed nobody is lent a connection any more.
LEMMA ClosingLendsNone ==
    ASSUME [ServerNext]_svars, NEW r \in Requests, phase \in {"closing", "exited"}
    PROVE  phase' \in {"closing", "exited"} /\ (~Lent(r) => ~Lent(r)')
  <1>1. ASSUME NEW q \in Requests, Works(q) PROVE phase' = phase /\ conn' \subseteq conn
    BY <1>1, WorkIsAct
       DEF Works, InProcess, TakeConn, AcquireFails, PoolStatement, PoolStatementFails, TxStatement,
           TxStatementFails, TxEnd, ConnectionCut, ServerReply, ReplyLost, Die, ServerAbortOrphan
  <1>2. ASSUME NEW t \in Tasks, NEW u \in Users, NEW v \in Users, NEW d \in Data,
               ServerCreate(t, u, v, d)
        PROVE  phase' = phase /\ conn' = conn
    BY <1>2 DEF ServerCreate
  <1>3. ASSUME NEW q \in Requests, NEW o \in Op, ServerArrive(q, o)
        PROVE  phase' = phase /\ conn' = conn
    BY <1>3 DEF ServerArrive
  <1>4. ASSUME Run \/ ServerIdle \/ UNCHANGED svars
        PROVE  phase' \in {"closing", "exited"} /\ conn' = conn
    BY <1>4 DEF Run, Start, StartFails, Signal, Drained, ShutdownTimesOut, ListenFails, Exit,
                ServerIdle, svars
  <1> QED
    BY <1>1, <1>2, <1>3, <1>4 DEF ServerNext, Works, Lent

\* A connection that is lent comes back; one is there to be lent, time after
\* time; and each one that pool.Close waits for comes back for good.
ConnectionsComeBack ==
    /\ \A r \in Requests : Lent(r) ~> ~Lent(r)
    /\ []<>Room
    /\ \A r \in Requests : phase = "closing" ~> []~Lent(r)

\* The pool does not run dry for good, although a transaction keeps its
\* connection while it waits for a row (pool.go:11, uow.go, main.go:74).
THEOREM PoolComesFree == ServerSpec /\ AllQueuedOn => ConnectionsComeBack
  <1> DEFINE Back(r) == Lent(r) => <>~Lent(r)
             Safe    == []ServerInv /\ []GoneInv /\ [][ServerNext]_svars
  <1>1. ASSUME NEW r \in Requests
        PROVE  Safe /\ QueuedOn(r) /\ (\A t \in Tasks : []<>Free(t)) => []Back(r)
    <2> DEFINE WaiterBack == \A t \in Tasks : WaitsAt(r, t) => Back(r)
    <2>1. ASSUME NEW t \in Tasks
          PROVE  Safe /\ QueuedOn(r) /\ []<>Free(t) => [](WaitsAt(r, t) => Back(r))
      BY ServerWaitingEnds
    <2>2. Safe /\ QueuedOn(r) /\ (\A t \in Tasks : []<>Free(t)) =>
              \A t \in Tasks : [](WaitsAt(r, t) => Back(r))
      <3> HIDE DEF Safe, Back
      <3> QED
        BY <2>1
    <2>3. (\A t \in Tasks : [](WaitsAt(r, t) => Back(r))) => []WaiterBack
      <3> HIDE DEF Back
      <3> QED
        OBVIOUS
    <2>4. ServerInv /\ GoneInv /\ WaiterBack => Back(r) \/ Going(r)
      <3> SUFFICES ASSUME ServerInv, GoneInv, Lent(r)
                   PROVE  Going(r) \/ \E t \in Tasks : WaitsAt(r, t)
        BY DEF Lent
      <3>1. pc[r] \in Busy
        BY ReturnedAll DEF ServerInv, Returned, GoneInv, Alive, Lent
      <3>2. pc[r] \in {"read", "write", "forUpdate"} => op[r].task \in Tasks
        BY Asked DEF ServerInv, Inv, Asks
      <3> QED
        BY <3>1, <3>2 DEF Busy, InTransaction, Going, Owning, WaitsAt
    <2>5. ServerInv /\ GoneInv => (Came(r, 9) => ~Lent(r))
      BY OverHasNone
    <2>6. []ServerInv /\ [][ServerNext]_svars /\ ServedOn(r) => (Going(r) ~> Came(r, 9))
      BY ServerGoingEnds
    <2>7. Safe /\ QueuedOn(r) /\ []WaiterBack => []Back(r)
      <3> HIDE DEF WaiterBack
      <3> QED
        BY <2>4, <2>5, <2>6, PTL DEF QueuedOn, ServedOn
    <2> HIDE DEF Safe, Back, WaiterBack
    <2> QED
      BY <2>2, <2>3, <2>7
  <1>2. ASSUME NEW r \in Requests
        PROVE  Safe /\ []Back(r) =>
                   /\ [](Lent(r) => <>Room)
                   /\ Lent(r) ~> ~Lent(r)
                   /\ phase = "closing" ~> []~Lent(r)
    <2> DEFINE Shutting == phase = "closing"
               Closed  == phase \in {"closing", "exited"}
    <2>1. ServerInv /\ [ServerNext]_svars /\ Lent(r) => Lent(r)' \/ Room'
      BY RoomStep DEF Lent
    <2>2. [ServerNext]_svars /\ Closed => Closed' /\ (~Lent(r) => ~Lent(r)')
      BY ClosingLendsNone
    <2>3. Shutting => Closed
      OBVIOUS
    <2> HIDE DEF Shutting, Closed
    <2>4. Safe /\ []Back(r) => /\ [](Lent(r) => <>Room)
                               /\ Lent(r) ~> ~Lent(r)
                               /\ Shutting ~> []~Lent(r)
      BY <2>1, <2>2, <2>3, PTL
    <2> QED
      BY <2>4 DEF Shutting
  <1>3. Safe /\ (\A r \in Requests : [](Lent(r) => <>Room)) => []<>Room
    <2> DEFINE SomebodyBack == \A r \in Requests : Lent(r) => <>Room
    <2>1. (\A r \in Requests : [](Lent(r) => <>Room)) => []SomebodyBack
      OBVIOUS
    <2>2. ServerInv /\ SomebodyBack => Room \/ <>Room
      <3>1. ServerInv => Room \/ \E r \in Requests : Lent(r)
        BY SomebodyHolds DEF Room, Lent, ServerInv, PoolInv, ServerTypeOK
      <3> QED
        BY <3>1
    <2>3. Safe /\ []SomebodyBack => []<>Room
      <3> HIDE DEF SomebodyBack
      <3> QED
        BY <2>2, PTL
    <2> HIDE DEF Safe, SomebodyBack
    <2> QED
      BY <2>1, <2>3
  <1> SUFFICES ASSUME ServerSpec, AllQueuedOn PROVE ConnectionsComeBack
    OBVIOUS
  <1>4. Safe
    BY ServerInvariance, GoneHasNone, PTL DEF ServerSpec
  <1>5. \A t \in Tasks : []<>Free(t)
    BY FairForGood, ServerRowsFreed
  <1>6. ASSUME NEW r \in Requests PROVE []Back(r)
    <2>1. QueuedOn(r)
      BY DEF AllQueuedOn
    <2> HIDE DEF Safe, Back
    <2> QED
      BY <1>1, <1>4, <1>5, <2>1
  <1> HIDE DEF Safe, Back
  <1>7. \A r \in Requests :
            /\ [](Lent(r) => <>Room)
            /\ Lent(r) ~> ~Lent(r)
            /\ phase = "closing" ~> []~Lent(r)
    BY <1>2, <1>4, <1>6
  <1> QED
    BY <1>3, <1>4, <1>7 DEF ConnectionsComeBack

\* Whoever has the row, and whoever has the connections.
THEOREM ServerEveryoneEnds == ServerSpec /\ AllQueuedOn => EveryRequestEnds
  <1> DEFINE Ended(r) == pc[r] \in {"done", "lost"}
             Begun(r) == pc[r] \in {"read", "forUpdate"}
             Safe     == []ServerInv /\ []GoneInv /\ [][ServerNext]_svars
  <1>1. ASSUME NEW r \in Requests, NEW t \in Tasks
        PROVE  Safe /\ QueuedOn(r) /\ []<>Free(t) /\ []<>Room => [](WaitsAt(r, t) => <>Ended(r))
    <2> HIDE DEF Ended
    <2>1. []ServerInv /\ []GoneInv /\ [][ServerNext]_svars /\ QueuedOn(r) /\ []<>Free(t) =>
              ([]<>Room => [](WaitsAt(r, t) => <>Ended(r)))
      BY ServerWaitingEnds DEF Ended
    <2> QED
      BY <2>1
  <1>2. ASSUME NEW r \in Requests
        PROVE  []ServerInv /\ [](\A t \in Tasks : WaitsAt(r, t) => <>Ended(r)) =>
                   (Begun(r) ~> Ended(r))
    <2> DEFINE NoWaiterLeft == \A t \in Tasks : WaitsAt(r, t) => <>Ended(r)
    <2>1. ServerInv /\ NoWaiterLeft => (Begun(r) => <>Ended(r))
      <3>1. ServerInv /\ Begun(r) => op[r].task \in Tasks
        BY Asked DEF ServerInv, Inv, Asks
      <3> QED
        BY <3>1 DEF WaitsAt
    <2>2. []ServerInv /\ []NoWaiterLeft => (Begun(r) ~> Ended(r))
      <3> HIDE DEF Ended, Begun, NoWaiterLeft
      <3> QED
        BY <2>1, PTL
    <2> QED
      BY <2>2
  <1> SUFFICES ASSUME ServerSpec, AllQueuedOn PROVE EveryRequestEnds
    OBVIOUS
  <1>3. Safe
    BY ServerInvariance, GoneHasNone, PTL DEF ServerSpec
  <1>4. \A t \in Tasks : []<>Free(t)
    BY FairForGood, ServerRowsFreed
  <1>5. []<>Room
    BY PoolComesFree DEF ConnectionsComeBack
  <1>6. ASSUME NEW r \in Requests PROVE Begun(r) ~> Ended(r)
    <2>1. QueuedOn(r)
      BY DEF AllQueuedOn
    <2>2. \A t \in Tasks : [](WaitsAt(r, t) => <>Ended(r))
      <3> HIDE DEF Safe, Ended
      <3> QED
        BY <1>1, <1>3, <1>4, <1>5, <2>1
    <2>3. [](\A t \in Tasks : WaitsAt(r, t) => <>Ended(r))
      BY <2>2
    <2> HIDE DEF Ended, Begun
    <2> QED
      BY <1>2, <1>3, <2>3
  <1> QED
    BY <1>6 DEF EveryRequestEnds

=============================================================================

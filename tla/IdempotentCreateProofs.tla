----------------------- MODULE IdempotentCreateProofs -----------------------
(***************************************************************************)
(* Proofs about POST /tasks, for any number of requests, keys and bodies,  *)
(* any lease, window and bound of the clock.                               *)
(***************************************************************************)
EXTENDS IdempotentCreate, TLAPS

-----------------------------------------------------------------------------
(* The inductive invariant                                                 *)

\* Labels at which a transaction has its slot and goes on to use it.
Owning == {"get", "insert", "complete", "commit"}

\* The slot of a key has at most one holder, a transaction that came with
\* that key and is still open; a transaction past the claim holds its slot,
\* and nobody else has uncommitted writes.
LockInv ==
    /\ \A k \in Keys :
           holder[k] # NULL =>
               /\ key[holder[k]] = k
               /\ pc[holder[k]] \in Owning \cup {"rollback", "orphan"}
    /\ \A r \in Requests :
           /\ pc[r] \in Owning => holder[key[r]] = r
           /\ claim[r] # NULL \/ inserted[r] =>
                  pc[r] \in Owning \cup {"rollback", "orphan"}
           /\ start[r] <= now

\* What a transaction at label "commit" is about to install: the work it
\* did, a reclaimed key, or nothing (a replay).
CommitsWork(r) ==
    /\ inserted[r]
    /\ row[key[r]] = NULL
    /\ claim[r] = [hash |-> body[r], status |-> 201, body |-> r,
                   lease |-> start[r] + Lease, created |-> start[r]]
    /\ out[r] = [status |-> 201, body |-> r]
    /\ r \notin warned

CommitsReclaim(r) ==
    /\ ~inserted[r]
    /\ row[key[r]] # NULL
    /\ Reclaimable(row[key[r]], start[r])
    /\ claim[r] = [hash |-> body[r], status |-> 0, body |-> NULL,
                   lease |-> start[r] + Lease,
                   created |-> row[key[r]].created]
    /\ out[r] = NoResult

CommitsReplay(r) ==
    /\ ~inserted[r]
    /\ claim[r] = NULL
    /\ row[key[r]] # NULL
    /\ row[key[r]].status # 0
    /\ out[r] = [status |-> row[key[r]].status, body |-> row[key[r]].body]
    /\ r \in warned <=> row[key[r]].hash # body[r]

\* What the transaction has written so far, label by label.
WorkInv ==
    \A r \in Requests :
        /\ pc[r] \in {"idle", "acquire", "get", "insert", "complete"} => r \notin warned
        /\ pc[r] = "get" =>
               /\ row[key[r]] # NULL
               /\ ~inserted[r]
               /\ claim[r] = NULL
        /\ pc[r] \in {"insert", "complete"} =>
               /\ row[key[r]] = NULL
               /\ inserted[r] <=> pc[r] = "complete"
               /\ claim[r] = [hash |-> body[r], status |-> 0, body |-> NULL,
                              lease |-> start[r] + Lease, created |-> start[r]]
        /\ pc[r] = "commit" =>
               CommitsWork(r) \/ CommitsReclaim(r) \/ CommitsReplay(r)

\* The committed store: a key has a row exactly when its one task was made.
StoreInv ==
    /\ \A t \in tasks : pc[t] # "idle" /\ row[key[t]] # NULL
    /\ \A t, u \in tasks : key[t] = key[u] => t = u
    /\ \A k \in Keys :
           row[k] # NULL =>
               /\ \E t \in tasks : key[t] = k
               /\ row[k].lease <= now + Lease
               /\ row[k].status = 201 =>
                      /\ row[k].body \in tasks
                      /\ key[row[k].body] = k
                      /\ row[k].created = start[row[k].body]
                      /\ row[k].hash = body[row[k].body]
               /\ row[k].status = 0 =>
                      row[k].created + Window + Lease < row[k].lease

\* A result that is about to be sent, or an answer that was sent.
Honest(r, a) ==
    /\ a.status = 201 =>
           /\ a.body \in tasks
           /\ key[a.body] = key[r]
           /\ r \in warned <=> body[r] # body[a.body]
    /\ a.status # 201 => a.body = NULL
    /\ a.status = 409 =>
           /\ row[key[r]] # NULL
           /\ row[key[r]].created + Window < now

ReplyInv ==
    \A r \in Requests :
        /\ pc[r] = "rollback" => out[r].status # 201 /\ Honest(r, out[r])
        /\ pc[r] = "reply" => Honest(r, out[r])
        /\ resp[r] # NULL => pc[r] = "done" /\ Honest(r, resp[r])

Inv == TypeOK /\ LockInv /\ WorkInv /\ StoreInv /\ ReplyInv

-----------------------------------------------------------------------------

\* The first state satisfies the invariant.
LEMMA InitInv == Init => Inv
  <1> SUFFICES ASSUME Init PROVE Inv
    OBVIOUS
  <1> USE NullAssumption, TimeAssumption DEF Init
  <1>1. TypeOK
    BY DEF TypeOK, PCs, Result, NoResult
  <1>2. LockInv
    BY DEF LockInv, Owning
  <1>3. WorkInv
    BY DEF WorkInv
  <1>4. StoreInv
    BY DEF StoreInv
  <1>5. ReplyInv
    BY DEF ReplyInv, Honest, NoResult
  <1> QED
    BY <1>1, <1>2, <1>3, <1>4, <1>5 DEF Inv

\* Every action writes values of the right shape.
LEMMA TypeStep == Inv /\ [Next]_vars => TypeOK'
  <1> SUFFICES ASSUME Inv, [Next]_vars PROVE TypeOK'
    OBVIOUS
  <1> USE NullAssumption, TimeAssumption DEF Inv, TypeOK, PCs, Goto, request, db
  <1>1. ASSUME NEW r \in Requests, NEW k \in Keys, NEW b \in Bodies, Begin(r, k, b)
        PROVE  TypeOK'
    BY <1>1 DEF Begin
  <1>2. ASSUME NEW r \in Requests, AcquireFresh(r) PROVE TypeOK'
    BY <1>2 DEF AcquireFresh, LockSlot, Row
  <1>3. ASSUME NEW r \in Requests, AcquireReclaim(r) PROVE TypeOK'
    BY <1>3 DEF AcquireReclaim, LockSlot, Row, Result, NoResult
  <1>4. ASSUME NEW r \in Requests, AcquireConflict(r) PROVE TypeOK'
    BY <1>4 DEF AcquireConflict, LockSlot
  <1>5. ASSUME NEW r \in Requests, GetInFlight(r) PROVE TypeOK'
    BY <1>5 DEF GetInFlight, Result, IdemInFlight
  <1>6. ASSUME NEW r \in Requests, GetReplay(r) PROVE TypeOK'
    BY <1>6 DEF GetReplay, Result, Row, WorkInv
  <1>7. ASSUME NEW r \in Requests, InsertTask(r) PROVE TypeOK'
    BY <1>7 DEF InsertTask
  <1>8. ASSUME NEW r \in Requests, Complete(r) PROVE TypeOK'
    BY <1>8 DEF Complete, WorkInv, Row, Result
  <1>9. ASSUME NEW r \in Requests, Commit(r) PROVE TypeOK'
    BY <1>9 DEF Commit, Release, Result, Internal
  <1>10. ASSUME NEW r \in Requests, CommitFails(r) PROVE TypeOK'
    BY <1>10 DEF CommitFails, Result, Internal
  <1>11. ASSUME NEW r \in Requests, Fail(r) PROVE TypeOK'
    BY <1>11 DEF Fail, InClosure, Result, Internal
  <1>12. ASSUME NEW r \in Requests, Rollback(r) PROVE TypeOK'
    BY <1>12 DEF Rollback, Release
  <1>13. ASSUME NEW r \in Requests, Reply(r) PROVE TypeOK'
    BY <1>13 DEF Reply, HTTPStatus, Answers, Result
  <1>14. ASSUME NEW r \in Requests, Crash(r) PROVE TypeOK'
    BY <1>14 DEF Crash, InTx, InClosure
  <1>15. ASSUME NEW r \in Requests, AbortOrphan(r) PROVE TypeOK'
    BY <1>15 DEF AbortOrphan, Release
  <1>16. CASE Tick
    BY <1>16 DEF Tick
  <1>17. CASE UNCHANGED vars
    BY <1>17 DEF vars
  <1> QED
    BY <1>1, <1>2, <1>3, <1>4, <1>5, <1>6, <1>7, <1>8, <1>9, <1>10, <1>11,
       <1>12, <1>13, <1>14, <1>15, <1>16, <1>17
       DEF Next, Serve, Acquire, Get, Idle

\* Slots are taken only when free and given up only by their holder.
LEMMA LockStep == Inv /\ [Next]_vars => LockInv'
  <1> SUFFICES ASSUME Inv, [Next]_vars PROVE LockInv'
    OBVIOUS
  <1> USE NullAssumption, TimeAssumption
      DEF Inv, TypeOK, LockInv, Owning, PCs, Goto, request, db
  <1>1. ASSUME NEW r \in Requests, NEW k \in Keys, NEW b \in Bodies, Begin(r, k, b)
        PROVE  LockInv'
    BY <1>1 DEF Begin
  <1>2. ASSUME NEW r \in Requests, AcquireFresh(r) PROVE LockInv'
    BY <1>2 DEF AcquireFresh, SlotFree, LockSlot
  <1>3. ASSUME NEW r \in Requests, AcquireReclaim(r) PROVE LockInv'
    BY <1>3 DEF AcquireReclaim, SlotFree, LockSlot
  <1>4. ASSUME NEW r \in Requests, AcquireConflict(r) PROVE LockInv'
    BY <1>4 DEF AcquireConflict, SlotFree, LockSlot
  <1>5. ASSUME NEW r \in Requests, GetInFlight(r) PROVE LockInv'
    BY <1>5 DEF GetInFlight
  <1>6. ASSUME NEW r \in Requests, GetReplay(r) PROVE LockInv'
    BY <1>6 DEF GetReplay
  <1>7. ASSUME NEW r \in Requests, InsertTask(r) PROVE LockInv'
    BY <1>7 DEF InsertTask
  <1>8. ASSUME NEW r \in Requests, Complete(r) PROVE LockInv'
    BY <1>8 DEF Complete
  <1>9. ASSUME NEW r \in Requests, Commit(r) PROVE LockInv'
    BY <1>9 DEF Commit, Release
  <1>10. ASSUME NEW r \in Requests, CommitFails(r) PROVE LockInv'
    BY <1>10 DEF CommitFails
  <1>11. ASSUME NEW r \in Requests, Fail(r) PROVE LockInv'
    BY <1>11 DEF Fail, InClosure
  <1>12. ASSUME NEW r \in Requests, Rollback(r) PROVE LockInv'
    BY <1>12 DEF Rollback, Release
  <1>13. ASSUME NEW r \in Requests, Reply(r) PROVE LockInv'
    BY <1>13 DEF Reply
  <1>14. ASSUME NEW r \in Requests, Crash(r) PROVE LockInv'
    BY <1>14 DEF Crash, InTx, InClosure
  <1>15. ASSUME NEW r \in Requests, AbortOrphan(r) PROVE LockInv'
    BY <1>15 DEF AbortOrphan, Release
  <1>16. CASE Tick
    BY <1>16 DEF Tick
  <1>17. CASE UNCHANGED vars
    BY <1>17 DEF vars
  <1> QED
    BY <1>1, <1>2, <1>3, <1>4, <1>5, <1>6, <1>7, <1>8, <1>9, <1>10, <1>11,
       <1>12, <1>13, <1>14, <1>15, <1>16, <1>17
       DEF Next, Serve, Acquire, Get, Idle

\* A transaction writes only its own entries, and while it owns its slot no
\* other transaction changes the row behind it.
LEMMA WorkStep == Inv /\ [Next]_vars => WorkInv'
  <1> SUFFICES ASSUME Inv, [Next]_vars PROVE WorkInv'
    OBVIOUS
  <1> USE NullAssumption, TimeAssumption
      DEF Inv, TypeOK, LockInv, WorkInv, Owning, PCs, Goto, request, db,
          CommitsWork, CommitsReclaim, CommitsReplay
  <1>1. ASSUME NEW r \in Requests, NEW k \in Keys, NEW b \in Bodies, Begin(r, k, b)
        PROVE  WorkInv'
    BY <1>1 DEF Begin
  <1>2. ASSUME NEW r \in Requests, AcquireFresh(r) PROVE WorkInv'
    BY <1>2 DEF AcquireFresh
  <1>3. ASSUME NEW r \in Requests, AcquireReclaim(r) PROVE WorkInv'
    BY <1>3 DEF AcquireReclaim
  <1>4. ASSUME NEW r \in Requests, AcquireConflict(r) PROVE WorkInv'
    BY <1>4 DEF AcquireConflict
  <1>5. ASSUME NEW r \in Requests, GetInFlight(r) PROVE WorkInv'
    BY <1>5 DEF GetInFlight
  <1>6. ASSUME NEW r \in Requests, GetReplay(r) PROVE WorkInv'
    BY <1>6 DEF GetReplay
  <1>7. ASSUME NEW r \in Requests, InsertTask(r) PROVE WorkInv'
    BY <1>7 DEF InsertTask
  <1>8. ASSUME NEW r \in Requests, Complete(r) PROVE WorkInv'
    BY <1>8 DEF Complete
  <1>9. ASSUME NEW r \in Requests, Commit(r) PROVE WorkInv'
    BY <1>9 DEF Commit, Release
  <1>10. ASSUME NEW r \in Requests, CommitFails(r) PROVE WorkInv'
    BY <1>10 DEF CommitFails
  <1>11. ASSUME NEW r \in Requests, Fail(r) PROVE WorkInv'
    BY <1>11 DEF Fail, InClosure
  <1>12. ASSUME NEW r \in Requests, Rollback(r) PROVE WorkInv'
    BY <1>12 DEF Rollback, Release
  <1>13. ASSUME NEW r \in Requests, Reply(r) PROVE WorkInv'
    BY <1>13 DEF Reply
  <1>14. ASSUME NEW r \in Requests, Crash(r) PROVE WorkInv'
    BY <1>14 DEF Crash, InTx, InClosure
  <1>15. ASSUME NEW r \in Requests, AbortOrphan(r) PROVE WorkInv'
    BY <1>15 DEF AbortOrphan, Release
  <1>16. CASE Tick
    BY <1>16 DEF Tick
  <1>17. CASE UNCHANGED vars
    BY <1>17 DEF vars
  <1> QED
    BY <1>1, <1>2, <1>3, <1>4, <1>5, <1>6, <1>7, <1>8, <1>9, <1>10, <1>11,
       <1>12, <1>13, <1>14, <1>15, <1>16, <1>17
       DEF Next, Serve, Acquire, Get, Idle

\* Only a commit changes the store, and what it may install fits what is
\* there: the work of a key that had no row, or the row of a key reclaimed.
LEMMA StoreStep == Inv /\ [Next]_vars => StoreInv'
  <1> SUFFICES ASSUME Inv, [Next]_vars PROVE StoreInv'
    OBVIOUS
  <1> USE NullAssumption, TimeAssumption
      DEF Inv, TypeOK, LockInv, StoreInv, Owning, PCs, Goto, request, db
  <1>1. ASSUME NEW r \in Requests, NEW k \in Keys, NEW b \in Bodies, Begin(r, k, b)
        PROVE  StoreInv'
    BY <1>1 DEF Begin
  <1>2. ASSUME NEW r \in Requests, Commit(r) PROVE StoreInv'
    <2> USE <1>2 DEF Commit
    <2>1. CASE CommitsWork(r)
      <3> USE <2>1 DEF CommitsWork
      <3>0. claim[r] \in Row
        BY DEF Row
      <3>1. /\ tasks' = tasks \cup {r}
            /\ row' = [row EXCEPT ![key[r]] = claim[r]]
            /\ claim[r] # NULL
            /\ key[r] \in Keys
            /\ \A t \in tasks : key[t] # key[r]
        BY <3>0
      <3>2. /\ claim[r].body = r /\ claim[r].hash = body[r]
            /\ claim[r].status = 201 /\ claim[r].created = start[r]
            /\ claim[r].lease <= now + Lease
        OBVIOUS
      <3>3. \A t, u \in tasks' : key'[t] = key'[u] => t = u
        BY <3>1
      <3>4. \A t \in tasks' : pc'[t] # "idle" /\ row'[key'[t]] # NULL
        BY <3>1
      <3>5. ASSUME NEW k \in Keys, row'[k] # NULL
            PROVE  \E t \in tasks' : key'[t] = k
        BY <3>1, <3>5
      <3> QED
        BY <3>1, <3>2, <3>3, <3>4, <3>5
    <2>2. CASE CommitsReclaim(r)
      BY <2>2 DEF CommitsReclaim, Reclaimable, Row
    <2>3. CASE CommitsReplay(r)
      BY <2>3 DEF CommitsReplay
    <2> QED
      BY <2>1, <2>2, <2>3 DEF WorkInv
  <1>3. ASSUME NEW r \in Requests,
               \/ Acquire(r) \/ Get(r) \/ InsertTask(r) \/ Complete(r)
               \/ CommitFails(r) \/ Fail(r) \/ Rollback(r) \/ Reply(r)
               \/ Crash(r) \/ AbortOrphan(r)
        PROVE  StoreInv'
    <2>1. UNCHANGED <<now, row, tasks, key, body, start>>
      BY <1>3 DEF Acquire, AcquireFresh, AcquireReclaim, AcquireConflict, Get,
           GetInFlight, GetReplay, InsertTask, Complete, CommitFails, Fail,
           Rollback, Reply, Crash, AbortOrphan
    <2>2. \A q \in Requests : pc[q] # "idle" => pc'[q] # "idle"
      BY <1>3 DEF Acquire, AcquireFresh, AcquireReclaim, AcquireConflict, Get,
           GetInFlight, GetReplay, InsertTask, Complete, CommitFails, Fail,
           Rollback, Reply, Crash, AbortOrphan
    <2> QED
      BY <2>1, <2>2
  <1>4. CASE Tick
    BY <1>4 DEF Tick, Row
  <1>5. CASE UNCHANGED vars
    BY <1>5 DEF vars
  <1> QED
    BY <1>1, <1>2, <1>3, <1>4, <1>5 DEF Next, Serve, Idle

\* What a reply is about to say stays true: tasks are not unmade, keys and
\* bodies do not change, and a row keeps its created_at.
LEMMA ReplyStep == Inv /\ [Next]_vars => ReplyInv'
  <1> SUFFICES ASSUME Inv, [Next]_vars PROVE ReplyInv'
    OBVIOUS
  <1> USE NullAssumption, TimeAssumption
      DEF Inv, TypeOK, LockInv, StoreInv, ReplyInv, Honest, Owning, PCs, Goto,
          request, db
  <1>1. ASSUME NEW r \in Requests, NEW k \in Keys, NEW b \in Bodies, Begin(r, k, b)
        PROVE  ReplyInv'
    BY <1>1 DEF Begin
  <1>2. ASSUME NEW r \in Requests, Acquire(r) \/ InsertTask(r) \/ Complete(r)
        PROVE  ReplyInv'
    BY <1>2 DEF Acquire, AcquireFresh, AcquireReclaim, AcquireConflict,
         InsertTask, Complete
  <1>3. ASSUME NEW r \in Requests, Get(r) PROVE ReplyInv'
    BY <1>3 DEF Get, GetInFlight, GetReplay, WorkInv, IdemInFlight, Row
  <1>4. ASSUME NEW r \in Requests, Commit(r) PROVE ReplyInv'
    <2> USE <1>4 DEF Commit, Internal
    <2>1. CASE CommitsWork(r)
      BY <2>1 DEF CommitsWork
    <2>2. CASE CommitsReclaim(r)
      BY <2>2 DEF CommitsReclaim, NoResult
    <2>3. CASE CommitsReplay(r)
      BY <2>3 DEF CommitsReplay, Row
    <2> QED
      BY <2>1, <2>2, <2>3 DEF WorkInv
  <1>5. ASSUME NEW r \in Requests, CommitFails(r) \/ Fail(r) PROVE ReplyInv'
    BY <1>5 DEF CommitFails, Fail, Internal, InClosure
  <1>6. ASSUME NEW r \in Requests, Rollback(r) PROVE ReplyInv'
    BY <1>6 DEF Rollback
  <1>7. ASSUME NEW r \in Requests, Reply(r) PROVE ReplyInv'
    BY <1>7 DEF Reply, HTTPStatus, Result
  <1>8. ASSUME NEW r \in Requests, Crash(r) \/ AbortOrphan(r) PROVE ReplyInv'
    BY <1>8 DEF Crash, AbortOrphan, InTx, InClosure
  <1>9. CASE Tick
    BY <1>9 DEF Tick, Row
  <1>10. CASE UNCHANGED vars
    BY <1>10 DEF vars
  <1> QED
    BY <1>1, <1>2, <1>3, <1>4, <1>5, <1>6, <1>7, <1>8, <1>9, <1>10
       DEF Next, Serve, Idle

-----------------------------------------------------------------------------
(* Theorems                                                                *)

\* The invariant is inductive.
THEOREM Invariance == Spec => []Inv
  <1>1. Inv /\ [Next]_vars => Inv'
    BY TypeStep, LockStep, WorkStep, StoreStep, ReplyStep DEF Inv
  <1> QED
    BY InitInv, <1>1, PTL DEF Spec

\* The state keeps its shape, whatever the interleaving, for any constants.
THEOREM TypeCorrect == Spec => []TypeOK
  BY Invariance, PTL DEF Inv

\* No two committed tasks of one key closer than the window (in the code as
\* it is, StoreInv shows more: no two at all).
THEOREM OneTask == Spec => []OneTaskPerWindow
  <1>1. Inv => OneTaskPerWindow
    BY DEF Inv, StoreInv, OneTaskPerWindow
  <1> QED
    BY Invariance, <1>1, PTL

\* A key makes one task ever, also long after its window: a row that is
\* claimed again has xmax # 0, so AcquireIdempotency does not report it as
\* acquired and the usecase takes it for a completed request.
THEOREM OneTaskEver == Spec => [](\A t, u \in tasks : key[t] = key[u] => t = u)
  <1>1. Inv => \A t, u \in tasks : key[t] = key[u] => t = u
    BY DEF Inv, StoreInv
  <1> QED
    BY Invariance, <1>1, PTL

\* A 201 always names a task that was committed under the caller's own key.
THEOREM HonestReplies == Spec => []RepliesNameCommittedTask
  <1>1. Inv => RepliesNameCommittedTask
    BY DEF Inv, ReplyInv, Honest, RepliesNameCommittedTask
  <1> QED
    BY Invariance, <1>1, PTL

\* The idempotency row and the task are committed together or not at all.
THEOREM Atomicity == Spec => []KeyAndTaskTogether
  <1>1. Inv => KeyAndTaskTogether
    BY DEF Inv, StoreInv, KeyAndTaskTogether
  <1> QED
    BY Invariance, <1>1, PTL

\* A committed row is in flight, and a caller told so, only after the window
\* of the key is over.
THEOREM InFlight == Spec => []InFlightOnlyAfterWindow
  <1>1. Inv => InFlightOnlyAfterWindow
    BY DEF Inv, StoreInv, ReplyInv, Honest, InFlightOnlyAfterWindow
  <1> QED
    BY Invariance, <1>1, PTL

\* A replay for another body is logged, and nothing else is.
THEOREM Mismatch == Spec => []MismatchFlagged
  <1>1. Inv => MismatchFlagged
    BY DEF Inv, ReplyInv, Honest, MismatchFlagged
  <1> QED
    BY Invariance, <1>1, PTL

\* A committed row changes only when its lease or its window is over.
THEOREM RowKept == Spec => RowKeptForItsTerm
  <1> DEFINE Kept == \A k \in Keys :
                 row[k] # NULL /\ row'[k] # row[k] =>
                     /\ row'[k] # NULL
                     /\ IF row[k].status = 0 THEN row[k].lease < now
                                             ELSE row[k].created + Window < now
  <1>1. ASSUME Inv, [Next]_vars PROVE [Kept]_vars
    <2> USE <1>1, NullAssumption, TimeAssumption DEF Inv, TypeOK
    <2>1. ASSUME NEW r \in Requests, Commit(r) PROVE Kept
      <3> USE <2>1 DEF Commit
      <3>1. CASE CommitsWork(r)
        BY <3>1 DEF CommitsWork
      <3>2. CASE CommitsReclaim(r)
        BY <3>2 DEF CommitsReclaim, Reclaimable, Row, LockInv
      <3>3. CASE CommitsReplay(r)
        BY <3>3 DEF CommitsReplay
      <3> QED
        BY <3>1, <3>2, <3>3 DEF WorkInv
    <2>2. CASE row' = row
      BY <2>2
    <2> QED
      BY <2>1, <2>2
         DEF Next, Serve, Idle, vars, db, Begin, Acquire, AcquireFresh,
             AcquireReclaim, AcquireConflict, Get, GetInFlight, GetReplay,
             InsertTask, Complete, CommitFails, Fail, Rollback, Reply, Crash,
             AbortOrphan, Tick
  <1> QED
    BY Invariance, <1>1, PTL DEF Spec, RowKeptForItsTerm

\* The steps of the contract, one by one.
LEMMA ContractSteps ==
    ASSUME NEW r \in Requests, NEW k \in Keys
    PROVE  /\ \A t \in 0..MaxTime : Contract!Ask(r, k, t) => Contract!Next
           /\ Contract!Make(r, k) => Contract!Next
           /\ \A t \in Requests : Contract!Answer(r, k, t) => Contract!Next
  BY DEF Contract!Next

\* The transaction, statement by statement, implements the contract: a commit
\* that installs work is the contract's Make, a 201 its Answer, the arrival of
\* a request its Ask, and every other step is invisible to clients.
THEOREM Implementation == Spec => ImplementsContract
  <1> DEFINE made == [k \in Keys |-> {t \in tasks : key[t] = k}]
             answer == [r \in Requests |-> IF resp[r] = NULL THEN NULL ELSE resp[r].body]
  <1> USE NullAssumption, TimeAssumption
  <1>1. Init => Contract!Init
    BY DEF Init, Contract!Init
  <1>2. ASSUME Inv, [Next]_vars PROVE [Contract!Next]_(Contract!vars)
    <2> USE <1>2 DEF Inv, TypeOK, request, db
    <2>1. ASSUME NEW r \in Requests, NEW k \in Keys, NEW b \in Bodies, Begin(r, k, b)
          PROVE  Contract!Next
      <3>1. Contract!Ask(r, k, now)
        BY <2>1 DEF Begin, Goto, StoreInv, Contract!Ask
      <3> QED
        BY <3>1, ContractSteps
    <2>2. ASSUME NEW r \in Requests, Commit(r)
          PROVE  Contract!Next \/ UNCHANGED Contract!vars
      <3> USE <2>2 DEF Commit
      <3>1. CASE CommitsWork(r)
        <4>1. PICK k \in Keys : k = key[r]
          OBVIOUS
        <4>2. tasks' = tasks \cup {r} /\ UNCHANGED <<key, start, resp>>
          BY <3>1 DEF CommitsWork
        <4>3. \A t \in tasks : key[t] # k
          BY <3>1, <4>1 DEF CommitsWork, StoreInv
        <4>4. made' = [made EXCEPT ![k] = @ \cup {r}]
          <5>1. ASSUME NEW l \in Keys
                PROVE  made'[l] = IF l = k THEN made[l] \cup {r} ELSE made[l]
            BY ONLY <4>1, <4>2, <5>1
          <5> QED
            BY ONLY <4>1, <5>1
        <4>5. Contract!Make(r, k)
          BY <4>1, <4>2, <4>3, <4>4 DEF Contract!Make
        <4> QED
          BY <4>5, ContractSteps
      <3>2. CASE CommitsReclaim(r) \/ CommitsReplay(r)
        BY <3>2 DEF CommitsReclaim, CommitsReplay, Contract!vars
      <3> QED
        BY <3>1, <3>2 DEF WorkInv
    <2>3. ASSUME NEW r \in Requests, Reply(r)
          PROVE  Contract!Next \/ UNCHANGED Contract!vars
      <3> USE <2>3 DEF Reply, ReplyInv, Honest, Goto
      <3>1. key[r] \in Keys /\ UNCHANGED <<key, start, tasks>> /\ resp[r] = NULL
        OBVIOUS
      <3>2. resp' = [resp EXCEPT ![r] = [status |-> HTTPStatus(out[r].status),
                                         body |-> out[r].body]]
        OBVIOUS
      <3>3. resp'[r] # NULL
        BY <3>2 DEF HTTPStatus, Answers, Result
      <3>4. answer' = [answer EXCEPT ![r] = out[r].body]
        <4>1. ASSUME NEW q \in Requests
              PROVE  answer'[q] = IF q = r THEN out[r].body ELSE answer[q]
          BY <3>2, <3>3
        <4> QED
          BY ONLY <4>1
      <3>5. CASE out[r].status = 201
        <4>1. PICK k \in Keys, t \in Requests : k = key[r] /\ t = out[r].body
          BY <3>1, <3>5
        <4>2. Contract!Answer(r, k, t)
          BY <3>1, <3>4, <3>5, <4>1 DEF Contract!Answer
        <4> QED
          BY <4>2, ContractSteps
      <3>6. CASE out[r].status # 201
        BY <3>1, <3>4, <3>6 DEF Contract!vars
      <3> QED
        BY <3>5, <3>6
    <2>4. CASE UNCHANGED <<key, start, tasks, resp>>
      BY <2>4 DEF Contract!vars
    <2> QED
      BY <2>1, <2>2, <2>3, <2>4
         DEF Next, Serve, Idle, vars, Acquire, AcquireFresh, AcquireReclaim,
             AcquireConflict, Get, GetInFlight, GetReplay, InsertTask, Complete,
             CommitFails, Fail, Rollback, Crash, AbortOrphan, Tick
  <1> QED
    BY Invariance, <1>1, <1>2, PTL DEF Spec, Contract!Spec, ImplementsContract

-----------------------------------------------------------------------------
(* Nobody is stuck                                                         *)

\* The request is neither over nor still to come.
Underway(r) == pc[r] \notin {"idle", "done", "lost"}

\* Nobody keeps r from its next step: the guards of the actions of Serve(r).
Ready(r) ==
    \/ pc[r] = "acquire" /\ SlotFree(r)
    \/ pc[r] = "get" /\ row[key[r]] # NULL
    \/ pc[r] \in {"insert", "complete", "commit", "rollback", "reply", "orphan"}

\* Whoever is under way can go on or waits for the slot of its key, whose
\* holder can: a transaction never needs a second slot.
NobodyStuck ==
    \A r \in Requests :
        Underway(r) =>
            \/ Ready(r)
            \/ /\ pc[r] = "acquire"
               /\ holder[key[r]] \in Requests
               /\ Ready(holder[key[r]])

\* How far a request has come.
Rank(label) ==
    CASE label = "idle"                -> 0
      [] label = "acquire"             -> 1
      [] label \in {"get", "insert"}   -> 2
      [] label = "complete"            -> 3
      [] label = "commit"              -> 4
      [] label = "rollback"            -> 5
      [] label \in {"reply", "orphan"} -> 6
      [] OTHER                         -> 7

\* Whatever the server does for a request, and whatever happens to it, takes it
\* further: nothing is tried twice, so a request makes at most seven steps.
OnlyForward ==
    [][\A r \in Requests :
          Serve(r) \/ pc'[r] # pc[r] => Rank(pc[r]) < Rank(pc'[r])]_vars

\* Transactions that wait for the unique index of idempotency_keys do not
\* deadlock, whoever fails, dies or is cancelled (AcquireIdempotency).
THEOREM Unstuck == Spec => []NobodyStuck
  <1>1. Inv => NobodyStuck
    <2> SUFFICES ASSUME Inv, NEW r \in Requests, Underway(r), ~Ready(r)
                 PROVE  /\ pc[r] = "acquire"
                        /\ holder[key[r]] \in Requests
                        /\ Ready(holder[key[r]])
      BY DEF NobodyStuck
    <2>1. pc[r] = "acquire" /\ ~SlotFree(r)
      BY DEF Ready, Underway, Inv, TypeOK, PCs, WorkInv
    <2>2. key[r] \in Keys
      BY <2>1 DEF Inv, TypeOK
    <2> DEFINE h == holder[key[r]]
    <2>3. h \in Requests /\ key[h] = key[r] /\ pc[h] \in Owning \cup {"rollback", "orphan"}
      BY <2>1, <2>2 DEF SlotFree, Inv, TypeOK, LockInv
    <2>4. pc[h] = "get" => row[key[h]] # NULL
      BY <2>3 DEF Inv, WorkInv
    <2> QED
      BY <2>1, <2>3, <2>4 DEF Ready, Owning
  <1> QED
    BY <1>1, Invariance, PTL

\* A step takes a request further or leaves it where it is.
LEMMA StepForward ==
    ASSUME Inv, [Next]_vars, NEW r \in Requests
    PROVE  /\ Serve(r) => Rank(pc[r]) < Rank(pc'[r])
           /\ pc'[r] = pc[r] \/ Rank(pc[r]) < Rank(pc'[r])
  <1> USE DEF Inv, TypeOK, Goto
  <1>1. ASSUME NEW k \in Keys, NEW b \in Bodies, Begin(r, k, b) PROVE Rank(pc[r]) < Rank(pc'[r])
    BY <1>1 DEF Begin, Rank
  <1>2. ASSUME Serve(r) \/ CommitFails(r) \/ Fail(r) \/ Crash(r)
        PROVE  Rank(pc[r]) < Rank(pc'[r])
    <2>1. CASE Acquire(r)
      BY <2>1 DEF Acquire, AcquireFresh, AcquireReclaim, AcquireConflict, Rank
    <2>2. CASE Get(r) \/ InsertTask(r) \/ Complete(r)
      BY <2>2 DEF Get, GetInFlight, GetReplay, InsertTask, Complete, Rank
    <2>3. CASE Commit(r) \/ Rollback(r) \/ Reply(r) \/ AbortOrphan(r) \/ CommitFails(r)
      BY <2>3 DEF Commit, Rollback, Reply, AbortOrphan, CommitFails, Rank
    <2>4. CASE Fail(r) \/ Crash(r)
      BY <2>4 DEF Fail, Crash, InTx, InClosure, Rank
    <2> QED
      BY <1>2, <2>1, <2>2, <2>3, <2>4 DEF Serve
  <1>3. ASSUME NEW q \in Requests, q # r,
               \/ \E k \in Keys, b \in Bodies : Begin(q, k, b)
               \/ Serve(q) \/ CommitFails(q) \/ Fail(q) \/ Crash(q)
        PROVE  pc'[r] = pc[r]
    BY <1>3 DEF Begin, Serve, Acquire, AcquireFresh, AcquireReclaim, AcquireConflict, Get,
                GetInFlight, GetReplay, InsertTask, Complete, Commit, Rollback, Reply,
                AbortOrphan, CommitFails, Fail, Crash
  <1>4. CASE Tick \/ Idle \/ UNCHANGED vars
    <2>1. pc' = pc
      BY <1>4 DEF Tick, Idle, vars
    <2> QED
      BY <1>2, <2>1
  <1> QED
    BY <1>1, <1>2, <1>3, <1>4 DEF Next

\* Create has no loop and no retry: a request only goes forward.
THEOREM Forward == Spec => OnlyForward
  <1>1. Inv /\ [Next]_vars =>
            [\A r \in Requests : Serve(r) \/ pc'[r] # pc[r] => Rank(pc[r]) < Rank(pc'[r])]_vars
    BY StepForward
  <1> QED
    BY <1>1, Invariance, PTL DEF Spec, OnlyForward

-----------------------------------------------------------------------------
(* Requests that are served end                                            *)

\* Weak fairness of Serve(r), with its guards in the place of ENABLED.
Served(r) == []<>~Ready(r) \/ []<><<Serve(r)>>_vars

AllServed == \A r \in Requests : Served(r)

\* It is what FairSpec says, as the guards are all that Serve(r) needs.
LEMMA FairServes ==
    ASSUME NEW r \in Requests
    PROVE  WF_vars(Serve(r)) /\ [](Ready(r) => ENABLED <<Serve(r)>>_vars) => Served(r)
  BY PTL DEF Served

\* r has come as far as label n of Rank.
Came(r, n) == Rank(pc[r]) >= n

\* Once it has been let at its slot, nothing keeps a request from its end.
LEMMA ClaimedEnds ==
    ASSUME NEW r \in Requests
    PROVE  []Inv /\ [][Next]_vars /\ Served(r) => (Came(r, 2) ~> Came(r, 7))
  <1> DEFINE Claimed == Came(r, 2)
             Past(n) == Came(r, n)
             Ended   == Came(r, 7)
  <1> DEFINE n == Rank(pc[r])
             m == Rank(pc'[r])
  <1>1. /\ Inv => n \in 0..7
        /\ Inv' => m \in 0..7
    BY DEF Inv, TypeOK, PCs, Rank
  <1>2. Inv /\ Claimed => Ended \/ Ready(r)
    BY DEF Inv, TypeOK, PCs, WorkInv, Ready, Came, Rank
  <1>3. Inv /\ Inv' /\ [Next]_vars =>
            /\ Claimed => Claimed'
            /\ Past(3) => Past(3)'
            /\ Past(4) => Past(4)'
            /\ Past(5) => Past(5)'
            /\ Past(6) => Past(6)'
            /\ Ended => Ended'
    <2> SUFFICES ASSUME Inv, Inv', [Next]_vars
                 PROVE  \A i \in 2..7 : n >= i => m >= i
      BY DEF Came
    <2>1. pc'[r] = pc[r] \/ n < m
      BY StepForward
    <2>2. m = n \/ n < m
      BY <2>1
    <2> HIDE DEF n, m
    <2> QED
      BY <1>1, <2>2
  <1>4. Inv /\ Inv' /\ [Next]_vars /\ <<Serve(r)>>_vars =>
            /\ Claimed => Past(3)'
            /\ Past(3) => Past(4)'
            /\ Past(4) => Past(5)'
            /\ Past(5) => Past(6)'
            /\ Past(6) => Ended'
    <2> SUFFICES ASSUME Inv, Inv', [Next]_vars, Serve(r)
                 PROVE  \A i \in 2..6 : n >= i => m >= i + 1
      BY DEF Came
    <2>1. n < m
      BY StepForward
    <2> HIDE DEF n, m
    <2> QED
      BY <1>1, <2>1
  <1> HIDE DEF Claimed, Past, Ended
  <1>5. []Inv /\ [][Next]_vars /\ Served(r) => (Claimed ~> Ended)
    BY <1>2, <1>3, <1>4, PTL DEF Served
  <1> QED
    BY <1>5 DEF Claimed, Ended

\* A slot goes from one transaction to the next by way of nobody.
LEMMA HolderStep ==
    ASSUME Inv, [Next]_vars, NEW k \in Keys, holder[k] # NULL
    PROVE  holder'[k] = holder[k] \/ holder'[k] = NULL
  <1> USE DEF Inv, TypeOK
  <1>1. ASSUME NEW r \in Requests, Acquire(r) PROVE holder'[k] = holder[k]
    BY <1>1 DEF Acquire, AcquireFresh, AcquireReclaim, AcquireConflict, LockSlot, SlotFree
  <1>2. ASSUME NEW r \in Requests, Commit(r) \/ Rollback(r) \/ AbortOrphan(r)
        PROVE  holder'[k] = holder[k] \/ holder'[k] = NULL
    BY <1>2 DEF Commit, Rollback, AbortOrphan, Release
  <1>3. ASSUME NEW r \in Requests,
               \/ \E c \in Keys, b \in Bodies : Begin(r, c, b)
               \/ Get(r) \/ InsertTask(r) \/ Complete(r) \/ Reply(r)
               \/ CommitFails(r) \/ Fail(r) \/ Crash(r)
        PROVE  holder' = holder
    BY <1>3 DEF Begin, Get, GetInFlight, GetReplay, InsertTask, Complete, Reply, CommitFails,
                Fail, Crash
  <1>4. CASE Tick \/ Idle \/ UNCHANGED vars
    BY <1>4 DEF Tick, Idle, vars
  <1> QED
    BY <1>1, <1>2, <1>3, <1>4 DEF Next, Serve

\* A request that was let at its slot is answered or dies with its process, and
\* whoever takes the slot of a key, it becomes free again, time after time.
SlotsComeFree ==
    /\ \A r \in Requests :
           pc[r] \notin {"idle", "acquire"} ~> pc[r] \in {"done", "lost"}
    /\ \A k \in Keys : []<>(holder[k] = NULL)

\* No transaction of POST /tasks keeps its key: InTx ends each one it begins.
THEOREM SlotsFreed == Spec /\ AllServed => SlotsComeFree
  <1>1. ASSUME NEW r \in Requests
        PROVE  []Inv /\ [][Next]_vars /\ Served(r) =>
                   (pc[r] \notin {"idle", "acquire"} ~> pc[r] \in {"done", "lost"})
    <2>1. Inv => (pc[r] \notin {"idle", "acquire"} => Came(r, 2))
      BY DEF Inv, TypeOK, PCs, Came, Rank
    <2>2. Inv => (Came(r, 7) => pc[r] \in {"done", "lost"})
      BY DEF Inv, TypeOK, PCs, Came, Rank
    <2> QED
      BY <2>1, <2>2, ClaimedEnds, PTL
  <1>2. ASSUME NEW k \in Keys
        PROVE  []Inv /\ [][Next]_vars /\ []AllServed =>
                   []<>(holder[k] = NULL)
    <2> DEFINE Unheld == holder[k] = NULL
               Has(r) == holder[k] = r
    <2>1. ASSUME NEW r \in Requests
          PROVE  []Inv /\ [][Next]_vars /\ Served(r) => (Has(r) => <>Unheld)
      <3>1. Inv /\ Has(r) => Came(r, 2) /\ ~Came(r, 7)
        BY NullAssumption DEF Inv, LockInv, Owning, Came, Rank
      <3>2. Inv /\ [Next]_vars /\ Has(r) => Has(r)' \/ Unheld'
        BY HolderStep, NullAssumption
      <3> HIDE DEF Has, Unheld
      <3> QED
        BY <3>1, <3>2, ClaimedEnds, PTL
    <2>2. Inv => Unheld \/ \E r \in Requests : Has(r)
      BY DEF Inv, TypeOK
    <2> SUFFICES ASSUME []Inv, [][Next]_vars, []AllServed PROVE []<>Unheld
      OBVIOUS
    <2>3. \A r \in Requests : Has(r) => <>Unheld
      <3> SUFFICES ASSUME NEW r \in Requests PROVE Has(r) => <>Unheld
        OBVIOUS
      <3>1. AllServed
        BY PTL
      <3>2. Served(r)
        BY <3>1 DEF AllServed
      <3> QED
        BY <2>1, <3>2, PTL
    <2>4. Inv
      BY PTL
    <2>5. Unheld \/ <>Unheld
      BY <2>2, <2>3, <2>4
    <2> HIDE DEF Unheld
    <2> QED
      BY <2>5, PTL
  <1>3. AllServed => []AllServed
    <2>1. ASSUME NEW r \in Requests PROVE Served(r) => []Served(r)
      BY PTL DEF Served
    <2>2. AllServed => \A r \in Requests : []Served(r)
      BY <2>1 DEF AllServed
    <2>3. (\A r \in Requests : []Served(r)) => []AllServed
      BY DEF AllServed
    <2> QED
      BY <2>2, <2>3
  <1> SUFFICES ASSUME Spec, AllServed PROVE SlotsComeFree
    OBVIOUS
  <1>4. []Inv /\ [][Next]_vars
    BY Invariance, PTL DEF Spec
  <1> QED
    BY <1>1, <1>2, <1>3, <1>4 DEF SlotsComeFree, AllServed

\* Weak fairness is not enough for who waits while others come and go: this
\* is strong fairness of Serve(r), what PostgreSQL's queue of waiters gives.
Queued(r) == <>[]~Ready(r) \/ []<><<Serve(r)>>_vars
AllQueued == \A r \in Requests : Queued(r)

LEMMA FairQueues ==
    ASSUME NEW r \in Requests
    PROVE  SF_vars(Serve(r)) /\ [](Ready(r) => ENABLED <<Serve(r)>>_vars) => Queued(r)
  BY PTL DEF Queued

\* A request waits for one slot, and does not change its mind.
WaitsAt(r, k) == pc[r] = "acquire" /\ key[r] = k

LEMMA WaitingStep ==
    ASSUME Inv, Inv', [Next]_vars, NEW r \in Requests, NEW k \in Keys, WaitsAt(r, k)
    PROVE  /\ WaitsAt(r, k)' \/ Came(r, 2)'
           /\ Serve(r) => Came(r, 2)'
           /\ Ready(r) <=> holder[k] = NULL
  <1> DEFINE m == Rank(pc'[r])
  <1>1. m \in 0..7 /\ Rank(pc[r]) = 1
    BY DEF Inv, TypeOK, PCs, Rank, WaitsAt
  <1>2. pc'[r] = pc[r] \/ Rank(pc[r]) < m
    BY StepForward
  <1>3. Serve(r) => Rank(pc[r]) < m
    BY StepForward
  <1>4. pc'[r] = pc[r] => key'[r] = key[r]
    <2> USE DEF Inv, TypeOK, Goto, WaitsAt
    <2>1. ASSUME NEW q \in Requests, NEW c \in Keys, NEW b \in Bodies, Begin(q, c, b)
          PROVE  key'[r] = key[r]
      BY <2>1 DEF Begin
    <2>2. ASSUME NEW q \in Requests, Serve(q) \/ CommitFails(q) \/ Fail(q) \/ Crash(q)
          PROVE  key' = key
      BY <2>2 DEF Serve, Acquire, AcquireFresh, AcquireReclaim, AcquireConflict, Get,
                  GetInFlight, GetReplay, InsertTask, Complete, Commit, Rollback, Reply,
                  AbortOrphan, CommitFails, Fail, Crash, request
    <2>3. CASE Tick \/ Idle \/ UNCHANGED vars
      BY <2>3 DEF Tick, Idle, vars, request
    <2> QED
      BY <2>1, <2>2, <2>3 DEF Next
  <1>5. Rank(pc[r]) < m => Came(r, 2)'
    <2> SUFFICES Rank(pc[r]) < m => m >= 2
      BY DEF Came
    <2> HIDE DEF m
    <2> QED
      BY <1>1
  <1>6. Ready(r) <=> holder[k] = NULL
    BY DEF Ready, SlotFree, WaitsAt
  <1> QED
    BY <1>2, <1>3, <1>4, <1>5, <1>6 DEF WaitsAt

\* Whoever holds the slot of a key, and however many come for it.
THEOREM EveryoneEnds == Spec /\ AllQueued => EveryRequestEnds
  <1> DEFINE Ended(r) == pc[r] \in {"done", "lost"}
  <1>1. ASSUME NEW r \in Requests PROVE Queued(r) => Served(r)
    BY PTL DEF Queued, Served
  <1>2. AllQueued => AllServed
    BY <1>1 DEF AllQueued, AllServed
  <1>3. ASSUME NEW r \in Requests, NEW k \in Keys
        PROVE  []Inv /\ [][Next]_vars /\ Queued(r) /\ []<>(holder[k] = NULL) =>
                   [](WaitsAt(r, k) => <>Ended(r))
    <2>1. Inv /\ Inv' /\ [Next]_vars /\ WaitsAt(r, k) =>
              /\ WaitsAt(r, k)' \/ Came(r, 2)'
              /\ <<Serve(r)>>_vars => Came(r, 2)'
              /\ Ready(r) <=> holder[k] = NULL
      BY WaitingStep
    <2>2. []Inv /\ [][Next]_vars /\ Served(r) => (Came(r, 2) ~> Came(r, 7))
      BY ClaimedEnds
    <2>3. Inv => (Came(r, 7) => Ended(r))
      BY DEF Inv, TypeOK, PCs, Came, Rank
    <2>4. Queued(r) => Served(r)
      BY <1>1
    <2> HIDE DEF Ended
    <2> QED
      BY <2>1, <2>2, <2>3, <2>4, PTL DEF Queued
  <1>4. ASSUME NEW r \in Requests
        PROVE  []Inv /\ [](\A k \in Keys : WaitsAt(r, k) => <>Ended(r)) =>
                   (pc[r] = "acquire" ~> Ended(r))
    <2> DEFINE NoWaiterLeft == \A k \in Keys : WaitsAt(r, k) => <>Ended(r)
    <2>1. Inv /\ NoWaiterLeft => (pc[r] = "acquire" => <>Ended(r))
      BY DEF Inv, TypeOK, WaitsAt
    <2>2. []Inv /\ []NoWaiterLeft => (pc[r] = "acquire" ~> Ended(r))
      <3> HIDE DEF Ended, NoWaiterLeft
      <3> QED
        BY <2>1, PTL
    <2> QED
      BY <2>2
  <1> SUFFICES ASSUME Spec, AllQueued PROVE EveryRequestEnds
    OBVIOUS
  <1>5. []Inv /\ [][Next]_vars
    BY Invariance, PTL DEF Spec
  <1>6. \A k \in Keys : []<>(holder[k] = NULL)
    BY <1>2, SlotsFreed DEF SlotsComeFree
  <1>7. ASSUME NEW r \in Requests PROVE pc[r] = "acquire" ~> Ended(r)
    <2>1. Queued(r)
      BY DEF AllQueued
    <2>2. \A k \in Keys : [](WaitsAt(r, k) => <>Ended(r))
      BY <1>3, <1>5, <1>6, <2>1
    <2>3. [](\A k \in Keys : WaitsAt(r, k) => <>Ended(r))
      BY <2>2
    <2> HIDE DEF Ended
    <2> QED
      BY <1>4, <1>5, <2>3
  <1> QED
    BY <1>7 DEF EveryRequestEnds

=============================================================================

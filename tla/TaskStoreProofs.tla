-------------------------- MODULE TaskStoreProofs ---------------------------
(***************************************************************************)
(* Proofs about the task endpoints, for any number of requests, tasks,     *)
(* users and teams.                                                        *)
(***************************************************************************)
EXTENDS TaskStore, TLAPS

-----------------------------------------------------------------------------
(* The inductive invariant                                                 *)

\* Labels at which an assignment has its row and goes on to change it.
Owning == {"findAssignee", "updateAssignee", "insertLog", "notify", "commit"}

\* A locked row has one holder, an open assignment of that task, and an
\* assignment past its first statement has its row.
LockInv ==
    /\ \A t \in Tasks :
           lock[t] # NULL =>
               /\ op[lock[t]].task = t
               /\ pc[lock[t]] \in Owning \cup {"rollback", "orphan"}
    /\ \A r \in Requests :
           pc[r] \in Owning => lock[op[r].task] = r

\* Every label belongs to the endpoints that can reach it.
KindInv ==
    \A r \in Requests :
        /\ pc[r] = "read" => op[r].kind \in {"get", "update", "delete"}
        /\ pc[r] = "write" => op[r].kind \in {"update", "delete"}
        /\ pc[r] \in Owning \cup {"forUpdate", "rollback", "orphan"} =>
               op[r].kind = "assign"

\* What an assignment knows and has written so far, label by label: the row
\* it read is still the committed one.
AssignOK(r) ==
    LET t == op[r].task IN
    /\ pc[r] \in Owning =>
           /\ task[t] # NULL
           /\ seen[r] = task[t]
           /\ task[t].team = TeamOf[op[r].actor]
    /\ pc[r] \in Owning \ {"findAssignee"} =>
           /\ op[r].arg \in Users
           /\ TeamOf[op[r].arg] = TeamOf[op[r].actor]
    /\ pc[r] \in {"insertLog", "notify", "commit"} =>
           draft[r] = [task[t] EXCEPT !.assignee = op[r].arg]
    /\ pc[r] \in {"notify", "commit"} =>
           entry[r] = [id |-> r, actor |-> op[r].actor,
                       from |-> task[t].assignee, to |-> op[r].arg]
    /\ pc[r] = "commit" => r \in notified /\ out[r] = 200

AssignInv == \A r \in Requests : AssignOK(r)

\* What an update or a deletion has checked still holds, unless the task is gone.
CheckOK(r) ==
    LET t == op[r].task IN
    pc[r] = "write" =>
        /\ born[t] # NULL
        /\ task[t] # NULL =>
               /\ task[t].team = TeamOf[op[r].actor]
               /\ op[r].kind = "delete" => task[t].creator = op[r].actor

CheckInv == \A r \in Requests : CheckOK(r)

\* A task was made before it is there, its log is there only while it is, and
\* each assignment is logged once, by a request whose commit took effect.
StoreInv ==
    /\ \A t \in Tasks :
           /\ task[t] # NULL => born[t] # NULL
           /\ task[t] = NULL => logs[t] = <<>>
    /\ \A t \in Tasks : \A i \in 1..Len(logs[t]) :
           LET r == logs[t][i].id IN
           pc[r] \in {"reply", "done", "lost"} /\ out[r] \in {200, 500} /\ r \in notified

\* What an answer that is on its way, or was sent, implies about its task.
AnswerOK(r) ==
    LET t == op[r].task IN
    /\ r \in notified =>
           /\ pc[r] \in {"commit", "rollback", "orphan", "reply", "done", "lost"}
           /\ pc[r] \in {"commit", "rollback", "reply", "done"} => out[r] \in {200, 500}
    /\ pc[r] = "rollback" => out[r] \in {403, 404, 422, 500}
    /\ pc[r] \in {"reply", "done"} => out[r] \in Statuses
    /\ pc[r] \in {"rollback", "reply", "done"} /\ out[r] \notin {404, 500} =>
           /\ born[t] # NULL
           /\ task[t] # NULL => task[t].team = TeamOf[op[r].actor]
    /\ pc[r] \in {"reply", "done"} /\ op[r].kind = "assign" /\ out[r] = 200 =>
           /\ r \in notified
           /\ task[t] # NULL => LoggedBy(r)
    /\ pc[r] \in {"reply", "done"} /\ op[r].kind = "delete" /\ out[r] = 204 =>
           task[t] = NULL
    /\ pc[r] \in {"reply", "done"} /\ op[r].kind = "assign" => out[r] # 204

AnswerInv == \A r \in Requests : AnswerOK(r)

Inv ==
    /\ TypeOK
    /\ LockInv
    /\ KindInv
    /\ AssignInv
    /\ CheckInv
    /\ StoreInv
    /\ LogChain
    /\ AnswerInv

-----------------------------------------------------------------------------
(* The steps                                                               *)

\* What a request that has arrived asks for.
Asks(r) ==
    /\ op[r].kind \in {"get", "update", "delete", "assign"}
    /\ op[r].actor \in Users
    /\ op[r].task \in Tasks
    /\ op[r].kind = "assign" => op[r].arg \in Users \cup {Stranger}
    /\ op[r].kind = "update" => op[r].arg \in Data

\* Operations have the shape their endpoint gives them.
LEMMA OpShape ==
    ASSUME NEW o \in Op
    PROVE  /\ o.kind \in {"get", "update", "delete", "assign"}
           /\ o.actor \in Users
           /\ o.task \in Tasks
           /\ o.kind = "assign" => o.arg \in Users \cup {Stranger}
           /\ o.kind = "update" => o.arg \in Data
  BY KindAssumption DEF Op

\* A request asks for something from its arrival on.
LEMMA Asked == TypeOK => \A r \in Requests : pc[r] # "idle" => Asks(r)
  BY OpShape DEF TypeOK, Asks

\* A reassigned row is a row.
LEMMA AssigneeShape ==
    ASSUME NEW w \in Row, NEW u \in Users
    PROVE  /\ [w EXCEPT !.assignee = u] \in Row
           /\ w.assignee \in Users
           /\ w # NULL
  BY NullAssumption DEF Row

\* An update of a row is a row.
LEMMA DataShape ==
    ASSUME NEW w \in Row, NEW d \in Data
    PROVE  [w EXCEPT !.data = d] \in Row
  BY DEF Row

\* An entry is put together from a request and users.
LEMMA EntryShape ==
    ASSUME NEW r \in Requests, NEW u \in Users, NEW v \in Users, NEW w \in Users
    PROVE  [id |-> r, actor |-> u, from |-> v, to |-> w] \in Entry
  BY DEF Entry

\* The statuses the endpoints give.
LEMMA StatusValues ==
    /\ 200 \in Statuses /\ 204 \in Statuses /\ 403 \in Statuses
    /\ 404 \in Statuses /\ 422 \in Statuses /\ 500 \in Statuses
  BY DEF Statuses

\* A step that sets a result at most sets it to a status.
LEMMA OutShape ==
    ASSUME NEW r \in Requests, out \in [Requests -> Statuses \cup {0}],
           UNCHANGED out \/ \E s \in Statuses : out' = [out EXCEPT ![r] = s]
    PROVE  out' \in [Requests -> Statuses \cup {0}]
  OBVIOUS

\* What a transaction that is about to commit has in hand.
LEMMA Committing ==
    ASSUME Inv, NEW r \in Requests, pc[r] = "commit"
    PROVE  LET t == op[r].task IN
           /\ t \in Tasks
           /\ task[t] \in Row
           /\ op[r].arg \in Users
           /\ draft[r] = [task[t] EXCEPT !.assignee = op[r].arg]
           /\ draft[r] \in Row
           /\ entry[r] = [id |-> r, actor |-> op[r].actor,
                          from |-> task[t].assignee, to |-> op[r].arg]
           /\ entry[r] \in Entry
           /\ entry[r].id = r
           /\ r \in notified
           /\ out[r] = 200
  <1>1. /\ op[r].task \in Tasks
        /\ op[r].actor \in Users
    BY Asked DEF Inv, Asks
  <1>2. /\ task[op[r].task] \in Row
        /\ op[r].arg \in Users
        /\ draft[r] = [task[op[r].task] EXCEPT !.assignee = op[r].arg]
        /\ entry[r] = [id |-> r, actor |-> op[r].actor,
                       from |-> task[op[r].task].assignee, to |-> op[r].arg]
        /\ r \in notified
        /\ out[r] = 200
    BY <1>1 DEF Inv, TypeOK, AssignInv, AssignOK, Owning
  <1> QED
    BY <1>1, <1>2, AssigneeShape, EntryShape

\* The first state satisfies the invariant.
LEMMA InitInv == Init => Inv
  <1> SUFFICES ASSUME Init PROVE Inv
    OBVIOUS
  <1> USE NullAssumption DEF Init
  <1>1. TypeOK
    BY DEF TypeOK, PCs
  <1>2. LockInv /\ KindInv /\ AssignInv /\ CheckInv
    BY DEF LockInv, KindInv, AssignInv, AssignOK, CheckInv, CheckOK, Owning
  <1>3. StoreInv /\ LogChain /\ AnswerInv
    BY DEF StoreInv, LogChain, AnswerInv, AnswerOK
  <1> QED
    BY <1>1, <1>2, <1>3 DEF Inv

\* Every action writes values of the right shape.
LEMMA TypeStep == Inv /\ [Next]_vars => TypeOK'
  <1> SUFFICES ASSUME Inv, [Next]_vars PROVE TypeOK'
    OBVIOUS
  <1>0. \A q \in Requests : pc[q] # "idle" => Asks(q)
    BY Asked DEF Inv
  <1> USE DEF Inv, TypeOK, PCs, Goto, store, tx
  <1>1. ASSUME NEW t \in Tasks, NEW u \in Users, NEW v \in Users, NEW d \in Data,
               Create(t, u, v, d)
        PROVE  TypeOK'
    BY <1>1, TeamAssumption DEF Create, Row
  <1>2. ASSUME NEW r \in Requests, NEW o \in Op, Arrive(r, o) PROVE TypeOK'
    BY <1>2, <1>0 DEF Arrive, Asks
  <1>3. ASSUME NEW r \in Requests, Read(r) PROVE TypeOK'
    <2>1. pc' \in [Requests -> PCs] /\ \A q \in Requests : pc'[q] # "idle" => op[q] \in Op
      BY <1>3 DEF Read, Finish
    <2>2. UNCHANGED out \/ \E s \in Statuses : out' = [out EXCEPT ![r] = s]
      BY <1>3, StatusValues DEF Read, Finish
    <2>3. out' \in [Requests -> Statuses \cup {0}]
      BY <1>3, <2>2, OutShape
    <2>4. seen' \in [Requests -> Row \cup {NULL}]
      BY <1>3, <1>0 DEF Read, Asks
    <2> QED
      BY <1>3, <2>1, <2>2, <2>3, <2>4 DEF Read
  <1>4. ASSUME NEW r \in Requests, WriteUpdate(r) PROVE TypeOK'
    <2>1. pc' \in [Requests -> PCs] /\ \A q \in Requests : pc'[q] # "idle" => op[q] \in Op
      BY <1>4 DEF WriteUpdate, Finish
    <2>2. UNCHANGED out \/ \E s \in Statuses : out' = [out EXCEPT ![r] = s]
      BY <1>4, StatusValues DEF WriteUpdate, Finish
    <2>3. out' \in [Requests -> Statuses \cup {0}]
      BY <1>4, <2>2, OutShape
    <2>4. op[r].task \in Tasks /\ op[r].arg \in Data
      BY <1>4, <1>0 DEF WriteUpdate, Asks
    <2>5. \/ UNCHANGED task
          \/ /\ task[op[r].task] \in Row
             /\ task' = [task EXCEPT ![op[r].task] =
                            [task[op[r].task] EXCEPT !.data = op[r].arg]]
      BY <1>4, <2>4 DEF WriteUpdate
    <2>6. \A w \in Row : [w EXCEPT !.data = op[r].arg] \in Row
      BY <1>4, <2>4, DataShape
    <2>7. task' \in [Tasks -> Row \cup {NULL}]
      BY <1>4, <2>4, <2>5, <2>6
    <2> QED
      BY <1>4, <2>1, <2>2, <2>3, <2>4, <2>5, <2>6, <2>7 DEF WriteUpdate
  <1>5. ASSUME NEW r \in Requests, WriteDelete(r) PROVE TypeOK'
    BY <1>5, <1>0 DEF WriteDelete, Free, Finish, Asks, Statuses
  <1>6. ASSUME NEW r \in Requests, PoolFails(r) PROVE TypeOK'
    BY <1>6, <1>0 DEF PoolFails, Finish, Asks, Statuses
  <1>7. ASSUME NEW r \in Requests, GetForUpdate(r) PROVE TypeOK'
    <2>1. pc' \in [Requests -> PCs] /\ \A q \in Requests : pc'[q] # "idle" => op[q] \in Op
      BY <1>7 DEF GetForUpdate, Abandon
    <2>2. UNCHANGED out \/ \E s \in Statuses : out' = [out EXCEPT ![r] = s]
      BY <1>7, StatusValues DEF GetForUpdate, Abandon
    <2>3. out' \in [Requests -> Statuses \cup {0}]
      BY <1>7, <2>2, OutShape
    <2>4. seen' \in [Requests -> Row \cup {NULL}]
      BY <1>7, <1>0 DEF GetForUpdate, Asks
    <2>5. lock' \in [Tasks -> Requests \cup {NULL}]
      BY <1>7 DEF GetForUpdate
    <2> QED
      BY <1>7, <2>1, <2>2, <2>3, <2>4, <2>5 DEF GetForUpdate
  <1>8. ASSUME NEW r \in Requests, FindAssignee(r) PROVE TypeOK'
    <2>1. pc' \in [Requests -> PCs] /\ \A q \in Requests : pc'[q] # "idle" => op[q] \in Op
      BY <1>8 DEF FindAssignee, Abandon
    <2>2. UNCHANGED out \/ \E s \in Statuses : out' = [out EXCEPT ![r] = s]
      BY <1>8, StatusValues DEF FindAssignee, Abandon
    <2>3. out' \in [Requests -> Statuses \cup {0}]
      BY <1>8, <2>2, OutShape
    <2> QED
      BY <1>8, <2>1, <2>2, <2>3 DEF FindAssignee
  <1>9. ASSUME NEW r \in Requests, UpdateAssignee(r) PROVE TypeOK'
    <2>1. task[op[r].task] \in Row /\ op[r].arg \in Users
      BY <1>9, <1>0 DEF UpdateAssignee, Asks, AssignInv, AssignOK, Owning
    <2>2. [task[op[r].task] EXCEPT !.assignee = op[r].arg] \in Row
      BY <1>9, <2>1 DEF Row
    <2> QED
      BY <1>9, <2>1, <2>2 DEF UpdateAssignee
  <1>10. ASSUME NEW r \in Requests, InsertLog(r) PROVE TypeOK'
    <2>1. seen[r] \in Row /\ op[r].arg \in Users /\ op[r].actor \in Users
      BY <1>10, <1>0 DEF InsertLog, Asks, AssignInv, AssignOK, Owning
    <2>2. [id |-> r, actor |-> op[r].actor, from |-> seen[r].assignee, to |-> op[r].arg] \in Entry
      BY <1>10, <2>1 DEF Row, Entry
    <2> QED
      BY <1>10, <2>1, <2>2 DEF InsertLog
  <1>11. ASSUME NEW r \in Requests, Notify(r) PROVE TypeOK'
    BY <1>11, <1>0 DEF Notify, Asks, Statuses
  <1>12. ASSUME NEW r \in Requests, Commit(r) PROVE TypeOK'
    <2>1. op[r].task \in Tasks /\ draft[r] \in Row /\ entry[r] \in Entry
      BY <1>12, Committing DEF Commit
    <2>2. pc' \in [Requests -> PCs] /\ \A q \in Requests : pc'[q] # "idle" => op[q] \in Op
      BY <1>12 DEF Commit, Finish
    <2>3. out' \in [Requests -> Statuses \cup {0}]
      BY <1>12, StatusValues DEF Commit, Finish
    <2>4. task' \in [Tasks -> Row \cup {NULL}]
      BY <1>12, <2>1 DEF Commit
    <2>5. logs' \in [Tasks -> Seq(Entry)]
      BY <1>12, <2>1 DEF Commit
    <2>6. lock' \in [Tasks -> Requests \cup {NULL}]
      BY <1>12 DEF Commit, Release
    <2> QED
      BY <1>12, <2>1, <2>2, <2>3, <2>4, <2>5, <2>6 DEF Commit, Release
  <1>13. ASSUME NEW r \in Requests, AssignFails(r) PROVE TypeOK'
    BY <1>13, <1>0 DEF AssignFails, InClosure, Abandon, Asks, Statuses
  <1>14. ASSUME NEW r \in Requests, Rollback(r) PROVE TypeOK'
    BY <1>14, <1>0 DEF Rollback, Release, Asks
  <1>15. ASSUME NEW r \in Requests, Reply(r) PROVE TypeOK'
    BY <1>15, <1>0 DEF Reply, Asks
  <1>16. ASSUME NEW r \in Requests, Crash(r) PROVE TypeOK'
    <2>1. pc' \in [Requests -> PCs] /\ \A q \in Requests : pc'[q] # "idle" => op[q] \in Op
      BY <1>16 DEF Crash, InClosure
    <2> QED
      BY <1>16, <2>1 DEF Crash
  <1>17. ASSUME NEW r \in Requests, AbortOrphan(r) PROVE TypeOK'
    BY <1>17, <1>0 DEF AbortOrphan, Release, Asks
  <1>18. CASE UNCHANGED vars
    BY <1>18 DEF vars
  <1> QED
    BY <1>1, <1>2, <1>3, <1>4, <1>5, <1>6, <1>7, <1>8, <1>9,
       <1>10, <1>11, <1>12, <1>13, <1>14, <1>15, <1>16, <1>17, <1>18
       DEF Next, Serve, Assign, Idle

\* Rows are locked only when free and released only by their holder.
LEMMA LockStep == Inv /\ [Next]_vars => LockInv'
  <1> SUFFICES ASSUME Inv, [Next]_vars PROVE LockInv'
    OBVIOUS
  <1>0. \A q \in Requests : pc[q] # "idle" => Asks(q)
    BY Asked DEF Inv
  <1> USE NullAssumption DEF Inv, TypeOK, PCs, Goto, store, tx, LockInv, KindInv, Owning
  <1>1. ASSUME NEW t \in Tasks, NEW u \in Users, NEW v \in Users, NEW d \in Data,
               Create(t, u, v, d)
        PROVE  LockInv'
    BY <1>1 DEF Create
  <1>2. ASSUME NEW r \in Requests, NEW o \in Op, Arrive(r, o) PROVE LockInv'
    BY <1>2, <1>0 DEF Arrive, Asks
  <1>3. ASSUME NEW r \in Requests, Read(r) PROVE LockInv'
    <2>1. pc[r] = "read" /\ \E l \in {"write", "reply"} : pc' = [pc EXCEPT ![r] = l]
      BY <1>3 DEF Read, Finish
    <2>2. UNCHANGED <<lock, op>>
      BY <1>3 DEF Read
    <2> QED
      BY <1>0, <2>1, <2>2 DEF Asks
  <1>4. ASSUME NEW r \in Requests, WriteUpdate(r) PROVE LockInv'
    <2>1. pc[r] = "write" /\ \E l \in {"reply"} : pc' = [pc EXCEPT ![r] = l]
      BY <1>4 DEF WriteUpdate, Finish
    <2>2. UNCHANGED <<lock, op>>
      BY <1>4 DEF WriteUpdate
    <2> QED
      BY <1>0, <2>1, <2>2 DEF Asks
  <1>5. ASSUME NEW r \in Requests, WriteDelete(r) PROVE LockInv'
    BY <1>5, <1>0 DEF WriteDelete, Free, Finish, Asks
  <1>6. ASSUME NEW r \in Requests, PoolFails(r) PROVE LockInv'
    BY <1>6, <1>0 DEF PoolFails, Finish, Asks
  <1>7. ASSUME NEW r \in Requests, GetForUpdate(r) PROVE LockInv'
    BY <1>7, <1>0 DEF GetForUpdate, Free, Visible, Abandon, Asks
  <1>8. ASSUME NEW r \in Requests, FindAssignee(r) PROVE LockInv'
    <2>1. pc[r] = "findAssignee" /\ \E l \in {"updateAssignee", "rollback"} : pc' = [pc EXCEPT ![r] = l]
      BY <1>8 DEF FindAssignee, Abandon
    <2>2. UNCHANGED <<lock, op>>
      BY <1>8 DEF FindAssignee
    <2> QED
      BY <1>0, <2>1, <2>2 DEF Asks
  <1>9. ASSUME NEW r \in Requests, UpdateAssignee(r) PROVE LockInv'
    BY <1>9, <1>0 DEF UpdateAssignee, Asks
  <1>10. ASSUME NEW r \in Requests, InsertLog(r) PROVE LockInv'
    BY <1>10, <1>0 DEF InsertLog, Asks
  <1>11. ASSUME NEW r \in Requests, Notify(r) PROVE LockInv'
    BY <1>11, <1>0 DEF Notify, Asks
  <1>12. ASSUME NEW r \in Requests, Commit(r) PROVE LockInv'
    BY <1>12, <1>0 DEF Commit, Release, Finish, Asks
  <1>13. ASSUME NEW r \in Requests, AssignFails(r) PROVE LockInv'
    BY <1>13, <1>0 DEF AssignFails, InClosure, Abandon, Asks
  <1>14. ASSUME NEW r \in Requests, Rollback(r) PROVE LockInv'
    BY <1>14, <1>0 DEF Rollback, Release, Asks
  <1>15. ASSUME NEW r \in Requests, Reply(r) PROVE LockInv'
    BY <1>15, <1>0 DEF Reply, Asks
  <1>16. ASSUME NEW r \in Requests, Crash(r) PROVE LockInv'
    <2>1. \/ pc[r] \in InClosure \cup {"notify", "commit", "rollback"} /\ pc' = [pc EXCEPT ![r] = "orphan"]
          \/ pc[r] \in {"read", "write", "reply"} /\ pc' = [pc EXCEPT ![r] = "lost"]
      BY <1>16 DEF Crash, InClosure
    <2>2. UNCHANGED <<lock, op>>
      BY <1>16 DEF Crash
    <2> QED
      BY <1>0, <2>1, <2>2 DEF Asks, InClosure
  <1>17. ASSUME NEW r \in Requests, AbortOrphan(r) PROVE LockInv'
    BY <1>17, <1>0 DEF AbortOrphan, Release, Asks
  <1>18. CASE UNCHANGED vars
    BY <1>18 DEF vars
  <1> QED
    BY <1>1, <1>2, <1>3, <1>4, <1>5, <1>6, <1>7, <1>8, <1>9,
       <1>10, <1>11, <1>12, <1>13, <1>14, <1>15, <1>16, <1>17, <1>18
       DEF Next, Serve, Assign, Idle

\* Requests stay on the path of their endpoint.
LEMMA KindStep == Inv /\ [Next]_vars => KindInv'
  <1> SUFFICES ASSUME Inv, [Next]_vars PROVE KindInv'
    OBVIOUS
  <1>0. \A q \in Requests : pc[q] # "idle" => Asks(q)
    BY Asked DEF Inv
  <1> USE DEF Inv, TypeOK, PCs, Goto, store, tx, KindInv, LockInv, Owning
  <1>1. ASSUME NEW t \in Tasks, NEW u \in Users, NEW v \in Users, NEW d \in Data,
               Create(t, u, v, d)
        PROVE  KindInv'
    BY <1>1 DEF Create
  <1>2. ASSUME NEW r \in Requests, NEW o \in Op, Arrive(r, o) PROVE KindInv'
    BY <1>2, <1>0, OpShape DEF Arrive, Asks
  <1>3. ASSUME NEW r \in Requests, Read(r) PROVE KindInv'
    BY <1>3, <1>0 DEF Read, Visible, Finish, Asks
  <1>4. ASSUME NEW r \in Requests, WriteUpdate(r) PROVE KindInv'
    BY <1>4, <1>0 DEF WriteUpdate, Free, Finish, Asks
  <1>5. ASSUME NEW r \in Requests, WriteDelete(r) PROVE KindInv'
    BY <1>5, <1>0 DEF WriteDelete, Free, Finish, Asks
  <1>6. ASSUME NEW r \in Requests, PoolFails(r) PROVE KindInv'
    BY <1>6, <1>0 DEF PoolFails, Finish, Asks
  <1>7. ASSUME NEW r \in Requests, GetForUpdate(r) PROVE KindInv'
    BY <1>7, <1>0 DEF GetForUpdate, Free, Visible, Abandon, Asks
  <1>8. ASSUME NEW r \in Requests, FindAssignee(r) PROVE KindInv'
    BY <1>8, <1>0 DEF FindAssignee, Abandon, Asks
  <1>9. ASSUME NEW r \in Requests, UpdateAssignee(r) PROVE KindInv'
    BY <1>9, <1>0 DEF UpdateAssignee, Asks
  <1>10. ASSUME NEW r \in Requests, InsertLog(r) PROVE KindInv'
    BY <1>10, <1>0 DEF InsertLog, Asks
  <1>11. ASSUME NEW r \in Requests, Notify(r) PROVE KindInv'
    BY <1>11, <1>0 DEF Notify, Asks
  <1>12. ASSUME NEW r \in Requests, Commit(r) PROVE KindInv'
    BY <1>12, <1>0 DEF Commit, Release, Finish, Asks
  <1>13. ASSUME NEW r \in Requests, AssignFails(r) PROVE KindInv'
    BY <1>13, <1>0 DEF AssignFails, InClosure, Abandon, Asks
  <1>14. ASSUME NEW r \in Requests, Rollback(r) PROVE KindInv'
    BY <1>14, <1>0 DEF Rollback, Release, Asks
  <1>15. ASSUME NEW r \in Requests, Reply(r) PROVE KindInv'
    BY <1>15, <1>0 DEF Reply, Asks
  <1>16. ASSUME NEW r \in Requests, Crash(r) PROVE KindInv'
    BY <1>16, <1>0 DEF Crash, InClosure, Asks
  <1>17. ASSUME NEW r \in Requests, AbortOrphan(r) PROVE KindInv'
    BY <1>17, <1>0 DEF AbortOrphan, Release, Asks
  <1>18. CASE UNCHANGED vars
    BY <1>18 DEF vars
  <1> QED
    BY <1>1, <1>2, <1>3, <1>4, <1>5, <1>6, <1>7, <1>8, <1>9,
       <1>10, <1>11, <1>12, <1>13, <1>14, <1>15, <1>16, <1>17, <1>18
       DEF Next, Serve, Assign, Idle

-----------------------------------------------------------------------------
(* What a step of one request leaves alone                                 *)

\* A step of request r after its arrival.
Acts(r) == Serve(r) \/ PoolFails(r) \/ AssignFails(r) \/ Crash(r)

\* No step of one request touches what another one keeps.
LEMMA Elsewhere ==
    ASSUME TypeOK, NEW r \in Requests, Acts(r), NEW q \in Requests, q # r
    PROVE  /\ pc'[q] = pc[q]
           /\ seen'[q] = seen[q]
           /\ draft'[q] = draft[q]
           /\ entry'[q] = entry[q]
           /\ out'[q] = out[q]
           /\ q \in notified' <=> q \in notified
  <1> USE DEF TypeOK, Goto, store, tx
  <1>1. CASE Read(r)
    BY <1>1 DEF Read, Visible, Finish
  <1>2. CASE WriteUpdate(r)
    BY <1>2 DEF WriteUpdate, Free, Finish
  <1>3. CASE WriteDelete(r)
    BY <1>3 DEF WriteDelete, Free, Finish
  <1>4. CASE PoolFails(r)
    BY <1>4 DEF PoolFails, Finish
  <1>5. CASE GetForUpdate(r)
    BY <1>5 DEF GetForUpdate, Free, Visible, Abandon
  <1>6. CASE FindAssignee(r)
    BY <1>6 DEF FindAssignee, Abandon
  <1>7. CASE UpdateAssignee(r)
    BY <1>7 DEF UpdateAssignee
  <1>8. CASE InsertLog(r)
    BY <1>8 DEF InsertLog
  <1>9. CASE Notify(r)
    BY <1>9 DEF Notify
  <1>10. CASE Commit(r)
    BY <1>10 DEF Commit, Release, Finish
  <1>11. CASE AssignFails(r)
    BY <1>11 DEF AssignFails, InClosure, Abandon
  <1>12. CASE Rollback(r)
    BY <1>12 DEF Rollback, Release
  <1>13. CASE Reply(r)
    BY <1>13 DEF Reply
  <1>14. CASE Crash(r)
    BY <1>14 DEF Crash, InClosure
  <1>15. CASE AbortOrphan(r)
    BY <1>15 DEF AbortOrphan, Release
  <1> QED
    BY <1>1, <1>2, <1>3, <1>4, <1>5, <1>6, <1>7, <1>8,
       <1>9, <1>10, <1>11, <1>12, <1>13, <1>14, <1>15
       DEF Acts, Serve, Assign

\* No step but an arrival changes what is asked for, none of a request makes a task.
LEMMA Fixed == ASSUME NEW r \in Requests, Acts(r) PROVE op' = op /\ born' = born
  <1> USE DEF store, tx
  <1>1. CASE Read(r)
    BY <1>1 DEF Read, Visible, Finish
  <1>2. CASE WriteUpdate(r)
    BY <1>2 DEF WriteUpdate, Free, Finish
  <1>3. CASE WriteDelete(r)
    BY <1>3 DEF WriteDelete, Free, Finish
  <1>4. CASE PoolFails(r)
    BY <1>4 DEF PoolFails, Finish
  <1>5. CASE GetForUpdate(r)
    BY <1>5 DEF GetForUpdate, Free, Visible, Abandon
  <1>6. CASE FindAssignee(r)
    BY <1>6 DEF FindAssignee, Abandon
  <1>7. CASE UpdateAssignee(r)
    BY <1>7 DEF UpdateAssignee
  <1>8. CASE InsertLog(r)
    BY <1>8 DEF InsertLog
  <1>9. CASE Notify(r)
    BY <1>9 DEF Notify
  <1>10. CASE Commit(r)
    BY <1>10 DEF Commit, Release, Finish
  <1>11. CASE AssignFails(r)
    BY <1>11 DEF AssignFails, InClosure, Abandon
  <1>12. CASE Rollback(r)
    BY <1>12 DEF Rollback, Release
  <1>13. CASE Reply(r)
    BY <1>13 DEF Reply
  <1>14. CASE Crash(r)
    BY <1>14 DEF Crash, InClosure
  <1>15. CASE AbortOrphan(r)
    BY <1>15 DEF AbortOrphan, Release
  <1> QED
    BY <1>1, <1>2, <1>3, <1>4, <1>5, <1>6, <1>7, <1>8,
       <1>9, <1>10, <1>11, <1>12, <1>13, <1>14, <1>15
       DEF Acts, Serve, Assign

\* Only three actions change the store, each only the task asked for, and only
\* when nobody else has it locked.
LEMMA StoreChange ==
    ASSUME Inv, NEW r \in Requests, Acts(r), NEW t \in Tasks,
           task'[t] # task[t] \/ logs'[t] # logs[t]
    PROVE  /\ WriteUpdate(r) \/ WriteDelete(r) \/ Commit(r)
           /\ t = op[r].task
           /\ lock[t] \in {NULL, r}
  <1>0. Asks(r) \/ pc[r] = "idle"
    BY Asked DEF Inv
  <1> USE DEF store, tx
  <1>1. CASE Read(r)
    BY <1>1 DEF Read, Visible, Finish
  <1>2. CASE WriteUpdate(r)
    BY <1>2, <1>0 DEF WriteUpdate, Free, Inv, TypeOK, Asks
  <1>3. CASE WriteDelete(r)
    BY <1>3, <1>0 DEF WriteDelete, Free, Inv, TypeOK, Asks
  <1>4. CASE PoolFails(r)
    BY <1>4 DEF PoolFails, Finish
  <1>5. CASE GetForUpdate(r)
    BY <1>5 DEF GetForUpdate, Free, Visible, Abandon
  <1>6. CASE FindAssignee(r)
    BY <1>6 DEF FindAssignee, Abandon
  <1>7. CASE UpdateAssignee(r)
    BY <1>7 DEF UpdateAssignee
  <1>8. CASE InsertLog(r)
    BY <1>8 DEF InsertLog
  <1>9. CASE Notify(r)
    BY <1>9 DEF Notify
  <1>10. CASE Commit(r)
    BY <1>10, <1>0 DEF Commit, Inv, TypeOK, Asks, LockInv, Owning
  <1>11. CASE AssignFails(r)
    BY <1>11 DEF AssignFails, InClosure, Abandon
  <1>12. CASE Rollback(r)
    BY <1>12 DEF Rollback, Release
  <1>13. CASE Reply(r)
    BY <1>13 DEF Reply
  <1>14. CASE Crash(r)
    BY <1>14 DEF Crash, InClosure
  <1>15. CASE AbortOrphan(r)
    BY <1>15 DEF AbortOrphan, Release
  <1> QED
    BY <1>1, <1>2, <1>3, <1>4, <1>5, <1>6, <1>7, <1>8,
       <1>9, <1>10, <1>11, <1>12, <1>13, <1>14, <1>15
       DEF Acts, Serve, Assign

\* While an assignment has its row, that row is changed by nobody else.
LEMMA Owned ==
    ASSUME Inv, NEW r \in Requests, Acts(r), NEW q \in Requests, q # r, pc[q] \in Owning
    PROVE  task'[op[q].task] = task[op[q].task]
  <1>1. op[q].task \in Tasks /\ lock[op[q].task] = q
    BY Asked DEF Inv, LockInv, Asks, Owning
  <1>2. q \notin {NULL, r}
    BY NullAssumption
  <1> QED
    BY <1>1, <1>2, StoreChange

\* Every entry of a log names the request it is of.
LEMMA LogShape ==
    TypeOK => \A t \in Tasks : \A i \in 1..Len(logs[t]) : logs[t][i].id \in Requests
  <1> SUFFICES ASSUME TypeOK, NEW t \in Tasks, NEW i \in 1..Len(logs[t])
               PROVE  logs[t][i].id \in Requests
    OBVIOUS
  <1>1. logs[t] \in Seq(Entry)
    BY DEF TypeOK
  <1>2. logs[t][i] \in Entry
    BY <1>1
  <1> QED
    BY <1>2 DEF Entry

\* What is left of a task after a step of a request still has the team and the
\* creator it had, and its log has at most grown.
LEMMA Lasting ==
    ASSUME Inv, NEW r \in Requests, Acts(r), NEW t \in Tasks, task'[t] # NULL
    PROVE  /\ task[t] # NULL
           /\ task'[t].team = task[t].team
           /\ task'[t].creator = task[t].creator
           /\ logs'[t] = logs[t] \/ \E e \in Entry : logs'[t] = Append(logs[t], e)
  <1>1. CASE task'[t] = task[t] /\ logs'[t] = logs[t]
    BY <1>1
  <1>2. CASE task'[t] # task[t] \/ logs'[t] # logs[t]
    <2>1. t = op[r].task /\ (WriteUpdate(r) \/ WriteDelete(r) \/ Commit(r))
      BY <1>2, StoreChange
    <2>2. CASE WriteUpdate(r)
      <3>1. task[t] # NULL /\ logs' = logs
        BY <2>1, <2>2 DEF WriteUpdate
      <3>2. task[t] \in Row /\ task'[t] = [task[t] EXCEPT !.data = op[r].arg]
        BY <2>1, <2>2, <3>1 DEF WriteUpdate, Inv, TypeOK
      <3> QED
        BY <3>1, <3>2 DEF Row
    <2>3. CASE WriteDelete(r)
      BY <2>1, <2>3 DEF WriteDelete, Inv, TypeOK
    <2>4. CASE Commit(r)
      <3>1. /\ task[t] \in Row
            /\ task'[t] = [task[t] EXCEPT !.assignee = op[r].arg]
        BY <2>1, <2>4, Committing DEF Commit, Inv, TypeOK
      <3>2. task[t] # NULL /\ entry[r] \in Entry /\ logs'[t] = Append(logs[t], entry[r])
        BY <2>1, <2>4, <3>1, Committing, AssigneeShape DEF Commit, Inv, TypeOK
      <3> QED
        BY <3>1, <3>2 DEF Row
    <2> QED
      BY <2>1, <2>2, <2>3, <2>4
  <1> QED
    BY <1>1, <1>2

\* Only five steps leave an assignment with its row.
LEMMA Onwards ==
    ASSUME TypeOK, NEW r \in Requests, Acts(r), pc'[r] \in Owning
    PROVE  \/ GetForUpdate(r)
           \/ FindAssignee(r)
           \/ UpdateAssignee(r)
           \/ InsertLog(r)
           \/ Notify(r)
  <1> USE DEF TypeOK, Goto, Owning
  <1>1. CASE Read(r)
    BY <1>1 DEF Read, Visible, Finish
  <1>2. CASE WriteUpdate(r)
    BY <1>2 DEF WriteUpdate, Free, Finish
  <1>3. CASE WriteDelete(r)
    BY <1>3 DEF WriteDelete, Free, Finish
  <1>4. CASE PoolFails(r)
    BY <1>4 DEF PoolFails, Finish
  <1>5. CASE GetForUpdate(r)
    BY <1>5 DEF GetForUpdate, Free, Visible, Abandon
  <1>6. CASE FindAssignee(r)
    BY <1>6 DEF FindAssignee, Abandon
  <1>7. CASE UpdateAssignee(r)
    BY <1>7 DEF UpdateAssignee
  <1>8. CASE InsertLog(r)
    BY <1>8 DEF InsertLog
  <1>9. CASE Notify(r)
    BY <1>9 DEF Notify
  <1>10. CASE Commit(r)
    BY <1>10 DEF Commit, Release, Finish
  <1>11. CASE AssignFails(r)
    BY <1>11 DEF AssignFails, InClosure, Abandon
  <1>12. CASE Rollback(r)
    BY <1>12 DEF Rollback, Release
  <1>13. CASE Reply(r)
    BY <1>13 DEF Reply
  <1>14. CASE Crash(r)
    BY <1>14 DEF Crash, InClosure
  <1>15. CASE AbortOrphan(r)
    BY <1>15 DEF AbortOrphan, Release
  <1> QED
    BY <1>1, <1>2, <1>3, <1>4, <1>5, <1>6, <1>7, <1>8,
       <1>9, <1>10, <1>11, <1>12, <1>13, <1>14, <1>15
       DEF Acts, Serve, Assign

\* An update or a deletion gets to its second statement through the first.
LEMMA Writing ==
    ASSUME TypeOK, NEW r \in Requests, Acts(r), pc[r] # "write", pc'[r] = "write"
    PROVE  Read(r)
  <1> USE DEF TypeOK, Goto
  <1>1. CASE Read(r)
    BY <1>1 DEF Read, Visible, Finish
  <1>2. CASE WriteUpdate(r)
    BY <1>2 DEF WriteUpdate, Free, Finish
  <1>3. CASE WriteDelete(r)
    BY <1>3 DEF WriteDelete, Free, Finish
  <1>4. CASE PoolFails(r)
    BY <1>4 DEF PoolFails, Finish
  <1>5. CASE GetForUpdate(r)
    BY <1>5 DEF GetForUpdate, Free, Visible, Abandon
  <1>6. CASE FindAssignee(r)
    BY <1>6 DEF FindAssignee, Abandon
  <1>7. CASE UpdateAssignee(r)
    BY <1>7 DEF UpdateAssignee
  <1>8. CASE InsertLog(r)
    BY <1>8 DEF InsertLog
  <1>9. CASE Notify(r)
    BY <1>9 DEF Notify
  <1>10. CASE Commit(r)
    BY <1>10 DEF Commit, Release, Finish
  <1>11. CASE AssignFails(r)
    BY <1>11 DEF AssignFails, InClosure, Abandon
  <1>12. CASE Rollback(r)
    BY <1>12 DEF Rollback, Release
  <1>13. CASE Reply(r)
    BY <1>13 DEF Reply
  <1>14. CASE Crash(r)
    BY <1>14 DEF Crash, InClosure
  <1>15. CASE AbortOrphan(r)
    BY <1>15 DEF AbortOrphan, Release
  <1> QED
    BY <1>1, <1>2, <1>3, <1>4, <1>5, <1>6, <1>7, <1>8,
       <1>9, <1>10, <1>11, <1>12, <1>13, <1>14, <1>15
       DEF Acts, Serve, Assign

\* What is over stays over.
LEMMA Closing ==
    ASSUME TypeOK, NEW r \in Requests, Acts(r), pc[r] \in {"reply", "done", "lost"}
    PROVE  /\ pc'[r] \in {"reply", "done", "lost"}
           /\ pc'[r] \in {"reply", "done"} => pc[r] \in {"reply", "done"}
           /\ UNCHANGED <<task, logs, out, notified>>
  <1> USE DEF TypeOK, Goto, store
  <1>1. CASE Read(r)
    BY <1>1 DEF Read, Visible, Finish
  <1>2. CASE WriteUpdate(r)
    BY <1>2 DEF WriteUpdate, Free, Finish
  <1>3. CASE WriteDelete(r)
    BY <1>3 DEF WriteDelete, Free, Finish
  <1>4. CASE PoolFails(r)
    BY <1>4 DEF PoolFails, Finish
  <1>5. CASE GetForUpdate(r)
    BY <1>5 DEF GetForUpdate, Free, Visible, Abandon
  <1>6. CASE FindAssignee(r)
    BY <1>6 DEF FindAssignee, Abandon
  <1>7. CASE UpdateAssignee(r)
    BY <1>7 DEF UpdateAssignee
  <1>8. CASE InsertLog(r)
    BY <1>8 DEF InsertLog
  <1>9. CASE Notify(r)
    BY <1>9 DEF Notify
  <1>10. CASE Commit(r)
    BY <1>10 DEF Commit, Release, Finish
  <1>11. CASE AssignFails(r)
    BY <1>11 DEF AssignFails, InClosure, Abandon
  <1>12. CASE Rollback(r)
    BY <1>12 DEF Rollback, Release
  <1>13. CASE Reply(r)
    BY <1>13 DEF Reply
  <1>14. CASE Crash(r)
    BY <1>14 DEF Crash, InClosure
  <1>15. CASE AbortOrphan(r)
    BY <1>15 DEF AbortOrphan, Release
  <1> QED
    BY <1>1, <1>2, <1>3, <1>4, <1>5, <1>6, <1>7, <1>8,
       <1>9, <1>10, <1>11, <1>12, <1>13, <1>14, <1>15
       DEF Acts, Serve, Assign

-----------------------------------------------------------------------------

\* While an assignment has its row, nobody else changes it.
LEMMA AssignStep == Inv /\ [Next]_vars => AssignInv'
  <1> SUFFICES ASSUME Inv, [Next]_vars PROVE AssignInv'
    OBVIOUS
  <1>0. \A q \in Requests : pc[q] # "idle" => Asks(q)
    BY Asked DEF Inv
  <1>1. ASSUME NEW t \in Tasks, NEW u \in Users, NEW v \in Users, NEW d \in Data,
               Create(t, u, v, d)
        PROVE  AssignInv'
    <2> SUFFICES ASSUME NEW q \in Requests PROVE AssignOK(q)'
      BY DEF AssignInv
    <2>0. task[t] = NULL
      BY <1>1 DEF Create, Inv, StoreInv
    <2>1. pc[q] \in Owning => op[q].task # t
      BY <2>0 DEF Inv, AssignInv, AssignOK
    <2>2. pc[q] \in Owning => task'[op[q].task] = task[op[q].task]
      BY <1>0, <1>1, <2>1 DEF Create, Inv, TypeOK, Asks, Owning
    <2> QED
      BY <1>1, <2>2 DEF Create, tx, Inv, AssignInv, AssignOK, Owning
  <1>2. ASSUME NEW r \in Requests, NEW o \in Op, Arrive(r, o) PROVE AssignInv'
    <2> SUFFICES ASSUME NEW q \in Requests PROVE AssignOK(q)'
      BY DEF AssignInv
    <2>1. CASE q = r
      BY <1>2, <2>1 DEF Arrive, Goto, Inv, TypeOK, AssignOK, Owning
    <2>2. CASE q # r
      <3>1. pc'[q] = pc[q] /\ op'[q] = op[q]
        BY <1>2, <2>2 DEF Arrive, Goto, Inv, TypeOK
      <3> QED
        BY <1>2, <3>1 DEF Arrive, store, tx, Inv, AssignInv, AssignOK
    <2> QED
      BY <2>1, <2>2
  <1>3. ASSUME NEW r \in Requests, Acts(r) PROVE AssignInv'
    <2>1. ASSUME NEW q \in Requests, q # r PROVE AssignOK(q)'
      BY <1>3, <2>1, Elsewhere, Fixed, Owned DEF Inv, AssignInv, AssignOK, Owning
    <2>2. AssignOK(r)'
      <3> USE DEF Inv, TypeOK, AssignInv, AssignOK, Goto, Owning
      <3>1. CASE pc'[r] \notin Owning
        BY <3>1
      <3>2. CASE GetForUpdate(r)
        BY <3>2, <1>0 DEF GetForUpdate, Visible, Abandon, Asks, store
      <3>3. CASE FindAssignee(r)
        BY <3>3, <1>0 DEF FindAssignee, Abandon, Asks, store, tx
      <3>4. CASE UpdateAssignee(r)
        BY <3>4 DEF UpdateAssignee, store
      <3>5. CASE InsertLog(r)
        BY <3>5 DEF InsertLog, store
      <3>6. CASE Notify(r)
        BY <3>6 DEF Notify, store, tx
      <3> QED
        BY <1>3, <3>1, <3>2, <3>3, <3>4, <3>5, <3>6, Onwards
    <2> QED
      BY <2>1, <2>2 DEF AssignInv
  <1>4. CASE UNCHANGED vars
    BY <1>4 DEF vars, store, tx, Inv, AssignInv, AssignOK
  <1> QED
    BY <1>1, <1>2, <1>3, <1>4 DEF Next, Acts, Idle

\* The checks of an update or a deletion outlive whatever happens to the task.
LEMMA CheckStep == Inv /\ [Next]_vars => CheckInv'
  <1> SUFFICES ASSUME Inv, [Next]_vars PROVE CheckInv'
    OBVIOUS
  <1>0. \A q \in Requests : pc[q] # "idle" => Asks(q)
    BY Asked DEF Inv
  <1>1. ASSUME NEW t \in Tasks, NEW u \in Users, NEW v \in Users, NEW d \in Data,
               Create(t, u, v, d)
        PROVE  CheckInv'
    <2> SUFFICES ASSUME NEW q \in Requests, pc[q] = "write" PROVE CheckOK(q)'
      BY <1>1 DEF Create, CheckInv, CheckOK
    <2>1. op[q].task \in Tasks /\ op[q].task # t
      BY <1>0, <1>1 DEF Create, Asks, Inv, CheckInv, CheckOK
    <2>2. task'[op[q].task] = task[op[q].task] /\ born'[op[q].task] = born[op[q].task]
      BY <1>1, <2>1 DEF Create, Inv, TypeOK
    <2> QED
      BY <1>1, <2>2 DEF Create, Inv, CheckInv, CheckOK
  <1>2. ASSUME NEW r \in Requests, NEW o \in Op, Arrive(r, o) PROVE CheckInv'
    <2> SUFFICES ASSUME NEW q \in Requests PROVE CheckOK(q)'
      BY DEF CheckInv
    <2>1. CASE q = r
      BY <1>2, <2>1 DEF Arrive, Goto, Inv, TypeOK, CheckOK
    <2>2. CASE q # r
      <3>1. pc'[q] = pc[q] /\ op'[q] = op[q]
        BY <1>2, <2>2 DEF Arrive, Goto, Inv, TypeOK
      <3> QED
        BY <1>2, <3>1 DEF Arrive, store, Inv, CheckInv, CheckOK
    <2> QED
      BY <2>1, <2>2
  <1>3. ASSUME NEW r \in Requests, Acts(r) PROVE CheckInv'
    <2> SUFFICES ASSUME NEW q \in Requests, pc'[q] = "write" PROVE CheckOK(q)'
      BY DEF CheckInv, CheckOK
    <2>1. CASE pc[q] = "write"
      <3>1. op[q].task \in Tasks
        BY <1>0, <2>1 DEF Asks
      <3> QED
        BY <1>3, <2>1, <3>1, Fixed, Lasting DEF Inv, CheckInv, CheckOK
    <2>2. CASE pc[q] # "write"
      <3>1. q = r
        BY <1>3, <2>2, Elsewhere DEF Inv
      <3>2. Read(r)
        BY <1>3, <2>2, <3>1, Writing DEF Inv
      <3>3. op[r].task \in Tasks /\ pc[r] = "read"
        BY <1>0, <3>2 DEF Read, Asks
      <3>4. UNCHANGED <<op, born, task>>
        BY <3>2 DEF Read, store
      <3>5. /\ task[op[r].task] # NULL
            /\ task[op[r].task].team = TeamOf[op[r].actor]
            /\ op[r].kind = "delete" => task[op[r].task].creator = op[r].actor
        BY <2>2, <3>1, <3>2, <3>3 DEF Read, Visible, Finish, Goto, Inv, TypeOK
      <3>6. born[op[r].task] # NULL
        BY <3>3, <3>5 DEF Inv, StoreInv
      <3> QED
        BY <3>1, <3>4, <3>5, <3>6 DEF CheckOK
    <2> QED
      BY <2>1, <2>2
  <1>4. CASE UNCHANGED vars
    BY <1>4 DEF vars, store, Inv, CheckInv, CheckOK
  <1> QED
    BY <1>1, <1>2, <1>3, <1>4 DEF Next, Acts, Idle

\* A task is in the store only once it was made, its log only while it is, and
\* entries are of requests whose transaction has committed.
LEMMA StoreStep == Inv /\ [Next]_vars => StoreInv'
  <1> SUFFICES ASSUME Inv, [Next]_vars PROVE StoreInv'
    OBVIOUS
  <1>0. \A q \in Requests : pc[q] # "idle" => Asks(q)
    BY Asked DEF Inv
  <1>1. ASSUME NEW t \in Tasks, NEW u \in Users, NEW v \in Users, NEW d \in Data,
               Create(t, u, v, d)
        PROVE  StoreInv'
    <2>1. task'[t] # NULL /\ born'[t] # NULL
      BY <1>1, TeamAssumption, NullAssumption DEF Create, Row, Inv, TypeOK
    <2>2. \A s \in Tasks : s # t => task'[s] = task[s] /\ born'[s] = born[s]
      BY <1>1 DEF Create, Inv, TypeOK
    <2>3. UNCHANGED <<logs, pc, out, notified>>
      BY <1>1 DEF Create
    <2> QED
      BY <2>1, <2>2, <2>3 DEF Inv, StoreInv
  <1>2. ASSUME NEW r \in Requests, NEW o \in Op, Arrive(r, o) PROVE StoreInv'
    <2>1. UNCHANGED <<task, born, logs, out, notified>>
      BY <1>2 DEF Arrive, store
    <2>2. pc[r] = "idle" /\ \A q \in Requests : q # r => pc'[q] = pc[q]
      BY <1>2 DEF Arrive, Goto, Inv, TypeOK
    <2>3. \A t \in Tasks : \A i \in 1..Len(logs[t]) : logs[t][i].id \in Requests
      BY LogShape DEF Inv
    <2> QED
      BY <2>1, <2>2, <2>3 DEF Inv, StoreInv
  <1>3. ASSUME NEW r \in Requests, Acts(r) PROVE StoreInv'
    <2>1. ASSUME NEW t \in Tasks
          PROVE  /\ task'[t] # NULL => born'[t] # NULL
                 /\ task'[t] = NULL => logs'[t] = <<>>
      <3>1. task'[t] # NULL => born'[t] # NULL
        BY <1>3, Lasting, Fixed DEF Inv, StoreInv
      <3>2. CASE task'[t] = task[t] /\ logs'[t] = logs[t]
        BY <3>1, <3>2 DEF Inv, StoreInv
      <3>3. CASE task'[t] # task[t] \/ logs'[t] # logs[t]
        <4>1. t = op[r].task /\ (WriteUpdate(r) \/ WriteDelete(r) \/ Commit(r))
          BY <1>3, <3>3, StoreChange
        <4>2. CASE WriteUpdate(r)
          <5>1. op[r].arg \in Data
            BY <1>0, <4>2 DEF WriteUpdate, Asks
          <5>2. task[t] \in Row /\ task'[t] = [task[t] EXCEPT !.data = op[r].arg]
            BY <3>3, <4>1, <4>2 DEF WriteUpdate, Inv, TypeOK
          <5> QED
            BY <3>1, <5>1, <5>2, DataShape, NullAssumption
        <4>3. CASE WriteDelete(r)
          BY <3>1, <4>1, <4>3 DEF WriteDelete, Inv, TypeOK
        <4>4. CASE Commit(r)
          <5>1. task'[t] = draft[r] /\ draft[r] \in Row
            BY <4>1, <4>4, Committing DEF Commit, Inv, TypeOK
          <5> QED
            BY <3>1, <5>1, NullAssumption
        <4> QED
          BY <4>1, <4>2, <4>3, <4>4
      <3> QED
        BY <3>2, <3>3
    <2>2. ASSUME NEW t \in Tasks, NEW i \in 1..Len(logs'[t])
          PROVE  LET q == logs'[t][i].id IN
                 /\ pc'[q] \in {"reply", "done", "lost"}
                 /\ out'[q] \in {200, 500}
                 /\ q \in notified'
      <3>1. CASE i \in 1..Len(logs[t]) /\ logs'[t][i] = logs[t][i]
        <4> DEFINE q == logs[t][i].id
        <4>1. /\ q \in Requests
              /\ pc[q] \in {"reply", "done", "lost"}
              /\ out[q] \in {200, 500}
              /\ q \in notified
          BY <3>1, LogShape DEF Inv, StoreInv
        <4> HIDE DEF q
        <4>2. /\ pc'[q] \in {"reply", "done", "lost"}
              /\ out'[q] \in {200, 500}
              /\ q \in notified'
          BY <1>3, <4>1, Elsewhere, Closing DEF Inv
        <4> QED
          BY <3>1, <4>2 DEF q
      <3>2. CASE ~(i \in 1..Len(logs[t]) /\ logs'[t][i] = logs[t][i])
        <4>1. t = op[r].task /\ Commit(r)
          <5>1. logs'[t] # logs[t]
            BY <3>2
          <5>2. t = op[r].task /\ (WriteUpdate(r) \/ WriteDelete(r) \/ Commit(r))
            BY <1>3, <5>1, StoreChange
          <5>3. ~WriteUpdate(r)
            BY <5>1 DEF WriteUpdate
          <5>4. ~WriteDelete(r)
            BY <5>2 DEF WriteDelete, Inv, TypeOK
          <5> QED
            BY <5>2, <5>3, <5>4
        <4>2. logs[t] \in Seq(Entry) /\ entry[r] \in Entry
              /\ logs'[t] = Append(logs[t], entry[r])
          BY <4>1, Committing DEF Commit, Inv, TypeOK
        <4>3. logs'[t][i] = entry[r]
          BY <3>2, <4>2
        <4>4. logs'[t][i].id = r /\ r \in notified
          <5>1. pc[r] = "commit"
            BY <4>1 DEF Commit
          <5>2. entry[r].id = r /\ r \in notified
            BY <5>1, Committing
          <5> QED
            BY <4>3, <5>2
        <4>5. pc'[r] = "reply" /\ out'[r] \in {200, 500} /\ notified' = notified
          BY <4>1 DEF Commit, Finish, Goto, Inv, TypeOK
        <4> QED
          BY <4>4, <4>5
      <3> QED
        BY <3>1, <3>2
    <2> QED
      BY <2>1, <2>2 DEF StoreInv
  <1>4. CASE UNCHANGED vars
    BY <1>4 DEF vars, store, Inv, StoreInv
  <1> QED
    BY <1>1, <1>2, <1>3, <1>4 DEF Next, Acts, Idle

\* The chain of assignments is extended at its end, by the present assignee.
LEMMA ChainStep == Inv /\ [Next]_vars => LogChain'
  <1> SUFFICES ASSUME Inv, [Next]_vars, NEW t \in Tasks, task'[t] # NULL
               PROVE  /\ \A i \in 1..Len(logs'[t]) : logs'[t][i].from = Holder(t, i - 1)'
                      /\ task'[t].assignee = Holder(t, Len(logs[t]))'
    BY DEF LogChain
  <1>0. \A q \in Requests : pc[q] # "idle" => Asks(q)
    BY Asked DEF Inv
  <1>a. logs[t] \in Seq(Entry)
    BY DEF Inv, TypeOK
  <1>1. CASE task'[t] = task[t] /\ logs'[t] = logs[t] /\ born'[t] = born[t]
    BY <1>1 DEF Inv, LogChain, Holder
  <1>2. CASE ~(task'[t] = task[t] /\ logs'[t] = logs[t] /\ born'[t] = born[t])
    <2>1. ASSUME NEW s \in Tasks, NEW u \in Users, NEW v \in Users, NEW d \in Data,
                 Create(s, u, v, d)
          PROVE  /\ \A i \in 1..Len(logs'[t]) : logs'[t][i].from = Holder(t, i - 1)'
                 /\ task'[t].assignee = Holder(t, Len(logs[t]))'
      <3>1. s = t /\ task[t] = NULL /\ logs' = logs
        BY <1>2, <2>1 DEF Create, Inv, TypeOK, StoreInv
      <3>2. logs[t] = <<>>
        BY <3>1 DEF Inv, StoreInv
      <3>3. task'[t].assignee = v /\ born'[t] = v
        BY <2>1, <3>1 DEF Create, Inv, TypeOK
      <3> QED
        BY <3>1, <3>2, <3>3 DEF Holder
    <2>2. ASSUME NEW r \in Requests, Acts(r)
          PROVE  /\ \A i \in 1..Len(logs'[t]) : logs'[t][i].from = Holder(t, i - 1)'
                 /\ task'[t].assignee = Holder(t, Len(logs[t]))'
      <3>1. born' = born /\ task[t] # NULL
        BY <2>2, Fixed, Lasting
      <3>2. t = op[r].task /\ (WriteUpdate(r) \/ WriteDelete(r) \/ Commit(r))
        BY <1>2, <2>2, <3>1, StoreChange
      <3>3. /\ \A i \in 1..Len(logs[t]) : logs[t][i].from = Holder(t, i - 1)
            /\ task[t].assignee = Holder(t, Len(logs[t]))
        BY <3>1 DEF Inv, LogChain
      <3>4. CASE WriteUpdate(r)
        <4>1. /\ task[t] \in Row
              /\ task'[t] = [task[t] EXCEPT !.data = op[r].arg]
              /\ logs' = logs
          BY <3>1, <3>2, <3>4 DEF WriteUpdate, Inv, TypeOK
        <4>2. task'[t].assignee = task[t].assignee
          BY <4>1 DEF Row
        <4> QED
          BY <3>1, <3>3, <4>1, <4>2 DEF Holder
      <3>5. CASE WriteDelete(r)
        BY <3>2, <3>5 DEF WriteDelete, Inv, TypeOK
      <3>6. CASE Commit(r)
        <4>1. /\ entry[r] \in Entry
              /\ logs'[t] = Append(logs[t], entry[r])
              /\ entry[r].from = task[t].assignee
              /\ entry[r].to = op[r].arg
          BY <3>2, <3>6, Committing DEF Commit, Inv, TypeOK
        <4>2. task'[t].assignee = op[r].arg
          <5>1. task'[t] = [task[t] EXCEPT !.assignee = op[r].arg] /\ task[t] \in Row
            BY <3>2, <3>6, Committing DEF Commit, Inv, TypeOK
          <5> QED
            BY <5>1 DEF Row
        <4>3. PICK n \in Nat : n = Len(logs[t])
          BY <1>a
        <4>4. Len(logs'[t]) = n + 1 /\ logs'[t][n + 1] = entry[r]
          BY <1>a, <4>1, <4>3
        <4>5. \A i \in 1..n : logs'[t][i] = logs[t][i]
          BY <1>a, <4>1, <4>3
        <4>6. \A i \in 0..n : Holder(t, i)' = Holder(t, i)
          BY <3>1, <4>5 DEF Holder
        <4>7. ASSUME NEW i \in 1..(n + 1) PROVE logs'[t][i].from = Holder(t, i - 1)'
          <5>1. CASE i = n + 1
            <6>1. Holder(t, n)' = task[t].assignee
              BY <3>3, <4>3, <4>6
            <6> QED
              BY <4>1, <4>4, <5>1, <6>1
          <5>2. CASE i # n + 1
            <6>1. i \in 1..n /\ i - 1 \in 0..n
              BY <5>2
            <6>2. logs'[t][i].from = Holder(t, i - 1)
              BY <3>3, <4>3, <4>5, <6>1
            <6> QED
              BY <4>6, <6>1, <6>2
          <5> QED
            BY <5>1, <5>2
        <4>8. Holder(t, n + 1)' = op[r].arg
          BY <4>1, <4>4 DEF Holder
        <4> QED
          BY <4>2, <4>4, <4>7, <4>8
      <3> QED
        BY <3>2, <3>4, <3>5, <3>6
    <2>3. ASSUME NEW r \in Requests, NEW o \in Op, Arrive(r, o) PROVE FALSE
      BY <1>2, <2>3 DEF Arrive, store
    <2>4. CASE UNCHANGED vars
      BY <1>2, <2>4 DEF vars, store
    <2> QED
      BY <2>1, <2>2, <2>3, <2>4 DEF Next, Acts, Idle
  <1> QED
    BY <1>1, <1>2

\* An entry stays in the log of its task for as long as the task is there.
LEMMA LoggedKept ==
    ASSUME Inv, NEW r \in Requests, Acts(r), NEW q \in Requests, op[q].task \in Tasks,
           task'[op[q].task] # NULL, LoggedBy(q)
    PROVE  LoggedBy(q)'
  <1>1. PICK t \in Tasks : t = op[q].task
    OBVIOUS
  <1>2. logs[t] \in Seq(Entry) /\ op' = op
    BY Fixed DEF Inv, TypeOK
  <1>3. PICK i \in 1..Len(logs[t]) : logs[t][i].id = q
    BY <1>1 DEF LoggedBy
  <1>4. logs'[t] = logs[t] \/ \E e \in Entry : logs'[t] = Append(logs[t], e)
    BY <1>1, Lasting
  <1>5. i \in 1..Len(logs'[t]) /\ logs'[t][i] = logs[t][i]
    BY <1>2, <1>4
  <1> QED
    BY <1>1, <1>2, <1>3, <1>5 DEF LoggedBy

\* What was answered stays true, and no answer is given that is not.
LEMMA AnswerStep == Inv /\ [Next]_vars => AnswerInv'
  <1> SUFFICES ASSUME Inv, [Next]_vars PROVE AnswerInv'
    OBVIOUS
  <1>0. \A q \in Requests : pc[q] # "idle" => Asks(q)
    BY Asked DEF Inv
  <1>1. ASSUME NEW t \in Tasks, NEW u \in Users, NEW v \in Users, NEW d \in Data,
               Create(t, u, v, d)
        PROVE  AnswerInv'
    <2> SUFFICES ASSUME NEW q \in Requests PROVE AnswerOK(q)'
      BY DEF AnswerInv
    <2>1. AnswerOK(q)
      BY DEF Inv, AnswerInv
    <2>2. UNCHANGED <<pc, op, out, notified, logs>>
      BY <1>1 DEF Create
    <2>3. CASE op[q].task = t
      BY <1>1, <2>1, <2>2, <2>3 DEF Create, AnswerOK
    <2>4. CASE op[q].task # t
      <3>1. pc[q] # "idle" => /\ task'[op[q].task] = task[op[q].task]
                              /\ born'[op[q].task] = born[op[q].task]
        BY <1>0, <1>1, <2>4 DEF Create, Inv, TypeOK, Asks
      <3> QED
        BY <2>1, <2>2, <3>1 DEF AnswerOK, LoggedBy
    <2> QED
      BY <2>3, <2>4
  <1>2. ASSUME NEW r \in Requests, NEW o \in Op, Arrive(r, o) PROVE AnswerInv'
    <2> SUFFICES ASSUME NEW q \in Requests PROVE AnswerOK(q)'
      BY DEF AnswerInv
    <2>1. AnswerOK(q)
      BY DEF Inv, AnswerInv
    <2>2. UNCHANGED <<task, born, logs, out, notified>>
      BY <1>2 DEF Arrive, store
    <2>3. CASE q = r
      <3>1. pc[q] = "idle" /\ pc'[q] \in {"forUpdate", "read"}
        BY <1>2, <2>3 DEF Arrive, Goto, Inv, TypeOK
      <3> QED
        BY <2>1, <2>2, <3>1 DEF AnswerOK
    <2>4. CASE q # r
      <3>1. pc'[q] = pc[q] /\ op'[q] = op[q]
        BY <1>2, <2>4 DEF Arrive, Goto, Inv, TypeOK
      <3> QED
        BY <2>1, <2>2, <3>1 DEF AnswerOK, LoggedBy
    <2> QED
      BY <2>3, <2>4
  <1>3. ASSUME NEW r \in Requests, Acts(r) PROVE AnswerInv'
    <2>1. ASSUME NEW q \in Requests, q # r PROVE AnswerOK(q)'
      <3>1. AnswerOK(q)
        BY DEF Inv, AnswerInv
      <3>2. /\ pc'[q] = pc[q]
            /\ out'[q] = out[q]
            /\ q \in notified' <=> q \in notified
            /\ UNCHANGED <<op, born>>
        BY <1>3, <2>1, Elsewhere, Fixed DEF Inv
      <3>3. pc[q] # "idle" => op[q].task \in Tasks
        BY <1>0 DEF Asks
      <3>4. pc[q] # "idle" /\ task'[op[q].task] # NULL =>
                /\ task[op[q].task] # NULL
                /\ task'[op[q].task].team = task[op[q].task].team
                /\ LoggedBy(q) => LoggedBy(q)'
        BY <1>3, <3>3, Lasting, LoggedKept
      <3> QED
        BY <3>1, <3>2, <3>4 DEF AnswerOK
    <2>2. AnswerOK(r)'
      <3>1. AnswerOK(r)
        BY DEF Inv, AnswerInv
      <3>2. pc[r] # "idle" => op[r].task \in Tasks
        BY <1>0 DEF Asks
      <3>3. UNCHANGED <<op, born>>
        BY <1>3, Fixed
      <3>4. CASE Read(r)
        <4>1. pc[r] = "read" /\ UNCHANGED <<task, notified>>
          BY <3>4 DEF Read, store
        <4>2. op[r].kind # "assign" /\ r \notin notified
          BY <3>1, <4>1 DEF Inv, KindInv, AnswerOK
        <4>3. \/ pc'[r] = "write"
              \/ pc'[r] = "reply" /\ out'[r] = 404
              \/ /\ pc'[r] = "reply" /\ out'[r] \in {200, 403}
                 /\ task[op[r].task] # NULL
                 /\ task[op[r].task].team = TeamOf[op[r].actor]
          BY <3>4 DEF Read, Visible, Finish, Goto, Inv, TypeOK
        <4>4. task[op[r].task] # NULL => born[op[r].task] # NULL
          BY <3>2, <4>1 DEF Inv, StoreInv
        <4> QED
          BY <3>3, <4>1, <4>2, <4>3, <4>4 DEF AnswerOK, Statuses
      <3>5. CASE WriteUpdate(r) \/ WriteDelete(r) \/ PoolFails(r)
        <4>1. pc[r] \in {"read", "write"} /\ notified' = notified
          BY <3>5 DEF WriteUpdate, WriteDelete, PoolFails
        <4>2. op[r].kind # "assign" /\ r \notin notified
          BY <3>1, <4>1 DEF Inv, KindInv, AnswerOK
        <4>3. pc'[r] = "reply"
          BY <3>5 DEF WriteUpdate, WriteDelete, PoolFails, Finish, Goto, Inv, TypeOK
        <4>4. \/ out'[r] \in {404, 500}
              \/ pc[r] = "write" /\ out'[r] = 200
              \/ pc[r] = "write" /\ out'[r] = 204 /\ task'[op[r].task] = NULL
          <5>1. CASE WriteUpdate(r)
            BY <5>1 DEF WriteUpdate, Finish, Inv, TypeOK
          <5>2. CASE WriteDelete(r)
            <6>1. pc[r] = "write" /\ out'[r] \in {204, 500}
              BY <5>2 DEF WriteDelete, Finish, Inv, TypeOK
            <6>2. task'[op[r].task] = NULL
              BY <3>2, <5>2, <6>1 DEF WriteDelete, Inv, TypeOK
            <6> QED
              BY <6>1, <6>2
          <5>3. CASE PoolFails(r)
            BY <5>3 DEF PoolFails, Finish, Inv, TypeOK
          <5> QED
            BY <3>5, <5>1, <5>2, <5>3
        <4>5. pc[r] = "write" =>
                  /\ born[op[r].task] # NULL
                  /\ task'[op[r].task] # NULL =>
                         task'[op[r].task].team = TeamOf[op[r].actor]
          BY <1>3, <3>2, <4>1, Lasting DEF Inv, CheckInv, CheckOK
        <4>6. CASE out'[r] \in {404, 500}
          BY <3>3, <4>1, <4>2, <4>3, <4>6 DEF AnswerOK, Statuses
        <4>7. CASE pc[r] = "write" /\ out'[r] = 200
          BY <3>3, <4>1, <4>2, <4>3, <4>5, <4>7 DEF AnswerOK, Statuses
        <4>8. CASE pc[r] = "write" /\ out'[r] = 204 /\ task'[op[r].task] = NULL
          BY <3>3, <4>1, <4>2, <4>3, <4>5, <4>8, StatusValues DEF AnswerOK
        <4> QED
          BY <4>4, <4>6, <4>7, <4>8
      <3>6. CASE GetForUpdate(r)
        <4>1. pc[r] = "forUpdate" /\ notified' = notified
          BY <3>6 DEF GetForUpdate
        <4>2. r \notin notified
          BY <3>1, <4>1 DEF AnswerOK
        <4>3. \/ pc'[r] = "findAssignee"
              \/ pc'[r] = "rollback" /\ out'[r] = 404
          <5>1. \/ pc' = [pc EXCEPT ![r] = "findAssignee"]
                \/ /\ pc' = [pc EXCEPT ![r] = "rollback"]
                   /\ out' = [out EXCEPT ![r] = 404]
            BY <3>6 DEF GetForUpdate, Abandon, Goto
          <5>2. pc \in [Requests -> PCs] /\ out \in [Requests -> Statuses \cup {0}]
            BY DEF Inv, TypeOK
          <5> QED
            BY <5>1, <5>2
        <4> QED
          BY <4>1, <4>2, <4>3 DEF AnswerOK
      <3>7. CASE FindAssignee(r)
        <4>1. pc[r] = "findAssignee" /\ UNCHANGED <<task, notified>>
          BY <3>7 DEF FindAssignee, store
        <4>2. r \notin notified
          BY <3>1, <4>1 DEF AnswerOK
        <4>3. \/ pc'[r] = "updateAssignee"
              \/ pc'[r] = "rollback" /\ out'[r] \in {403, 422}
          <5>1. \/ pc' = [pc EXCEPT ![r] = "updateAssignee"]
                \/ /\ pc' = [pc EXCEPT ![r] = "rollback"]
                   /\ \E s \in {403, 422} : out' = [out EXCEPT ![r] = s]
            BY <3>7 DEF FindAssignee, Abandon, Goto
          <5>2. pc \in [Requests -> PCs] /\ out \in [Requests -> Statuses \cup {0}]
            BY DEF Inv, TypeOK
          <5> QED
            BY <5>1, <5>2
        <4>4. task[op[r].task] # NULL /\ task[op[r].task].team = TeamOf[op[r].actor]
          BY <4>1 DEF Inv, AssignInv, AssignOK, Owning
        <4>5. born[op[r].task] # NULL
          BY <3>2, <4>1, <4>4 DEF Inv, StoreInv
        <4> QED
          BY <3>3, <4>1, <4>2, <4>3, <4>4, <4>5 DEF AnswerOK
      <3>8. CASE UpdateAssignee(r) \/ InsertLog(r)
        <4>1. pc[r] \in {"updateAssignee", "insertLog"} /\ notified' = notified
          BY <3>8 DEF UpdateAssignee, InsertLog
        <4>2. r \notin notified
          BY <3>1, <4>1 DEF AnswerOK
        <4>3. pc'[r] \in {"insertLog", "notify"}
          BY <3>8 DEF UpdateAssignee, InsertLog, Goto, Inv, TypeOK
        <4> QED
          BY <4>1, <4>2, <4>3 DEF AnswerOK
      <3>9. CASE Notify(r)
        <4>1. pc'[r] = "commit" /\ out'[r] = 200
          BY <3>9 DEF Notify, Goto, Inv, TypeOK
        <4> QED
          BY <4>1 DEF AnswerOK
      <3>10. CASE Commit(r)
        <4>1. pc[r] = "commit" /\ notified' = notified
          BY <3>10 DEF Commit
        <4>2. op[r].kind = "assign" /\ r \in notified
          BY <4>1, Committing DEF Inv, KindInv, Owning
        <4>3. pc'[r] = "reply" /\ out'[r] \in {200, 500}
          BY <3>10 DEF Commit, Finish, Goto, Inv, TypeOK
        <4>4. task[op[r].task] # NULL /\ task[op[r].task].team = TeamOf[op[r].actor]
          BY <4>1 DEF Inv, AssignInv, AssignOK, Owning
        <4>5. born[op[r].task] # NULL
          BY <3>2, <4>1, <4>4 DEF Inv, StoreInv
        <4>6. task'[op[r].task] # NULL => task'[op[r].task].team = TeamOf[op[r].actor]
          BY <1>3, <3>2, <4>1, <4>4, Lasting
        <4>7. LoggedBy(r)'
          <5>1. PICK t \in Tasks : t = op[r].task
            BY <3>2, <4>1
          <5>2. logs[t] \in Seq(Entry) /\ entry[r] \in Entry /\ entry[r].id = r
            BY <4>1, Committing DEF Inv, TypeOK
          <5>3. logs'[t] = Append(logs[t], entry[r])
            BY <3>10, <5>1 DEF Commit, Inv, TypeOK
          <5>4. Len(logs'[t]) \in 1..Len(logs'[t]) /\ logs'[t][Len(logs'[t])].id = r
            BY <5>2, <5>3
          <5> QED
            BY <3>3, <5>1, <5>4 DEF LoggedBy
        <4> QED
          BY <3>3, <4>1, <4>2, <4>3, <4>5, <4>6, <4>7 DEF AnswerOK, Statuses
      <3>11. CASE AssignFails(r)
        <4>1. pc'[r] = "rollback" /\ out'[r] = 500
          BY <3>11 DEF AssignFails, Abandon, Goto, Inv, TypeOK
        <4> QED
          BY <4>1 DEF AnswerOK
      <3>12. CASE Rollback(r) \/ Reply(r)
        <4>1. /\ pc[r] \in {"rollback", "reply"}
              /\ UNCHANGED <<task, logs, out, notified>>
          BY <3>12 DEF Rollback, Reply, store
        <4>2. pc'[r] \in {"reply", "done"} /\ (pc[r] = "rollback" \/ pc'[r] = "done")
          BY <3>12 DEF Rollback, Reply, Goto, Inv, TypeOK
        <4>3. LoggedBy(r) => LoggedBy(r)'
          BY <3>3, <4>1 DEF LoggedBy
        <4> QED
          BY <3>1, <3>3, <4>1, <4>2, <4>3 DEF AnswerOK, Statuses
      <3>13. CASE Crash(r) \/ AbortOrphan(r)
        <4>1. pc'[r] \in {"orphan", "lost"}
          BY <3>13 DEF Crash, AbortOrphan, Goto, Inv, TypeOK
        <4> QED
          BY <4>1 DEF AnswerOK
      <3> QED
        BY <1>3, <3>4, <3>5, <3>6, <3>7, <3>8, <3>9, <3>10, <3>11, <3>12, <3>13
           DEF Acts, Serve, Assign
    <2> QED
      BY <2>1, <2>2 DEF AnswerInv
  <1>4. CASE UNCHANGED vars
    BY <1>4 DEF vars, store, Inv, AnswerInv, AnswerOK, LoggedBy
  <1> QED
    BY <1>1, <1>2, <1>3, <1>4 DEF Next, Acts, Idle

-----------------------------------------------------------------------------
(* Theorems                                                                *)

\* The invariant is inductive.
THEOREM Invariance == Spec => []Inv
  <1>1. Inv /\ [Next]_vars => Inv'
    BY TypeStep, LockStep, KindStep, AssignStep, CheckStep, StoreStep, ChainStep,
       AnswerStep DEF Inv
  <1> QED
    BY InitInv, <1>1, PTL DEF Spec

\* The state keeps its shape, whatever the interleaving, for any constants.
THEOREM TypeCorrect == Spec => []TypeOK
  <1>1. Inv => TypeOK
    BY DEF Inv
  <1> QED
    BY Invariance, <1>1, PTL

\* The log of every task is an unbroken chain up to its present assignee, for
\* any number of overlapping assignments, updates and deletions.
THEOREM Chain == Spec => []LogChain
  <1>1. Inv => LogChain
    BY DEF Inv
  <1> QED
    BY Invariance, <1>1, PTL

\* An acknowledged assignment is logged and notified, a refused one left nothing.
THEOREM AllOrNothing == Spec => []AssignAllOrNothing
  <1>1. Inv => AssignAllOrNothing
    <2> SUFFICES ASSUME Inv, NEW r \in Requests, pc[r] # "idle"
                 PROVE  /\ LoggedBy(r) => r \in notified
                        /\ pc[r] = "done" /\ op[r].kind = "assign" =>
                               CASE out[r] = 200 -> /\ r \in notified
                                                    /\ task[op[r].task] # NULL => LoggedBy(r)
                                 [] out[r] = 500 -> TRUE
                                 [] OTHER        -> r \notin notified /\ ~LoggedBy(r)
      BY DEF AssignAllOrNothing
    <2>1. op[r].task \in Tasks
      BY Asked DEF Inv, Asks
    <2>2. LoggedBy(r) => r \in notified /\ out[r] \in {200, 500}
      BY <2>1 DEF Inv, StoreInv, LoggedBy
    <2>3. AnswerOK(r)
      BY DEF Inv, AnswerInv
    <2>4. pc[r] = "done" /\ op[r].kind = "assign" /\ out[r] = 200 =>
              r \in notified /\ (task[op[r].task] # NULL => LoggedBy(r))
      BY <2>3 DEF AnswerOK
    <2>5. pc[r] = "done" /\ out[r] \notin {200, 500} => r \notin notified
      BY <2>3 DEF AnswerOK
    <2> QED
      BY <2>2, <2>4, <2>5
  <1> QED
    BY Invariance, <1>1, PTL

\* Nothing but "not found" or a failure is said of another team's task.
THEOREM Invisible == Spec => []ForeignTaskInvisible
  <1>1. Inv => ForeignTaskInvisible
    BY DEF Inv, AnswerInv, AnswerOK, ForeignTaskInvisible
  <1> QED
    BY Invariance, <1>1, PTL

\* A task whose deletion was acknowledged never comes back, nor does its log.
THEOREM Final == Spec => []DeleteIsFinal
  <1>1. Inv => DeleteIsFinal
    <2> SUFFICES ASSUME Inv, NEW r \in Requests, pc[r] = "done",
                        op[r].kind = "delete", out[r] = 204
                 PROVE  task[op[r].task] = NULL /\ logs[op[r].task] = <<>>
      BY DEF DeleteIsFinal
    <2>1. op[r].task \in Tasks
      BY Asked DEF Inv, Asks
    <2>2. task[op[r].task] = NULL
      BY DEF Inv, AnswerInv, AnswerOK
    <2> QED
      BY <2>1, <2>2 DEF Inv, StoreInv
  <1> QED
    BY Invariance, <1>1, PTL

\* Whoever changes a task is of its team, and whoever removes it created it,
\* although neither was checked in the statement that writes.
THEOREM Entitled == Spec => WritersEntitled
  <1> DEFINE Step ==
        \A r \in Requests :
            LET t == op[r].task IN
            pc[r] # "idle" /\ pc'[r] # pc[r] /\ task'[t] # task[t] =>
                /\ task[t] # NULL
                /\ task[t].team = TeamOf[op[r].actor]
                /\ task'[t] = NULL => task[t].creator = op[r].actor
  <1>1. Inv /\ [Next]_vars => [Step]_vars
    <2> SUFFICES ASSUME Inv, [Next]_vars, NEW r \in Requests,
                        pc[r] # "idle", pc'[r] # pc[r],
                        task'[op[r].task] # task[op[r].task]
                 PROVE  /\ task[op[r].task] # NULL
                        /\ task[op[r].task].team = TeamOf[op[r].actor]
                        /\ task'[op[r].task] = NULL =>
                               task[op[r].task].creator = op[r].actor
      OBVIOUS
    <2>1. op[r].task \in Tasks
      BY Asked DEF Inv, Asks
    <2>2. Acts(r)
      <3>1. ASSUME NEW t \in Tasks, NEW u \in Users, NEW v \in Users, NEW d \in Data,
                   Create(t, u, v, d)
            PROVE  FALSE
        BY <3>1 DEF Create
      <3>2. ASSUME NEW q \in Requests, NEW o \in Op, Arrive(q, o) PROVE FALSE
        BY <3>2 DEF Arrive, store
      <3>3. ASSUME NEW q \in Requests, Acts(q) PROVE Acts(r)
        BY <3>3, Elsewhere DEF Inv
      <3> QED
        BY <3>1, <3>2, <3>3 DEF Next, Acts, Idle, vars
    <2>3. WriteUpdate(r) \/ WriteDelete(r) \/ Commit(r)
      BY <2>1, <2>2, StoreChange
    <2>4. CASE WriteUpdate(r)
      <3>1. pc[r] = "write" /\ task[op[r].task] # NULL
        BY <2>4 DEF WriteUpdate
      <3>2. task'[op[r].task] # NULL
        <4>1. op[r].arg \in Data /\ task[op[r].task] \in Row
          BY <2>1, <2>4, <3>1, Asked DEF WriteUpdate, Asks, Inv, TypeOK
        <4>2. task'[op[r].task] = [task[op[r].task] EXCEPT !.data = op[r].arg]
          BY <2>1, <2>4, <3>1 DEF WriteUpdate, Inv, TypeOK
        <4> QED
          BY <4>1, <4>2, DataShape, NullAssumption
      <3> QED
        BY <3>1, <3>2 DEF Inv, CheckInv, CheckOK
    <2>5. CASE WriteDelete(r)
      <3>1. pc[r] = "write" /\ op[r].kind = "delete" /\ task'[op[r].task] = NULL
        BY <2>1, <2>5 DEF WriteDelete, Inv, TypeOK
      <3> QED
        BY <3>1 DEF Inv, CheckInv, CheckOK
    <2>6. CASE Commit(r)
      <3>1. pc[r] = "commit" /\ task'[op[r].task] = draft[r]
        BY <2>1, <2>6 DEF Commit, Inv, TypeOK
      <3>2. task'[op[r].task] # NULL
        <4>1. draft[r] \in Row
          BY <3>1, Committing
        <4> QED
          BY <3>1, <4>1, NullAssumption
      <3> QED
        BY <3>1, <3>2 DEF Inv, AssignInv, AssignOK, Owning
    <2> QED
      BY <2>3, <2>4, <2>5, <2>6
  <1> QED
    BY Invariance, <1>1, PTL DEF Spec, WritersEntitled

-----------------------------------------------------------------------------
(* Refinement                                                              *)

\* An acknowledged or unacknowledged UPDATE of a row is the book's Edit.
LEMMA UpdateEdits ==
    ASSUME Inv, NEW r \in Requests, WriteUpdate(r)
    PROVE  Book!Next \/ UNCHANGED store
  <1>1. op[r].task \in Tasks /\ op[r].arg \in Data
    BY Asked DEF WriteUpdate, Inv, Asks
  <1>2. PICK t \in Tasks, d \in Data : t = op[r].task /\ d = op[r].arg
    BY <1>1
  <1>3. CASE task[t] = NULL
    BY <1>2, <1>3 DEF WriteUpdate, store
  <1>4. CASE task[t] # NULL
    <2>1. Book!Edit(t, d)
      BY <1>2, <1>4 DEF WriteUpdate, Book!Edit
    <2> QED
      BY <2>1 DEF Book!Next
  <1> QED
    BY <1>3, <1>4

\* A DELETE of a row is the book's Remove, and of no row nothing.
LEMMA DeleteRemoves ==
    ASSUME Inv, NEW r \in Requests, WriteDelete(r)
    PROVE  Book!Next \/ UNCHANGED store
  <1>1. op[r].task \in Tasks
    BY Asked DEF WriteDelete, Inv, Asks
  <1>2. PICK t \in Tasks : t = op[r].task
    BY <1>1
  <1>3. /\ task' = [task EXCEPT ![t] = NULL]
        /\ logs' = [logs EXCEPT ![t] = <<>>]
        /\ born' = born
    BY <1>2 DEF WriteDelete
  <1>4. CASE task[t] = NULL
    <2>1. logs[t] = <<>>
      BY <1>4 DEF Inv, StoreInv
    <2>2. task' = task
      BY <1>3, <1>4 DEF Inv, TypeOK
    <2>3. logs' = logs
      BY <1>3, <2>1 DEF Inv, TypeOK
    <2> QED
      BY <1>3, <2>2, <2>3 DEF store
  <1>5. CASE task[t] # NULL
    <2>1. Book!Remove(t)
      BY <1>3, <1>5 DEF Book!Remove
    <2> QED
      BY <2>1 DEF Book!Next
  <1> QED
    BY <1>4, <1>5

\* A COMMIT of an assignment is the book's Hand.
LEMMA CommitHands ==
    ASSUME Inv, NEW r \in Requests, Commit(r)
    PROVE  Book!Next
  <1>1. pc[r] = "commit" /\ op[r].task \in Tasks /\ op[r].actor \in Users
    BY Asked DEF Commit, Inv, Asks
  <1>a. op[r].arg \in Users
    BY <1>1, Committing
  <1>2. PICK t \in Tasks, u \in Users, v \in Users :
            t = op[r].task /\ u = op[r].actor /\ v = op[r].arg
    BY <1>a, <1>1
  <1>3. /\ draft[r] = [task[t] EXCEPT !.assignee = v]
        /\ entry[r] = [id |-> r, actor |-> u, from |-> task[t].assignee, to |-> v]
    BY <1>1, <1>2, Committing
  <1>4. /\ task' = [task EXCEPT ![t] = draft[r]]
        /\ logs' = [logs EXCEPT ![t] = Append(@, entry[r])]
        /\ born' = born
    BY <1>2 DEF Commit
  <1>5. /\ task[t] # NULL
        /\ task[t].team = TeamOf[u]
        /\ TeamOf[v] = TeamOf[u]
    BY <1>1, <1>2 DEF Inv, AssignInv, AssignOK, Owning
  <1>6. Book!Hand(t, r, u, v)
    BY <1>3, <1>4, <1>5 DEF Book!Hand
  <1> QED
    BY <1>6 DEF Book!Next

\* Every other step of a request leaves the store alone.
LEMMA Writers ==
    ASSUME NEW r \in Requests, Acts(r)
    PROVE  WriteUpdate(r) \/ WriteDelete(r) \/ Commit(r) \/ UNCHANGED store
  <1>1. CASE Read(r)
    BY <1>1 DEF Read, Visible, Finish
  <1>2. CASE WriteUpdate(r)
    BY <1>2 DEF WriteUpdate, Free, Finish
  <1>3. CASE WriteDelete(r)
    BY <1>3 DEF WriteDelete, Free, Finish
  <1>4. CASE PoolFails(r)
    BY <1>4 DEF PoolFails, Finish
  <1>5. CASE GetForUpdate(r)
    BY <1>5 DEF GetForUpdate, Free, Visible, Abandon
  <1>6. CASE FindAssignee(r)
    BY <1>6 DEF FindAssignee, Abandon
  <1>7. CASE UpdateAssignee(r)
    BY <1>7 DEF UpdateAssignee
  <1>8. CASE InsertLog(r)
    BY <1>8 DEF InsertLog
  <1>9. CASE Notify(r)
    BY <1>9 DEF Notify
  <1>10. CASE Commit(r)
    BY <1>10 DEF Commit, Release, Finish
  <1>11. CASE AssignFails(r)
    BY <1>11 DEF AssignFails, InClosure, Abandon
  <1>12. CASE Rollback(r)
    BY <1>12 DEF Rollback, Release
  <1>13. CASE Reply(r)
    BY <1>13 DEF Reply
  <1>14. CASE Crash(r)
    BY <1>14 DEF Crash, InClosure
  <1>15. CASE AbortOrphan(r)
    BY <1>15 DEF AbortOrphan, Release
  <1> QED
    BY <1>1, <1>2, <1>3, <1>4, <1>5, <1>6, <1>7, <1>8,
       <1>9, <1>10, <1>11, <1>12, <1>13, <1>14, <1>15
       DEF Acts, Serve, Assign

\* The endpoints, statement by statement, implement the book of tasks: each of
\* its operations is one statement that takes effect or one commit, and every
\* other step is invisible.
THEOREM Implementation == Spec => ImplementsBook
  <1>1. Init => Book!Init
    BY DEF Init, Book!Init
  <1>2. Inv /\ [Next]_vars => [Book!Next]_(Book!vars)
    <2> SUFFICES ASSUME Inv, [Next]_vars PROVE Book!Next \/ UNCHANGED store
      BY DEF store, Book!vars
    <2>1. ASSUME NEW t \in Tasks, NEW u \in Users, NEW v \in Users, NEW d \in Data,
                 Create(t, u, v, d)
          PROVE  Book!Next
      <3>1. Book!Make(t, u, v, d)
        BY <2>1 DEF Create, Book!Make
      <3> QED
        BY <3>1 DEF Book!Next
    <2>2. ASSUME NEW r \in Requests, NEW o \in Op, Arrive(r, o) PROVE UNCHANGED store
      BY <2>2 DEF Arrive
    <2>3. ASSUME NEW r \in Requests, Acts(r) PROVE Book!Next \/ UNCHANGED store
      BY <2>3, Writers, UpdateEdits, DeleteRemoves, CommitHands
    <2>4. CASE UNCHANGED vars
      BY <2>4 DEF vars
    <2> QED
      BY <2>1, <2>2, <2>3, <2>4 DEF Next, Acts, Idle
  <1> QED
    BY Invariance, <1>1, <1>2, PTL DEF Spec, ImplementsBook, Book!Spec

-----------------------------------------------------------------------------
(* Every request comes to its end                                          *)

\* Nothing but a locked row keeps r from its next step: the guards of the
\* actions of Serve(r).
Unhindered(r) ==
    \/ pc[r] = "write" /\ op[r].kind \in {"update", "delete"} /\ Free(op[r].task)
    \/ pc[r] = "forUpdate" /\ Free(op[r].task)
    \/ pc[r] \in Owning \cup {"read", "rollback", "reply", "orphan"}

\* Whoever waits, waits for the row of its task, whose holder can go on.
NobodyStuckOnRows ==
    \A r \in Requests :
        pc[r] \notin {"idle", "done", "lost"} =>
            \/ Unhindered(r)
            \/ /\ pc[r] \in {"write", "forUpdate"}
               /\ lock[op[r].task] \in Requests
               /\ Unhindered(lock[op[r].task])

\* How far a request has come.
Rank(label) ==
    CASE label = "idle"                     -> 0
      [] label \in {"read", "forUpdate"}     -> 1
      [] label \in {"write", "findAssignee"} -> 2
      [] label = "updateAssignee"           -> 3
      [] label = "insertLog"                -> 4
      [] label = "notify"                   -> 5
      [] label = "commit"                   -> 6
      [] label = "rollback"                 -> 7
      [] label \in {"reply", "orphan"}       -> 8
      [] OTHER                              -> 9

\* Whatever is done for a request, and whatever happens to it, takes it
\* further: nothing is tried twice, so a request makes at most nine steps.
OnlyForward ==
    [][\A r \in Requests : Acts(r) \/ pc'[r] # pc[r] => Rank(pc[r]) < Rank(pc'[r])]_vars

\* Statements that wait for a row do not deadlock with the assignment that
\* locked it (GetTaskForUpdate), however that ends.
THEOREM UnstuckRows == Spec => []NobodyStuckOnRows
  <1>1. Inv => NobodyStuckOnRows
    <2> SUFFICES ASSUME Inv, NEW r \in Requests, pc[r] \notin {"idle", "done", "lost"},
                        ~Unhindered(r)
                 PROVE  /\ pc[r] \in {"write", "forUpdate"}
                        /\ lock[op[r].task] \in Requests
                        /\ Unhindered(lock[op[r].task])
      BY DEF NobodyStuckOnRows
    <2>1. pc[r] \in {"write", "forUpdate"} /\ ~Free(op[r].task)
      BY DEF Unhindered, Inv, TypeOK, PCs, InClosure, Owning, KindInv
    <2>2. op[r].task \in Tasks
      BY <2>1, Asked DEF Inv, Asks
    <2> QED
      BY <2>1, <2>2 DEF Unhindered, Free, Inv, TypeOK, LockInv
  <1> QED
    BY <1>1, Invariance, PTL

\* A step of a request takes it further.
LEMMA ActsForward == ASSUME TypeOK, NEW r \in Requests, Acts(r) PROVE Rank(pc[r]) < Rank(pc'[r])
  <1> USE DEF TypeOK, Goto, Finish, Abandon
  <1>1. CASE Read(r) \/ WriteUpdate(r) \/ WriteDelete(r) \/ PoolFails(r)
    BY <1>1 DEF Read, WriteUpdate, WriteDelete, PoolFails, Rank
  <1>2. CASE GetForUpdate(r) \/ FindAssignee(r)
    BY <1>2 DEF GetForUpdate, FindAssignee, Rank
  <1>3. CASE UpdateAssignee(r) \/ InsertLog(r) \/ Notify(r)
    BY <1>3 DEF UpdateAssignee, InsertLog, Notify, Rank
  <1>4. CASE Commit(r) \/ Rollback(r) \/ Reply(r) \/ AbortOrphan(r)
    BY <1>4 DEF Commit, Rollback, Reply, AbortOrphan, Rank
  <1>5. CASE AssignFails(r)
    BY <1>5 DEF AssignFails, InClosure, Rank
  <1>6. CASE Crash(r)
    BY <1>6 DEF Crash, InClosure, Rank
  <1> QED
    BY <1>1, <1>2, <1>3, <1>4, <1>5, <1>6 DEF Acts, Serve, Assign

\* An arrival too.
LEMMA ArriveForward ==
    ASSUME TypeOK, NEW r \in Requests, NEW o \in Op, Arrive(r, o)
    PROVE  Rank(pc[r]) < Rank(pc'[r]) /\ \A q \in Requests : q # r => pc'[q] = pc[q]
  BY DEF TypeOK, Arrive, Goto, Rank

\* Who does not act does not move.
LEMMA StepForward ==
    ASSUME TypeOK, [Next]_vars, NEW r \in Requests
    PROVE  /\ Acts(r) => Rank(pc[r]) < Rank(pc'[r])
           /\ pc'[r] = pc[r] \/ Rank(pc[r]) < Rank(pc'[r])
  <1>1. ASSUME NEW q \in Requests, NEW o \in Op, Arrive(q, o)
        PROVE  pc'[r] = pc[r] \/ Rank(pc[r]) < Rank(pc'[r])
    BY <1>1, ArriveForward
  <1>2. ASSUME NEW q \in Requests, q # r, Acts(q) PROVE pc'[r] = pc[r]
    BY <1>2, Elsewhere
  <1>3. CASE Idle \/ UNCHANGED vars
    <2>1. pc' = pc
      BY <1>3 DEF Idle, vars
    <2> QED
      BY <2>1, ActsForward
  <1>4. ASSUME NEW t \in Tasks, NEW u \in Users, NEW v \in Users, NEW d \in Data,
               Create(t, u, v, d)
        PROVE  pc'[r] = pc[r]
    BY <1>4 DEF Create
  <1> QED
    BY <1>1, <1>2, <1>3, <1>4, ActsForward DEF Next, Acts

\* No endpoint has a loop or a retry: a request only goes forward.
THEOREM Forward == Spec => OnlyForward
  <1>1. TypeOK /\ [Next]_vars =>
            [\A r \in Requests :
                Acts(r) \/ pc'[r] # pc[r] => Rank(pc[r]) < Rank(pc'[r])]_vars
    BY StepForward
  <1> QED
    BY <1>1, TypeCorrect, PTL DEF Spec, OnlyForward

-----------------------------------------------------------------------------
(* Requests that are served end                                            *)

\* Weak fairness of Serve(r), with its guards in the place of ENABLED.
Served(r) == []<>~Unhindered(r) \/ []<><<Serve(r)>>_vars
AllServed == \A r \in Requests : Served(r)

\* Strong fairness: a row that comes free time after time is in the end given
\* to who waits for it, as PostgreSQL queues them.
Queued(r) == <>[]~Unhindered(r) \/ []<><<Serve(r)>>_vars
AllQueued == \A r \in Requests : Queued(r)

\* They are what the two kinds of fairness say, as the guards are all that
\* Serve(r) needs.
LEMMA FairServes ==
    ASSUME NEW r \in Requests
    PROVE  /\ WF_vars(Serve(r)) /\ [](Unhindered(r) => ENABLED <<Serve(r)>>_vars) => Served(r)
           /\ SF_vars(Serve(r)) /\ [](Unhindered(r) => ENABLED <<Serve(r)>>_vars) => Queued(r)
  BY PTL DEF Served, Queued

\* r has come as far as label n of Rank.
Came(r, n) == Rank(pc[r]) >= n

\* What is left to r, if anything, waits for nobody.
Going(r) == pc[r] \in Owning \cup {"rollback", "reply", "orphan", "done", "lost"}

\* One step of a request that waits for nobody.
LEMMA GoingStep ==
    ASSUME Inv, Inv', [Next]_vars, NEW r \in Requests, Going(r)
    PROVE  /\ Going(r)'
           /\ \A n \in 2..9 : Came(r, n) => Came(r, n)'
           /\ Acts(r) => \A n \in 2..8 : Came(r, n) => Came(r, n + 1)'
  <1> DEFINE from == Rank(pc[r])
             to   == Rank(pc'[r])
  <1>1. from \in 2..9 /\ to \in 0..9
    BY DEF Inv, TypeOK, PCs, Going, Owning, Rank
  <1>2. /\ Acts(r) => from < to
        /\ pc'[r] = pc[r] \/ from < to
    BY StepForward DEF Inv
  <1>3. to > 2 => Going(r)'
    BY DEF Inv, TypeOK, PCs, Going, Owning, Rank
  <1>4. pc'[r] = pc[r] => Going(r)' /\ from = to
    BY DEF Going
  <1> SUFFICES /\ to > 2 \/ Going(r)'
               /\ \A n \in 2..9 : from >= n => to >= n
               /\ Acts(r) => \A n \in 2..8 : from >= n => to >= n + 1
    BY <1>3 DEF Came
  <1> HIDE DEF from, to
  <1> QED
    BY <1>1, <1>2, <1>4

\* Once it has its row, or needs none any more, nothing keeps a request from
\* its end.
LEMMA GoingEnds ==
    ASSUME NEW r \in Requests
    PROVE  []Inv /\ [][Next]_vars /\ Served(r) => (Going(r) ~> Came(r, 9))
  <1> DEFINE Goes    == Going(r)
             Past(n) == Came(r, n)
             Ended   == Came(r, 9)
  <1>1. Inv /\ Goes => Past(2) /\ (Ended \/ Unhindered(r))
    BY DEF Inv, TypeOK, PCs, Going, Owning, Unhindered, Came, Rank
  <1>2. Inv /\ Inv' /\ [Next]_vars /\ Goes =>
            /\ Goes'
            /\ Past(3) => Past(3)'
            /\ Past(4) => Past(4)'
            /\ Past(5) => Past(5)'
            /\ Past(6) => Past(6)'
            /\ Past(7) => Past(7)'
            /\ Past(8) => Past(8)'
            /\ Ended => Ended'
    BY GoingStep
  <1>3. Inv /\ Inv' /\ [Next]_vars /\ Goes /\ <<Serve(r)>>_vars =>
            /\ Past(2) => Past(3)'
            /\ Past(3) => Past(4)'
            /\ Past(4) => Past(5)'
            /\ Past(5) => Past(6)'
            /\ Past(6) => Past(7)'
            /\ Past(7) => Past(8)'
            /\ Past(8) => Ended'
    BY GoingStep DEF Acts
  <1> HIDE DEF Goes, Past, Ended
  <1>4. []Inv /\ [][Next]_vars /\ Served(r) => (Goes ~> Ended)
    BY <1>1, <1>2, <1>3, PTL DEF Served
  <1> QED
    BY <1>4 DEF Goes, Ended

\* A row goes from one transaction to the next by way of nobody.
LEMMA HolderStep ==
    ASSUME Inv, [Next]_vars, NEW t \in Tasks, ~Free(t)
    PROVE  lock'[t] = lock[t] \/ Free(t)'
  <1> USE DEF Inv, TypeOK, Free
  <1>1. ASSUME NEW r \in Requests, GetForUpdate(r) PROVE lock'[t] = lock[t]
    BY <1>1 DEF GetForUpdate
  <1>2. ASSUME NEW r \in Requests, Commit(r) \/ Rollback(r) \/ AbortOrphan(r)
        PROVE  lock'[t] = lock[t] \/ Free(t)'
    BY <1>2 DEF Commit, Rollback, AbortOrphan, Release
  <1>3. ASSUME NEW r \in Requests,
               \/ \E o \in Op : Arrive(r, o)
               \/ Read(r) \/ WriteUpdate(r) \/ WriteDelete(r) \/ PoolFails(r) \/ FindAssignee(r)
               \/ UpdateAssignee(r) \/ InsertLog(r) \/ Notify(r) \/ AssignFails(r)
               \/ Reply(r) \/ Crash(r)
        PROVE  lock' = lock
    BY <1>3 DEF Arrive, Read, WriteUpdate, WriteDelete, PoolFails, FindAssignee, UpdateAssignee,
                InsertLog, Notify, AssignFails, Reply, Crash, tx
  <1>4. CASE Idle \/ UNCHANGED vars
    BY <1>4 DEF Idle, vars, tx
  <1>5. ASSUME NEW c \in Tasks, NEW u \in Users, NEW v \in Users, NEW d \in Data,
               Create(c, u, v, d)
        PROVE  lock' = lock
    BY <1>5 DEF Create, tx
  <1> QED
    BY <1>1, <1>2, <1>3, <1>4, <1>5 DEF Next, Serve, Assign

\* An assignment that was given its row is answered or dies with its process,
\* and whoever takes a row, it becomes free again, time after time.
RowsComeFree ==
    /\ \A r \in Requests : pc[r] \in Owning ~> pc[r] \in {"done", "lost"}
    /\ \A t \in Tasks : []<>Free(t)

\* No assignment keeps its row: InTx ends each transaction it begins.
THEOREM RowsFreed == Spec /\ AllServed => RowsComeFree
  <1>1. ASSUME NEW r \in Requests
        PROVE  []Inv /\ [][Next]_vars /\ Served(r) =>
                   (pc[r] \in Owning ~> pc[r] \in {"done", "lost"})
    <2>1. pc[r] \in Owning => Going(r)
      BY DEF Going
    <2>2. Inv => (Came(r, 9) => pc[r] \in {"done", "lost"})
      BY DEF Inv, TypeOK, PCs, Came, Rank
    <2> QED
      BY <2>1, <2>2, GoingEnds, PTL
  <1>2. ASSUME NEW t \in Tasks
        PROVE  []Inv /\ [][Next]_vars /\ []AllServed => []<>Free(t)
    <2> DEFINE Has(r) == lock[t] = r
    <2>1. ASSUME NEW r \in Requests
          PROVE  []Inv /\ [][Next]_vars /\ Served(r) => (Has(r) => <>Free(t))
      <3>1. Inv /\ Has(r) => Going(r) /\ ~Came(r, 9)
        BY NullAssumption DEF Inv, LockInv, Going, Owning, Came, Rank
      <3>2. Inv /\ [Next]_vars /\ Has(r) => Has(r)' \/ Free(t)'
        BY HolderStep, NullAssumption DEF Free
      <3> HIDE DEF Has
      <3> QED
        BY <3>1, <3>2, GoingEnds, PTL
    <2>2. Inv => Free(t) \/ \E r \in Requests : Has(r)
      BY DEF Inv, TypeOK, Free
    <2> SUFFICES ASSUME []Inv, [][Next]_vars, []AllServed PROVE []<>Free(t)
      OBVIOUS
    <2>3. \A r \in Requests : Has(r) => <>Free(t)
      <3> SUFFICES ASSUME NEW r \in Requests PROVE Has(r) => <>Free(t)
        OBVIOUS
      <3>1. AllServed
        BY PTL
      <3>2. Served(r)
        BY <3>1 DEF AllServed
      <3> QED
        BY <2>1, <3>2, PTL
    <2>4. Inv
      BY PTL
    <2>5. Free(t) \/ <>Free(t)
      BY <2>2, <2>3, <2>4
    <2> QED
      BY <2>5, PTL
  <1>3. AllServed => []AllServed
    <2>1. ASSUME NEW r \in Requests PROVE Served(r) => []Served(r)
      BY PTL DEF Served
    <2>2. AllServed => \A r \in Requests : []Served(r)
      BY <2>1 DEF AllServed
    <2>3. (\A r \in Requests : []Served(r)) => []AllServed
      BY DEF AllServed
    <2> QED
      BY <2>2, <2>3
  <1> SUFFICES ASSUME Spec, AllServed PROVE RowsComeFree
    OBVIOUS
  <1>4. []Inv /\ [][Next]_vars
    BY Invariance, PTL DEF Spec
  <1> QED
    BY <1>1, <1>2, <1>3, <1>4 DEF RowsComeFree, AllServed

\* A request that has still to get at its row, and does not change its mind.
WaitsAt(r, t) == pc[r] \in {"read", "write", "forUpdate"} /\ op[r].task = t

LEMMA WaitingStep ==
    ASSUME Inv, Inv', [Next]_vars, NEW r \in Requests, NEW t \in Tasks, WaitsAt(r, t)
    PROVE  /\ WaitsAt(r, t)' \/ Going(r)'
           /\ Came(r, 2) => Came(r, 2)' \/ Going(r)'
           /\ Serve(r) => Came(r, 2)' \/ Going(r)'
           /\ Serve(r) /\ Came(r, 2) => Going(r)'
           /\ Free(t) => Unhindered(r)
  <1> USE DEF Inv, TypeOK
  <1>1. Free(t) => Unhindered(r)
    BY DEF WaitsAt, Unhindered, KindInv
  <1>2. ASSUME pc'[r] = pc[r], ~Acts(r) PROVE WaitsAt(r, t)' /\ (Came(r, 2) => Came(r, 2)')
    <2>1. op'[r] = op[r]
      <3>1. ASSUME NEW q \in Requests, NEW o \in Op, Arrive(q, o) PROVE op'[r] = op[r]
        BY <3>1 DEF Arrive, WaitsAt
      <3>2. ASSUME NEW q \in Requests, Acts(q) PROVE op'[r] = op[r]
        BY <3>2, Fixed
      <3>3. CASE Idle \/ UNCHANGED vars
        BY <3>3 DEF Idle, vars
      <3>4. ASSUME NEW c \in Tasks, NEW u \in Users, NEW v \in Users, NEW d \in Data,
                   Create(c, u, v, d)
            PROVE  op'[r] = op[r]
        BY <3>4 DEF Create
      <3> QED
        BY <3>1, <3>2, <3>3, <3>4 DEF Next, Acts
    <2> QED
      BY <1>2, <2>1 DEF WaitsAt, Came
  <1>3. ASSUME Acts(r)
        PROVE  /\ pc[r] \in {"write", "forUpdate"} => Going(r)'
               /\ pc[r] = "read" => (WaitsAt(r, t)' /\ Came(r, 2)') \/ Going(r)'
    <2> DEFINE After(label) == IF label = "read" THEN {"write", "reply", "lost"}
                              ELSE {"reply", "lost", "rollback", "findAssignee", "orphan"}
    <2>1. pc'[r] \in After(pc[r])
      <3> USE DEF Goto, Finish, Abandon, WaitsAt
      <3>1. CASE Read(r) \/ WriteUpdate(r) \/ WriteDelete(r) \/ PoolFails(r)
        BY <3>1 DEF Read, WriteUpdate, WriteDelete, PoolFails
      <3>2. CASE GetForUpdate(r) \/ AssignFails(r) \/ Crash(r)
        BY <3>2 DEF GetForUpdate, AssignFails, Crash, InClosure
      <3>3. CASE FindAssignee(r) \/ UpdateAssignee(r) \/ InsertLog(r) \/ Notify(r)
        BY <3>3 DEF FindAssignee, UpdateAssignee, InsertLog, Notify
      <3>4. CASE Commit(r) \/ Rollback(r) \/ Reply(r) \/ AbortOrphan(r)
        BY <3>4 DEF Commit, Rollback, Reply, AbortOrphan
      <3> QED
        BY <1>3, <3>1, <3>2, <3>3, <3>4 DEF Acts, Serve, Assign
    <2>2. op' = op
      BY <1>3, Fixed
    <2>3. pc'[r] # "write" => Going(r)'
      BY <2>1 DEF Going, Owning
    <2>4. pc'[r] = "write" => pc[r] = "read" /\ WaitsAt(r, t)' /\ Came(r, 2)'
      BY <2>1, <2>2 DEF WaitsAt, Came, Rank
    <2> QED
      BY <2>3, <2>4
  <1>4. pc'[r] = pc[r] \/ Acts(r)
    <2>1. ASSUME NEW q \in Requests, NEW o \in Op, Arrive(q, o) PROVE pc'[r] = pc[r]
      BY <2>1 DEF Arrive, WaitsAt, Goto
    <2>2. ASSUME NEW q \in Requests, q # r, Acts(q) PROVE pc'[r] = pc[r]
      BY <2>2, Elsewhere
    <2>3. CASE Idle \/ UNCHANGED vars
      BY <2>3 DEF Idle, vars
    <2>4. ASSUME NEW c \in Tasks, NEW u \in Users, NEW v \in Users, NEW d \in Data,
                 Create(c, u, v, d)
          PROVE  pc'[r] = pc[r]
      BY <2>4 DEF Create
    <2> QED
      BY <2>1, <2>2, <2>3, <2>4 DEF Next, Acts
  <1>5. Came(r, 2) => pc[r] # "read"
    BY DEF Came, Rank
  <1> QED
    BY <1>1, <1>2, <1>3, <1>4, <1>5 DEF WaitsAt, Acts

\* Whoever has the row locked, and however many want it.
THEOREM EveryoneEnds == Spec /\ AllQueued => EveryRequestEnds
  <1> DEFINE Ended(r)  == pc[r] \in {"done", "lost"}
             Begun(r) == pc[r] \in {"read", "forUpdate"}
  <1>1. ASSUME NEW r \in Requests PROVE Queued(r) => Served(r)
    BY PTL DEF Queued, Served
  <1>2. AllQueued => AllServed
    BY <1>1 DEF AllQueued, AllServed
  <1>3. ASSUME NEW r \in Requests, NEW t \in Tasks
        PROVE  []Inv /\ [][Next]_vars /\ Queued(r) /\ []<>Free(t) =>
                   [](WaitsAt(r, t) => <>Ended(r))
    <2>1. Inv /\ Inv' /\ [Next]_vars /\ WaitsAt(r, t) =>
              /\ WaitsAt(r, t)' \/ Going(r)'
              /\ Came(r, 2) => Came(r, 2)' \/ Going(r)'
              /\ <<Serve(r)>>_vars => Came(r, 2)' \/ Going(r)'
              /\ <<Serve(r)>>_vars /\ Came(r, 2) => Going(r)'
              /\ Free(t) => Unhindered(r)
      BY WaitingStep
    <2>2. []Inv /\ [][Next]_vars /\ Served(r) => (Going(r) ~> Came(r, 9))
      BY GoingEnds
    <2>3. Inv => (Came(r, 9) => Ended(r))
      BY DEF Inv, TypeOK, PCs, Came, Rank
    <2>4. Queued(r) => Served(r)
      BY <1>1
    <2> HIDE DEF Ended
    <2> QED
      BY <2>1, <2>2, <2>3, <2>4, PTL DEF Queued
  <1>4. ASSUME NEW r \in Requests
        PROVE  []Inv /\ [](\A t \in Tasks : WaitsAt(r, t) => <>Ended(r)) =>
                   (Begun(r) ~> Ended(r))
    <2> DEFINE NoWaiterLeft == \A t \in Tasks : WaitsAt(r, t) => <>Ended(r)
    <2>1. Inv /\ NoWaiterLeft => (Begun(r) => <>Ended(r))
      <3>1. Inv /\ Begun(r) => op[r].task \in Tasks
        BY Asked DEF Inv, Asks
      <3> QED
        BY <3>1 DEF WaitsAt
    <2>2. []Inv /\ []NoWaiterLeft => (Begun(r) ~> Ended(r))
      <3> HIDE DEF Ended, Begun, NoWaiterLeft
      <3> QED
        BY <2>1, PTL
    <2> QED
      BY <2>2
  <1> SUFFICES ASSUME Spec, AllQueued PROVE EveryRequestEnds
    OBVIOUS
  <1>5. []Inv /\ [][Next]_vars
    BY Invariance, PTL DEF Spec
  <1>6. \A t \in Tasks : []<>Free(t)
    BY <1>2, RowsFreed DEF RowsComeFree
  <1>7. ASSUME NEW r \in Requests PROVE Begun(r) ~> Ended(r)
    <2>1. Queued(r)
      BY DEF AllQueued
    <2>2. \A t \in Tasks : [](WaitsAt(r, t) => <>Ended(r))
      BY <1>3, <1>5, <1>6, <2>1
    <2>3. [](\A t \in Tasks : WaitsAt(r, t) => <>Ended(r))
      BY <2>2
    <2> HIDE DEF Ended, Begun
    <2> QED
      BY <1>4, <1>5, <2>3
  <1> QED
    BY <1>7 DEF EveryRequestEnds

=============================================================================

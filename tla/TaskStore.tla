------------------------------ MODULE TaskStore -----------------------------
(***************************************************************************)
(* GET, PUT and DELETE /tasks/:id and POST /tasks/:id/assign over the      *)
(* tables tasks and task_logs.                                             *)
(*                                                                         *)
(* Get, Update and Delete run one or two statements on the pool, each a    *)
(* transaction of its own: what the first one read may be stale when the   *)
(* second one writes.  Assign runs in one transaction that locks the row   *)
(* with SELECT ... FOR UPDATE.  Requests interleave statement by           *)
(* statement, statements and commits may fail, processes may die.          *)
(***************************************************************************)
EXTENDS Integers, Sequences

CONSTANTS
    Requests,   \* HTTP attempts
    Tasks,      \* task identifiers, gen_random_uuid(): each is made once
    Users,      \* registered users
    Stranger,   \* a user id that is in no row of users
    Teams,
    TeamOf,     \* TeamOf[u]: users.team_id, which no statement updates
    Data,       \* title, description, status, priority and due date as one
    Kinds,      \* the endpoints an instance exercises
    NULL

VARIABLES
    task,       \* task[t]: the committed row of t, or NULL
    logs,       \* logs[t]: the committed task_logs rows of t, in commit order
    born,       \* born[t]: the assignee t was created with, NULL before (history)
    lock,       \* lock[t]: the transaction that locked the row of t
    pc,         \* pc[r]: where request r stands
    op,         \* op[r]: what r asks for
    seen,       \* seen[r]: the row r read first
    draft,      \* draft[r]: r's uncommitted version of its row, or NULL
    entry,      \* entry[r]: r's uncommitted task_logs row, or NULL
    notified,   \* requests whose notification.sent line is in the log
    out         \* out[r]: the status r is about to get

store == <<task, logs, born>>
tx    == <<lock, draft, entry>>
vars  == <<store, tx, pc, op, seen, notified, out>>

-----------------------------------------------------------------------------
(* Values *)

Row   == [team : Teams, creator : Users, assignee : Users, data : Data]
Entry == [id : Requests, actor : Users, from : Users, to : Users]

Op == {o \in [kind : Kinds, actor : Users, task : Tasks,
              arg : Users \cup {Stranger} \cup Data \cup {NULL}] :
          CASE o.kind = "assign" -> o.arg \in Users \cup {Stranger}
            [] o.kind = "update" -> o.arg \in Data
            [] OTHER             -> o.arg = NULL}

Statuses == {200, 204, 403, 404, 422, 500}

PCs == {"idle", "read", "write", "forUpdate", "findAssignee", "updateAssignee",
        "insertLog", "notify", "commit", "rollback", "reply", "done",
        "orphan", "lost"}

\* Statements of the closure of Assign, each of which may fail.
InClosure == {"forUpdate", "findAssignee", "updateAssignee", "insertLog"}

ASSUME TeamAssumption == TeamOf \in [Users -> Teams]
ASSUME KindAssumption == Kinds \subseteq {"get", "update", "delete", "assign"}
ASSUME NullAssumption ==
    /\ NULL \notin Requests \cup Row \cup Entry \cup Users \cup Data
    /\ Stranger \notin Users

Goto(r, label) == pc' = [pc EXCEPT ![r] = label]

\* The request is over but for its answer.
Finish(r, status) == out' = [out EXCEPT ![r] = status] /\ Goto(r, "reply")

\* The closure returns an error.
Abandon(r, status) == out' = [out EXCEPT ![r] = status] /\ Goto(r, "rollback")

Free(t) == lock[t] = NULL

Release(r) ==
    /\ lock' = [t \in Tasks |-> IF lock[t] = r THEN NULL ELSE lock[t]]
    /\ draft' = [draft EXCEPT ![r] = NULL]
    /\ entry' = [entry EXCEPT ![r] = NULL]

Init ==
    /\ task     = [t \in Tasks |-> NULL]
    /\ logs     = [t \in Tasks |-> <<>>]
    /\ born     = [t \in Tasks |-> NULL]
    /\ lock     = [t \in Tasks |-> NULL]
    /\ pc       = [r \in Requests |-> "idle"]
    /\ op       = [r \in Requests |-> NULL]
    /\ seen     = [r \in Requests |-> NULL]
    /\ draft    = [r \in Requests |-> NULL]
    /\ entry    = [r \in Requests |-> NULL]
    /\ notified = {}
    /\ out      = [r \in Requests |-> 0]

-----------------------------------------------------------------------------
(* POST /tasks, as far as the task is concerned: the commit of              *)
(* IdempotentCreate.  The assignee may be any user: nothing compares teams. *)

Create(t, actor, assignee, data) ==
    /\ born[t] = NULL
    /\ born' = [born EXCEPT ![t] = assignee]
    /\ task' = [task EXCEPT ![t] = [team |-> TeamOf[actor], creator |-> actor,
                                    assignee |-> assignee, data |-> data]]
    /\ UNCHANGED <<logs, tx, pc, op, seen, notified, out>>

Arrive(r, o) ==
    /\ pc[r] = "idle"
    /\ op' = [op EXCEPT ![r] = o]
    /\ Goto(r, IF o.kind = "assign" THEN "forUpdate" ELSE "read")
    /\ UNCHANGED <<store, tx, seen, notified, out>>

\* There is a row and it belongs to the actor's team: otherwise 404.
Visible(row, r) == row # NULL /\ row.team = TeamOf[op[r].actor]

-----------------------------------------------------------------------------
(* Get, Update, Delete: statements on the pool                             *)

\* Mutant: the creator is compared before the team.
ReadCreatorFirst(r) ==
    LET row    == task[op[r].task]
        barred == op[r].kind = "delete" /\ row.creator # op[r].actor
    IN
    /\ pc[r] = "read"
    /\ seen' = [seen EXCEPT ![r] = row]
    /\ \/ row # NULL /\ barred /\ Finish(r, 403)
       \/ row # NULL /\ ~barred /\ ~Visible(row, r) /\ Finish(r, 404)
       \/ row = NULL /\ Finish(r, 404)
       \/ Visible(row, r) /\ op[r].kind = "get" /\ Finish(r, 200)
       \/ /\ Visible(row, r) /\ ~barred /\ op[r].kind # "get"
          /\ Goto(r, "write")
          /\ UNCHANGED out
    /\ UNCHANGED <<store, tx, op, notified>>

\* Mutant: the creator is not compared at all.
ReadAnyoneDeletes(r) ==
    LET row == task[op[r].task] IN
    /\ pc[r] = "read"
    /\ seen' = [seen EXCEPT ![r] = row]
    /\ \/ ~Visible(row, r) /\ Finish(r, 404)
       \/ Visible(row, r) /\ op[r].kind = "get" /\ Finish(r, 200)
       \/ Visible(row, r) /\ op[r].kind # "get" /\ Goto(r, "write") /\ UNCHANGED out
    /\ UNCHANGED <<store, tx, op, notified>>

\* GetByID and the checks on what it read: the row may be another team's
\* (404, as if it were not there), and only its creator may delete it.
Read(r) ==
    LET row    == task[op[r].task]
        barred == op[r].kind = "delete" /\ row.creator # op[r].actor
    IN
    /\ pc[r] = "read"
    /\ seen' = [seen EXCEPT ![r] = row]
    /\ \/ ~Visible(row, r) /\ Finish(r, 404)
       \/ Visible(row, r) /\ barred /\ Finish(r, 403)
       \/ Visible(row, r) /\ op[r].kind = "get" /\ Finish(r, 200)
       \/ /\ Visible(row, r) /\ ~barred /\ op[r].kind # "get"
          /\ Goto(r, "write")
          /\ UNCHANGED out
    /\ UNCHANGED <<store, tx, op, notified>>

\* Mutant: the row read earlier is written back with the new data.
WriteUpdateWholeRow(r) ==
    LET t == op[r].task IN
    /\ pc[r] = "write" /\ op[r].kind = "update"
    /\ Free(t)
    /\ IF task[t] = NULL
       THEN Finish(r, 404) /\ UNCHANGED task
       ELSE /\ task' = [task EXCEPT ![t] = [seen[r] EXCEPT !.data = op[r].arg]]
            /\ \E status \in {200, 500} : Finish(r, status)
    /\ UNCHANGED <<logs, born, tx, op, seen, notified>>

\* Mutant: an upsert instead of an UPDATE.
WriteUpdateUpsert(r) ==
    LET t == op[r].task IN
    /\ pc[r] = "write" /\ op[r].kind = "update"
    /\ Free(t)
    /\ task' = [task EXCEPT ![t] = [seen[r] EXCEPT !.data = op[r].arg]]
    /\ \E status \in {200, 500} : Finish(r, status)
    /\ UNCHANGED <<logs, born, tx, op, seen, notified>>

\* UPDATE by id waits for the row's lock and sets the five fields it was
\* given, none of those it read; no row left is a 404.  Its acknowledgement
\* may be lost.
WriteUpdate(r) ==
    LET t == op[r].task IN
    /\ pc[r] = "write" /\ op[r].kind = "update"
    /\ Free(t)
    /\ IF task[t] = NULL
       THEN Finish(r, 404) /\ UNCHANGED task
       ELSE /\ task' = [task EXCEPT ![t].data = op[r].arg]
            /\ \E status \in {200, 500} : Finish(r, status)
    /\ UNCHANGED <<logs, born, tx, op, seen, notified>>

\* DELETE by id waits for the row's lock and takes the logs along (ON DELETE
\* CASCADE); it does not say whether there was a row.
WriteDelete(r) ==
    LET t == op[r].task IN
    /\ pc[r] = "write" /\ op[r].kind = "delete"
    /\ Free(t)
    /\ task' = [task EXCEPT ![t] = NULL]
    /\ logs' = [logs EXCEPT ![t] = <<>>]
    /\ \E status \in {204, 500} : Finish(r, status)
    /\ UNCHANGED <<born, tx, op, seen, notified>>

\* A statement fails before it has any effect.
PoolFails(r) ==
    /\ pc[r] \in {"read", "write"}
    /\ Finish(r, 500)
    /\ UNCHANGED <<store, tx, op, seen, notified>>

-----------------------------------------------------------------------------
(* Assign: one transaction                                                 *)

\* SELECT ... FOR UPDATE, then the team check with the row already locked.
GetForUpdate(r) ==
    LET t == op[r].task IN
    /\ pc[r] = "forUpdate"
    /\ Free(t)
    /\ seen' = [seen EXCEPT ![r] = task[t]]
    /\ lock' = IF task[t] = NULL THEN lock ELSE [lock EXCEPT ![t] = r]
    /\ \/ ~Visible(task[t], r) /\ Abandon(r, 404)
       \/ Visible(task[t], r) /\ Goto(r, "findAssignee") /\ UNCHANGED out
    /\ UNCHANGED <<store, draft, entry, op, notified>>

\* Mutant: the assignee is not looked up.
FindAssigneeUnchecked(r) ==
    /\ pc[r] = "findAssignee"
    /\ Goto(r, "updateAssignee")
    /\ UNCHANGED <<store, tx, op, seen, notified, out>>

\* Users.GetByID and the team of whoever it found.
FindAssignee(r) ==
    LET assignee == op[r].arg IN
    /\ pc[r] = "findAssignee"
    /\ \/ assignee \notin Users /\ Abandon(r, 422)
       \/ /\ assignee \in Users
          /\ TeamOf[assignee] # TeamOf[op[r].actor]
          /\ Abandon(r, 403)
       \/ /\ assignee \in Users
          /\ TeamOf[assignee] = TeamOf[op[r].actor]
          /\ Goto(r, "updateAssignee")
          /\ UNCHANGED out
    /\ UNCHANGED <<store, tx, op, seen, notified>>

UpdateAssignee(r) ==
    /\ pc[r] = "updateAssignee"
    /\ draft' = [draft EXCEPT ![r] = [task[op[r].task] EXCEPT !.assignee = op[r].arg]]
    /\ Goto(r, "insertLog")
    /\ UNCHANGED <<store, lock, entry, op, seen, notified, out>>

\* Mutant: the log goes through the pool, not the transaction.
InsertLogOutsideTx(r) ==
    LET t == op[r].task IN
    /\ pc[r] = "insertLog"
    /\ logs' = [logs EXCEPT ![t] = Append(@,
           [id |-> r, actor |-> op[r].actor, from |-> seen[r].assignee, to |-> op[r].arg])]
    /\ Goto(r, "notify")
    /\ UNCHANGED <<task, born, tx, op, seen, notified, out>>

\* The payload says "from" the assignee that was read under the lock.
InsertLog(r) ==
    /\ pc[r] = "insertLog"
    /\ entry' = [entry EXCEPT ![r] =
           [id |-> r, actor |-> op[r].actor, from |-> seen[r].assignee, to |-> op[r].arg]]
    /\ Goto(r, "notify")
    /\ UNCHANGED <<store, lock, draft, op, seen, notified, out>>

\* The notifier writes a log line at once, inside the transaction; it never
\* returns an error.
Notify(r) ==
    /\ pc[r] = "notify"
    /\ notified' = notified \cup {r}
    /\ out' = [out EXCEPT ![r] = 200]
    /\ Goto(r, "commit")
    /\ UNCHANGED <<store, tx, op, seen>>

\* COMMIT takes effect; its acknowledgement may be lost.
Commit(r) ==
    LET t == op[r].task IN
    /\ pc[r] = "commit"
    /\ task' = [task EXCEPT ![t] = draft[r]]
    /\ logs' = [logs EXCEPT ![t] = Append(@, entry[r])]
    /\ Release(r)
    /\ \E status \in {200, 500} : Finish(r, status)
    /\ UNCHANGED <<born, op, seen, notified>>

\* Mutant: the error of COMMIT is dropped.
AssignFailsSilently(r) ==
    /\ pc[r] \in InClosure \cup {"commit"}
    /\ Abandon(r, IF pc[r] = "commit" THEN out[r] ELSE 500)
    /\ UNCHANGED <<store, tx, op, seen, notified>>

\* A statement of the closure, or COMMIT itself, fails.
AssignFails(r) ==
    /\ pc[r] \in InClosure \cup {"commit"}
    /\ Abandon(r, 500)
    /\ UNCHANGED <<store, tx, op, seen, notified>>

\* Mutant: the transaction is left open.
RollbackForgotten(r) ==
    /\ pc[r] = "rollback"
    /\ Goto(r, "reply")
    /\ UNCHANGED <<store, tx, op, seen, notified, out>>

Rollback(r) ==
    /\ pc[r] = "rollback"
    /\ Release(r)
    /\ Goto(r, "reply")
    /\ UNCHANGED <<store, op, seen, notified, out>>

-----------------------------------------------------------------------------

\* The handler returns; its locals are gone.
Reply(r) ==
    /\ pc[r] = "reply"
    /\ seen' = [seen EXCEPT ![r] = NULL]
    /\ Goto(r, "done")
    /\ UNCHANGED <<store, tx, op, notified, out>>

\* The process serving r is killed; PostgreSQL keeps an open transaction
\* until it notices.
Crash(r) ==
    /\ \/ /\ pc[r] \in InClosure \cup {"notify", "commit", "rollback"}
          /\ Goto(r, "orphan")
       \/ /\ pc[r] \in {"read", "write", "reply"}
          /\ Goto(r, "lost")
    /\ UNCHANGED <<store, tx, op, seen, notified, out>>

AbortOrphan(r) ==
    /\ pc[r] = "orphan"
    /\ Release(r)
    /\ Goto(r, "lost")
    /\ UNCHANGED <<store, op, seen, notified, out>>

\* Every request is over and every task has been made.
Idle ==
    /\ \A r \in Requests : pc[r] \in {"done", "lost"}
    /\ \A t \in Tasks : born[t] # NULL
    /\ UNCHANGED vars

-----------------------------------------------------------------------------

Assign(r) ==
    \/ GetForUpdate(r)
    \/ FindAssignee(r)
    \/ UpdateAssignee(r)
    \/ InsertLog(r)
    \/ Notify(r)
    \/ Commit(r)
    \/ Rollback(r)

\* What the server does for r once it has arrived.
Serve(r) ==
    \/ Read(r)
    \/ WriteUpdate(r)
    \/ WriteDelete(r)
    \/ Assign(r)
    \/ Reply(r)
    \/ AbortOrphan(r)

Next ==
    \/ \E t \in Tasks, u, v \in Users, d \in Data : Create(t, u, v, d)
    \/ \E r \in Requests :
        \/ \E o \in Op : Arrive(r, o)
        \/ Serve(r)
        \/ PoolFails(r)
        \/ AssignFails(r)
        \/ Crash(r)
    \/ Idle

Spec == Init /\ [][Next]_vars

\* As in IdempotentCreate: goroutines run, PostgreSQL answers or fails every
\* statement and notices dead clients.
FairSpec == Spec /\ \A r \in Requests : WF_vars(Serve(r))

-----------------------------------------------------------------------------
(* What the code guarantees                                                *)

TypeOK ==
    /\ task \in [Tasks -> Row \cup {NULL}]
    /\ logs \in [Tasks -> Seq(Entry)]
    /\ born \in [Tasks -> Users \cup {NULL}]
    /\ lock \in [Tasks -> Requests \cup {NULL}]
    /\ pc \in [Requests -> PCs]
    /\ op \in [Requests -> Op \cup {NULL}]
    /\ \A r \in Requests : pc[r] # "idle" => op[r] \in Op
    /\ seen \in [Requests -> Row \cup {NULL}]
    /\ draft \in [Requests -> Row \cup {NULL}]
    /\ entry \in [Requests -> Entry \cup {NULL}]
    /\ notified \subseteq Requests
    /\ out \in [Requests -> Statuses \cup {0}]

\* Who had the task after its i-th assignment.
Holder(t, i) == IF i = 0 THEN born[t] ELSE logs[t][i].to

\* The log of a task is an unbroken chain from the assignee it was created
\* with to the one it has now: no assignment is lost, logged twice or logged
\* from an assignee that was already replaced.
LogChain ==
    \A t \in Tasks :
        task[t] # NULL =>
            /\ \A i \in 1..Len(logs[t]) : logs[t][i].from = Holder(t, i - 1)
            /\ task[t].assignee = Holder(t, Len(logs[t]))

LoggedBy(r) == \E i \in 1..Len(logs[op[r].task]) : logs[op[r].task][i].id = r

\* An assignment that was acknowledged is in the log of its task (unless the
\* task is gone) and was notified; one that was refused left no trace, and no
\* assignment is logged that was not notified.
AssignAllOrNothing ==
    \A r \in Requests :
        pc[r] # "idle" =>
            /\ LoggedBy(r) => r \in notified
            /\ pc[r] = "done" /\ op[r].kind = "assign" =>
                   CASE out[r] = 200 -> /\ r \in notified
                                        /\ task[op[r].task] # NULL => LoggedBy(r)
                     [] out[r] = 500 -> TRUE
                     [] OTHER        -> r \notin notified /\ ~LoggedBy(r)

\* Nothing but "not found" (or a failure) is ever said of a task of another
\* team, whichever endpoint and whatever the other checks would have said.
ForeignTaskInvisible ==
    \A r \in Requests :
        LET t == op[r].task IN
        pc[r] = "done" /\ task[t] # NULL =>
            (task[t].team # TeamOf[op[r].actor] => out[r] \in {404, 500})

\* A task whose deletion was acknowledged is gone with its log, whatever
\* updates and assignments were under way: nothing brings it back.
DeleteIsFinal ==
    \A r \in Requests :
        pc[r] = "done" /\ op[r].kind = "delete" /\ out[r] = 204 =>
            task[op[r].task] = NULL /\ logs[op[r].task] = <<>>

\* The checks made on a row read earlier still hold when the write happens:
\* whoever changes a task is of its team, and whoever removes it created it.
WritersEntitled ==
    [][\A r \in Requests :
          LET t == op[r].task IN
          pc[r] # "idle" /\ pc'[r] # pc[r] /\ task'[t] # task[t] =>
              /\ task[t] # NULL
              /\ task[t].team = TeamOf[op[r].actor]
              /\ task'[t] = NULL => task[t].creator = op[r].actor]_vars

\* Whoever has the row locked, and however that transaction ends, a request
\* is answered or dies with its process.
EveryRequestEnds ==
    \A r \in Requests : pc[r] \in {"read", "forUpdate"} ~> pc[r] \in {"done", "lost"}

Book == INSTANCE TaskBook

\* Seen from outside, the book changes by whole operations only.
ImplementsBook == Book!Spec

-----------------------------------------------------------------------------
(* What the documents say and the code does not do                         *)

\* README.md:100: "assignee + log + notification rollback together": a
\* notification is only seen of an assignment that is in the log.
NotificationRollsBack ==
    \A r \in Requests :
        pc[r] \in {"done", "lost"} /\ r \in notified /\ task[op[r].task] # NULL =>
            LoggedBy(r)

=============================================================================

------------------------------ MODULE TaskBook ------------------------------
(***************************************************************************)
(* What the task endpoints promise: a book of tasks in which every change  *)
(* is one whole operation by somebody entitled to it, and every change of  *)
(* an assignee is in the log of its task.  No transactions, no locks.      *)
(***************************************************************************)
EXTENDS Sequences

CONSTANTS Requests, Tasks, Users, TeamOf, Data, NULL

VARIABLES
    task,       \* task[t]: the task, or NULL (not made yet, or deleted)
    logs,       \* logs[t]: its assignments, oldest first
    born        \* born[t]: the assignee it was made with, NULL before

vars == <<task, logs, born>>

Init ==
    /\ task = [t \in Tasks |-> NULL]
    /\ logs = [t \in Tasks |-> <<>>]
    /\ born = [t \in Tasks |-> NULL]

\* Identifiers are never used again.
Make(t, creator, assignee, data) ==
    /\ born[t] = NULL
    /\ born' = [born EXCEPT ![t] = assignee]
    /\ task' = [task EXCEPT ![t] = [team |-> TeamOf[creator], creator |-> creator,
                                    assignee |-> assignee, data |-> data]]
    /\ UNCHANGED logs

Edit(t, data) ==
    /\ task[t] # NULL
    /\ task' = [task EXCEPT ![t].data = data]
    /\ UNCHANGED <<logs, born>>

\* Handed from whoever has it to a member of its team, by a member.
Hand(t, r, actor, assignee) ==
    /\ task[t] # NULL
    /\ TeamOf[actor] = task[t].team
    /\ TeamOf[assignee] = task[t].team
    /\ task' = [task EXCEPT ![t].assignee = assignee]
    /\ logs' = [logs EXCEPT ![t] = Append(@,
           [id |-> r, actor |-> actor, from |-> task[t].assignee, to |-> assignee])]
    /\ UNCHANGED born

\* The log goes with the task.
Remove(t) ==
    /\ task[t] # NULL
    /\ task' = [task EXCEPT ![t] = NULL]
    /\ logs' = [logs EXCEPT ![t] = <<>>]
    /\ UNCHANGED born

Next ==
    \E t \in Tasks :
        \/ \E u, v \in Users, d \in Data : Make(t, u, v, d)
        \/ \E d \in Data : Edit(t, d)
        \/ \E r \in Requests, u, v \in Users : Hand(t, r, u, v)
        \/ Remove(t)

Spec == Init /\ [][Next]_vars

=============================================================================

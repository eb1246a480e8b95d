--------------------------- MODULE ContractProofs ---------------------------
(***************************************************************************)
(* What the three abstract specifications are worth: what each one         *)
(* promises holds of whatever implements it, and so of the code as         *)
(* IdempotentCreateProofs, TaskStoreProofs and RegistrationProofs show it. *)
(***************************************************************************)
EXTENDS Integers, Sequences, TLAPS

CONSTANTS Requests, Keys, Window, MaxTime, Tasks, Users, TeamOf, Data, Emails, Passwords, NULL

VARIABLES
    asked, at, made, answer,    \* of CreateContract
    task, logs, born,           \* of TaskBook
    who, wanted, told           \* of Directory

Create == INSTANCE CreateContract
Book   == INSTANCE TaskBook
Dir    == INSTANCE Directory WITH asked <- wanted, answer <- told

-----------------------------------------------------------------------------
(* POST /tasks                                                             *)

\* Tasks of one key are more than a window apart,
MadeApart ==
    \A k \in Keys : \A t, u \in made[k] :
        t = u \/ at[t] + Window < at[u] \/ at[u] + Window < at[t]

\* and who is told of a task is told of one made for its own key.
ToldOfItsOwn ==
    \A r \in Requests : answer[r] # NULL => asked[r] \in Keys /\ answer[r] \in made[asked[r]]

CreateInv ==
    /\ asked \in [Requests -> Keys \cup {NULL}]
    /\ at \in [Requests -> Int]
    /\ made \in [Keys -> SUBSET Requests]
    /\ answer \in [Requests -> Requests \cup {NULL}]
    /\ \A k \in Keys : \A t \in made[k] : asked[t] = k
    /\ MadeApart
    /\ ToldOfItsOwn

\* An idempotency key is one task per window, for everybody who uses it.
THEOREM CreatePromise ==
    ASSUME NULL \notin Keys \cup Requests, Window \in Int
    PROVE  Create!Spec => [](MadeApart /\ ToldOfItsOwn)
  <1> USE DEF CreateInv, MadeApart, ToldOfItsOwn
  <1>1. Create!Init => CreateInv
    BY DEF Create!Init
  <1>2. ASSUME CreateInv, [Create!Next]_(Create!vars) PROVE CreateInv'
    <2>1. ASSUME NEW r \in Requests, NEW k \in Keys, NEW t \in 0..MaxTime, Create!Ask(r, k, t)
          PROVE  CreateInv'
      <3>1. \A c \in Keys : r \notin made[c]
        BY <1>2, <2>1 DEF Create!Ask
      <3> QED
        BY <1>2, <2>1, <3>1 DEF Create!Ask
    <2>2. ASSUME NEW r \in Requests, NEW k \in Keys, Create!Make(r, k) PROVE CreateInv'
      BY <1>2, <2>2 DEF Create!Make
    <2>3. ASSUME NEW r \in Requests, NEW k \in Keys, NEW t \in Requests, Create!Answer(r, k, t)
          PROVE  CreateInv'
      BY <1>2, <2>3 DEF Create!Answer
    <2>4. CASE UNCHANGED Create!vars
      BY <1>2, <2>4 DEF Create!vars
    <2> QED
      BY <1>2, <2>1, <2>2, <2>3, <2>4 DEF Create!Next
  <1>3. CreateInv => MadeApart /\ ToldOfItsOwn
    OBVIOUS
  <1> QED
    BY <1>1, <1>2, <1>3, PTL DEF Create!Spec

-----------------------------------------------------------------------------
(* The task endpoints                                                      *)

Team  == {TeamOf[u] : u \in Users}
Row   == [team : Team, creator : Users, assignee : Users, data : Data]
Entry == [id : Requests, actor : Users, from : Users, to : Users]

\* Who had the task after its i-th assignment.
HolderOf(t, i) == IF i = 0 THEN born[t] ELSE logs[t][i].to

\* The log of a task leads from the assignee it was made with to the one it has,
Unbroken(t) ==
    /\ \A i \in 1..Len(logs[t]) : logs[t][i].from = HolderOf(t, i - 1)
    /\ task[t].assignee = HolderOf(t, Len(logs[t]))

\* and whoever gave it, or was given it, is of its team.
WithinTeam(t) ==
    \A i \in 1..Len(logs[t]) :
        TeamOf[logs[t][i].actor] = task[t].team /\ TeamOf[logs[t][i].to] = task[t].team

BookKept == \A t \in Tasks : task[t] # NULL => Unbroken(t) /\ WithinTeam(t)

BookTypeOK ==
    /\ task \in [Tasks -> Row \cup {NULL}]
    /\ logs \in [Tasks -> Seq(Entry)]
    /\ born \in [Tasks -> Users \cup {NULL}]

BookInv ==
    /\ BookTypeOK
    /\ \A t \in Tasks : /\ born[t] = NULL => task[t] = NULL
                        /\ task[t] = NULL => logs[t] = <<>>
    /\ BookKept

\* What the audit log says of a task is the whole of what happened to its
\* assignee, and the team the task was made in never let it go.
THEOREM BookPromise ==
    ASSUME NULL \notin Users \cup Row
    PROVE  Book!Spec => []BookKept
  <1>1. Book!Init => BookInv
    BY DEF Book!Init, BookInv, BookTypeOK, BookKept
  <1>2. ASSUME BookInv, [Book!Next]_(Book!vars) PROVE BookInv'
    <2> USE <1>2 DEF BookInv, BookTypeOK, BookKept
    <2>1. ASSUME NEW t \in Tasks, NEW u \in Users, NEW v \in Users, NEW d \in Data,
                 Book!Make(t, u, v, d)
          PROVE  BookInv'
      <3> DEFINE row == [team |-> TeamOf[u], creator |-> u, assignee |-> v, data |-> d]
      <3>1. row \in Row /\ row.assignee = v
        BY DEF Row, Team
      <3>2. task' = [task EXCEPT ![t] = row] /\ born' = [born EXCEPT ![t] = v] /\ logs' = logs
        BY <2>1 DEF Book!Make
      <3>3. logs[t] = <<>>
        BY <2>1 DEF Book!Make
      <3> HIDE DEF row
      <3>4. BookTypeOK'
        BY <3>1, <3>2
      <3>5. ASSUME NEW s \in Tasks, task'[s] # NULL PROVE Unbroken(s)' /\ WithinTeam(s)'
        BY <3>1, <3>2, <3>3, <3>5 DEF Unbroken, WithinTeam, HolderOf
      <3> QED
        BY <3>1, <3>2, <3>3, <3>4, <3>5
    <2>2. ASSUME NEW t \in Tasks, NEW d \in Data, Book!Edit(t, d) PROVE BookInv'
      <3> DEFINE row == [task[t] EXCEPT !.data = d]
      <3>1. row \in Row /\ row.assignee = task[t].assignee /\ row.team = task[t].team
        BY <2>2 DEF Book!Edit, Row
      <3>2. task' = [task EXCEPT ![t] = row] /\ born' = born /\ logs' = logs /\ task[t] # NULL
        BY <2>2 DEF Book!Edit
      <3> HIDE DEF row
      <3>3. BookTypeOK'
        BY <3>1, <3>2
      <3>4. ASSUME NEW s \in Tasks, task'[s] # NULL PROVE Unbroken(s)' /\ WithinTeam(s)'
        BY <3>1, <3>2, <3>4 DEF Unbroken, WithinTeam, HolderOf
      <3> QED
        BY <3>1, <3>2, <3>3, <3>4
    <2>3. ASSUME NEW t \in Tasks, NEW r \in Requests, NEW u \in Users, NEW v \in Users,
                 Book!Hand(t, r, u, v)
          PROVE  BookInv'
      <3> DEFINE row == [task[t] EXCEPT !.assignee = v]
                 e   == [id |-> r, actor |-> u, from |-> task[t].assignee, to |-> v]
                 n   == Len(logs[t])
      <3>1. /\ row \in Row /\ row.assignee = v /\ row.team = task[t].team
            /\ e \in Entry /\ e.actor = u /\ e.from = task[t].assignee /\ e.to = v
            /\ TeamOf[u] = row.team /\ TeamOf[v] = row.team
        BY <2>3 DEF Book!Hand, Row, Entry
      <3>2. /\ task' = [task EXCEPT ![t] = row] /\ born' = born
            /\ logs' = [logs EXCEPT ![t] = Append(logs[t], e)] /\ task[t] # NULL
        BY <2>3 DEF Book!Hand
      <3> HIDE DEF row, e
      <3>3. /\ Len(logs'[t]) = n + 1 /\ n \in Nat
            /\ \A i \in 1..n : logs'[t][i] = logs[t][i]
            /\ logs'[t][n + 1] = e
        BY <3>1, <3>2
      <3>4. BookTypeOK'
        BY <3>1, <3>2
      <3>5. ASSUME NEW s \in Tasks, s # t, task'[s] # NULL PROVE Unbroken(s)' /\ WithinTeam(s)'
        BY <3>2, <3>5 DEF Unbroken, WithinTeam, HolderOf
      <3>6. Unbroken(t)'
        <4>1. task[t].assignee = HolderOf(t, n) /\ \A i \in 1..n : logs[t][i].from = HolderOf(t, i - 1)
          BY <3>2 DEF Unbroken
        <4>2. \A i \in 0..n : HolderOf(t, i)' = HolderOf(t, i)
          BY <3>2, <3>3 DEF HolderOf
        <4>3. \A i \in 1..(n + 1) : logs'[t][i].from = HolderOf(t, i - 1)'
          <5> HIDE DEF n
          <5> TAKE i \in 1..(n + 1)
          <5>1. CASE i = n + 1
            BY <3>1, <3>3, <4>1, <4>2, <5>1
          <5>2. CASE i # n + 1
            <6>1. i \in 1..n /\ i - 1 \in 0..n
              BY <3>3, <5>2
            <6> QED
              BY <3>3, <4>1, <4>2, <6>1
          <5> QED
            BY <5>1, <5>2
        <4>4. task'[t].assignee = HolderOf(t, Len(logs[t]))'
          <5>1. task'[t] = row
            BY <3>2
          <5>2. Len(logs'[t]) # 0 /\ logs'[t][Len(logs'[t])] = e
            <6> HIDE DEF n
            <6> QED
              BY <3>3
          <5> QED
            BY <3>1, <5>1, <5>2 DEF HolderOf
        <4>5. \A i \in 1..Len(logs'[t]) : logs'[t][i].from = HolderOf(t, i - 1)'
          BY <3>3, <4>3
        <4> QED
          BY <4>4, <4>5 DEF Unbroken
      <3>7. WithinTeam(t)'
        <4>1. \A i \in 1..n : TeamOf[logs[t][i].actor] = row.team /\ TeamOf[logs[t][i].to] = row.team
          BY <3>1, <3>2 DEF WithinTeam
        <4>2. task'[t] = row
          BY <3>2
        <4> HIDE DEF n
        <4> SUFFICES ASSUME NEW i \in 1..(n + 1)
                     PROVE  /\ TeamOf[logs'[t][i].actor] = row.team
                            /\ TeamOf[logs'[t][i].to] = row.team
          BY <3>3, <4>2 DEF WithinTeam
        <4>3. CASE i = n + 1
          BY <3>1, <3>3, <4>3
        <4>4. CASE i # n + 1
          BY <3>3, <4>1, <4>4
        <4> QED
          BY <4>3, <4>4
      <3>8. /\ \A s \in Tasks : s # t => task'[s] = task[s] /\ logs'[s] = logs[s]
            /\ task'[t] # NULL /\ born[t] # NULL
        BY <3>1, <3>2
      <3> QED
        BY <3>2, <3>4, <3>5, <3>6, <3>7, <3>8
    <2>4. ASSUME NEW t \in Tasks, Book!Remove(t) PROVE BookInv'
      <3>1. ASSUME NEW s \in Tasks, task'[s] # NULL PROVE Unbroken(s)' /\ WithinTeam(s)'
        BY <2>4, <3>1 DEF Book!Remove, Unbroken, WithinTeam, HolderOf
      <3>2. <<>> \in Seq(Entry)
        OBVIOUS
      <3> QED
        BY <2>4, <3>1, <3>2 DEF Book!Remove
    <2>5. CASE UNCHANGED Book!vars
      BY <2>5 DEF Book!vars, Unbroken, WithinTeam, HolderOf
    <2> QED
      BY <2>1, <2>2, <2>3, <2>4, <2>5 DEF Book!Next
  <1>3. BookInv => BookKept
    BY DEF BookInv
  <1> QED
    BY <1>1, <1>2, <1>3, PTL DEF Book!Spec

-----------------------------------------------------------------------------
(* Registration and login                                                  *)

Account == [id : Requests, password : Passwords]
Errors  == {"none", "conflict", "unique_violation", "unauthorized", "failure"}
Verdict == [err : Errors, user : Requests \cup {NULL}]

\* An email and a password let their user in and nobody else: whoever was let
\* in came with the email and the password of the user it is taken for,
LetInRight ==
    \A r \in Requests :
        told[r] # NULL /\ told[r].err = "none" =>
            who[wanted[r].email] = [id |-> told[r].user, password |-> wanted[r].password]

\* nobody has two emails,
OneEmailEach ==
    \A e, f \in Emails :
        who[e] # NULL /\ who[f] # NULL /\ who[e].id = who[f].id => e = f

\* and a user is one for good.
UsersStay == [][\A e \in Emails : who[e] # NULL => who'[e] = who[e]]_(Dir!vars)

DirInv ==
    /\ who \in [Emails -> Account \cup {NULL}]
    /\ wanted \in [Requests -> Dir!Wants \cup {NULL}]
    /\ told \in [Requests -> Verdict \cup {NULL}]
    /\ \A r \in Requests : told[r] # NULL => wanted[r] # NULL
    /\ \A r \in Requests : told[r] # NULL /\ told[r].err = "none" => told[r].user \in Requests
    /\ \A e \in Emails :
           who[e] # NULL => wanted[who[e].id] # NULL /\ wanted[who[e].id].email = e
    /\ LetInRight

\* One email is one user, and nobody is taken for another.
THEOREM DirectoryPromise ==
    ASSUME NULL \notin Requests \cup Account \cup Dir!Wants \cup Verdict
    PROVE  Dir!Spec => [](LetInRight /\ OneEmailEach) /\ UsersStay
  <1>1. Dir!Init => DirInv
    BY DEF Dir!Init, DirInv, LetInRight
  <1>2. ASSUME DirInv, [Dir!Next]_(Dir!vars)
        PROVE  DirInv' /\ (\A e \in Emails : who[e] # NULL => who'[e] = who[e])
    <2> USE <1>2 DEF DirInv
    <2>1. ASSUME NEW r \in Requests, NEW w \in Dir!Wants, Dir!Ask(r, w)
          PROVE  DirInv' /\ who' = who
      BY <2>1 DEF Dir!Ask, LetInRight
    <2>2. ASSUME NEW r \in Requests, Dir!Waiting(r)
          PROVE  /\ wanted[r] \in Dir!Wants /\ wanted[r].email \in Emails
                 /\ wanted[r].password \in Passwords
                 /\ told[r] = NULL
      BY <2>2 DEF Dir!Waiting, Dir!Wants
    <2>3. \A err \in Errors : Dir!Refused(err) \in Verdict /\ Dir!Refused(err).err = err
      BY DEF Dir!Refused, Verdict
    <2>4. \A u \in Requests : Dir!Told(u) \in Verdict /\ Dir!Told(u).user = u /\ Dir!Told(u).err = "none"
      BY DEF Dir!Told, Verdict, Errors
    <2>11. \A err \in Errors \ {"none"} : Dir!Refused(err).err # "none"
      BY <2>3
    <2>12. {"conflict", "unique_violation", "unauthorized", "failure"} = Errors \ {"none"}
      BY DEF Errors
    <2>5. ASSUME NEW r \in Requests, NEW a \in Verdict, Dir!Say(r, a), who' = who,
                 a.err = "none" =>
                     /\ a.user \in Requests
                     /\ who[wanted[r].email] = [id |-> a.user, password |-> wanted[r].password]
          PROVE  DirInv'
      BY <2>5 DEF Dir!Say, Dir!Waiting, LetInRight
    <2>6. ASSUME NEW r \in Requests, Dir!Enrol(r)
          PROVE  DirInv' /\ (\A e \in Emails : who[e] # NULL => who'[e] = who[e])
      <3> DEFINE e == wanted[r].email
                 u == [id |-> r, password |-> wanted[r].password]
      <3>1. /\ e \in Emails /\ u \in Account /\ told[r] = NULL /\ who[e] = NULL
            /\ wanted[r] # NULL /\ u.id = r
        BY <2>2, <2>6 DEF Dir!Enrol, Dir!Waiting, Account
      <3>2. who' = [who EXCEPT ![e] = u] /\ wanted' = wanted
        BY <2>6 DEF Dir!Enrol, Dir!Say
      <3>3. PICK a \in {Dir!Told(r), Dir!Refused("failure")} : told' = [told EXCEPT ![r] = a]
        BY <2>6 DEF Dir!Enrol, Dir!Say
      <3>4. a \in Verdict /\ (a.err = "none" => a.user = r)
        BY <2>3, <2>4, <2>11, <2>12
      <3>5. LetInRight'
        <4> SUFFICES ASSUME NEW q \in Requests, told'[q] # NULL, told'[q].err = "none"
                     PROVE  who'[wanted[q].email] = [id |-> told'[q].user, password |-> wanted[q].password]
          BY <3>2 DEF LetInRight
        <4>1. CASE q = r
          BY <3>1, <3>2, <3>3, <3>4, <4>1
        <4>2. CASE q # r
          <5>1. /\ told'[q] = told[q]
                /\ who[wanted[q].email] = [id |-> told[q].user, password |-> wanted[q].password]
            BY <3>3, <4>2 DEF LetInRight
          <5>2. told[q].user \in Requests /\ wanted[q] \in Dir!Wants
            BY <3>3, <4>2
          <5>3. [id |-> told[q].user, password |-> wanted[q].password] # NULL
            BY <5>2 DEF Account, Dir!Wants
          <5> QED
            BY <3>1, <3>2, <5>1, <5>3
        <4> QED
          BY <4>1, <4>2
      <3> HIDE DEF e, u
      <3>6. \A f \in Emails : who[f] # NULL => who'[f] = who[f]
        BY <3>1, <3>2
      <3>7. \A f \in Emails : who'[f] # NULL => wanted[who'[f].id] # NULL /\ wanted[who'[f].id].email = f
        BY <3>1, <3>2 DEF e
      <3> QED
        BY <3>1, <3>2, <3>3, <3>4, <3>5, <3>6, <3>7
    <2>7. ASSUME NEW r \in Requests, Dir!Decline(r) PROVE DirInv' /\ who' = who
      <3>1. PICK err \in {"conflict", "unique_violation"} : Dir!Say(r, Dir!Refused(err))
        BY <2>7 DEF Dir!Decline
      <3> QED
        BY <2>3, <2>5, <2>7, <2>11, <2>12, <3>1 DEF Dir!Decline
    <2>8. ASSUME NEW r \in Requests, Dir!SignIn(r) PROVE DirInv' /\ who' = who
      <3> DEFINE user == who[wanted[r].email]
      <3>1. Dir!Waiting(r) /\ who' = who
        BY <2>8 DEF Dir!SignIn
      <3>2. CASE user # NULL /\ user.password = wanted[r].password
        <4>1. user \in Account
          BY <2>2, <3>1, <3>2
        <4>2. Dir!Say(r, Dir!Told(user.id)) /\ user = [id |-> user.id, password |-> wanted[r].password]
          BY <2>8, <3>2, <4>1 DEF Dir!SignIn, Account
        <4>3. user.id \in Requests
          BY <4>1 DEF Account
        <4> QED
          BY <2>4, <2>5, <3>1, <4>2, <4>3
      <3>3. CASE ~(user # NULL /\ user.password = wanted[r].password)
        <4>1. Dir!Say(r, Dir!Refused("unauthorized"))
          BY <2>8, <3>3 DEF Dir!SignIn
        <4> QED
          BY <2>3, <2>5, <2>11, <2>12, <3>1, <4>1
      <3> QED
        BY <3>2, <3>3
    <2>9. ASSUME NEW r \in Requests, Dir!Fail(r) PROVE DirInv' /\ who' = who
      BY <2>3, <2>5, <2>9, <2>11, <2>12 DEF Dir!Fail
    <2>10. CASE UNCHANGED Dir!vars
      BY <2>10 DEF Dir!vars, LetInRight
    <2> QED
      BY <2>1, <2>6, <2>7, <2>8, <2>9, <2>10 DEF Dir!Next, Dir!vars
  <1>3. DirInv => LetInRight /\ OneEmailEach
    BY DEF DirInv, OneEmailEach
  <1> QED
    BY <1>1, <1>2, <1>3, PTL DEF Dir!Spec, UsersStay

=============================================================================

------------------------- MODULE RegistrationProofs -------------------------
(***************************************************************************)
(* Proofs about registration and login, for any number of requests, emails *)
(* and passwords.                                                          *)
(***************************************************************************)
EXTENDS Registration, TLAPS

-----------------------------------------------------------------------------
(* The inductive invariant                                                 *)

\* A transaction has inserted what its label says, and has its token when it
\* is about to commit.  Labels belong to the endpoint that can reach them.
WorkOK(r) ==
    /\ pc[r] \notin {"insertUser", "commit", "rollback", "orphan"} => wrote[r] = {}
    /\ pc[r] = "idle" => op[r] = NULL
    /\ pc[r] = "insertUser" => wrote[r] = {"teams"}
    /\ pc[r] = "commit" =>
           /\ wrote[r] = {"teams", "users"}
           /\ token[r].user = r
           /\ token[r].team = r
    /\ pc[r] \in InClosure \cup {"commit", "rollback"} => op[r].kind = "register"
    /\ pc[r] = "find" => op[r].kind = "login"

WorkInv == \A r \in Requests : WorkOK(r)

\* The unique index: an email has one open transaction that has inserted it,
\* and none once it is committed.
IndexInv ==
    /\ \A q, r \in Requests :
           "users" \in wrote[q] /\ "users" \in wrote[r] /\ op[q].email = op[r].email => q = r
    /\ \A r \in Requests, t \in teams : "users" \in wrote[r] => op[t].email # op[r].email

\* Teams and users are the work of registrations that committed, each with an
\* email of its own.
StoreInv ==
    /\ users = {NewUser(t) : t \in teams}
    /\ \A t \in teams : pc[t] \in {"reply", "done", "lost"} /\ op[t] \in Op
    /\ \A s, t \in teams : op[s].email = op[t].email => s = t

\* What a settled result says is so, and stays so.
ResultOK(r) ==
    IF out[r].err = "none"
    THEN /\ out[r].token \in Token
         /\ out[r].token.user \in teams
         /\ out[r].token.team = out[r].token.user
         /\ op[out[r].token.user].email = op[r].email
         /\ op[out[r].token.user].password = op[r].password
    ELSE out[r].token = NULL

ResultInv ==
    \A r \in Requests :
        /\ pc[r] \in {"idle", "lookup", "insertTeam", "insertUser", "commit", "find"} =>
               out[r] = NULL
        /\ out[r] # NULL => op[r] \in Op /\ ResultOK(r)

ActorInv ==
    \A r \in Requests :
        actor[r] # NULL => actor[r].user \in teams /\ actor[r].team = actor[r].user

Inv == TypeOK /\ WorkInv /\ IndexInv /\ StoreInv /\ ResultInv /\ ActorInv

-----------------------------------------------------------------------------
(* The steps                                                               *)

\* A step of request r after its arrival.
Acts(r) == Serve(r) \/ Fail(r) \/ FindFails(r) \/ Crash(r)

\* The first state satisfies the invariant.
LEMMA InitInv == Init => Inv
  <1> SUFFICES ASSUME Init PROVE Inv
    OBVIOUS
  <1> USE NullAssumption, TimeAssumption DEF Init
  <1>1. TypeOK
    BY DEF TypeOK, PCs
  <1>2. WorkInv
    BY DEF WorkInv, WorkOK, InClosure
  <1>3. IndexInv /\ StoreInv
    BY DEF IndexInv, StoreInv
  <1>4. ResultInv /\ ActorInv
    BY DEF ResultInv, ActorInv
  <1> QED
    BY <1>1, <1>2, <1>3, <1>4 DEF Inv

\* A token handed to a client came with a success.
LEMMA HandedToken ==
    ASSUME Inv, NEW t \in Handed
    PROVE  t \in Token /\ t.user \in teams /\ t.team = t.user
  <1>1. PICK r \in Requests : out[r] # NULL /\ t = out[r].token /\ t # NULL
    BY DEF Handed
  <1> QED
    BY <1>1 DEF Inv, ResultInv, ResultOK

\* A token is signed for an instant the clock can show.
LEMMA SignedToken ==
    ASSUME TypeOK, NEW u \in Requests, NEW v \in Requests
    PROVE  TokenFor(u, v) \in Token
  BY TimeAssumption DEF TypeOK, TokenFor, Token

\* A failure is a result without a token.
LEMMA FailedResult ==
    ASSUME NEW err \in Errors
    PROVE  Failed(err) \in Result /\ Failed(err).err = err /\ Failed(err).err # "none"
           /\ Failed(err).token = NULL
  BY DEF Failed, Result, Errors

\* A success is a result with its token.
LEMMA SucceededResult ==
    ASSUME NEW t \in Token
    PROVE  Succeeded(t) \in Result /\ Succeeded(t).err = "none" /\ Succeeded(t).token = t
  BY DEF Succeeded, Result

\* Every action writes values of the right shape.
LEMMA TypeStep == Inv /\ [Next]_vars => TypeOK'
  <1> SUFFICES ASSUME Inv, [Next]_vars PROVE TypeOK'
    OBVIOUS
  <1> USE DEF Inv, TypeOK, PCs, InClosure, Goto, Settle, Release, db
  <1>1. ASSUME NEW r \in Requests, NEW kind \in {"register", "login"},
               NEW a \in Addresses, NEW p \in Passwords, Arrive(r, kind, a, p)
        PROVE  TypeOK'
    <2>1. [kind |-> kind, email |-> Canonical[a], password |-> p] \in Op
      BY CanonicalAssumption DEF Op
    <2> QED
      BY <1>1, <2>1 DEF Arrive
  <1>2. ASSUME NEW r \in Requests, NEW t \in Handed, Authenticate(r, t) PROVE TypeOK'
    <2>1. [user |-> t.user, team |-> t.team] \in Actor
      BY HandedToken DEF Token, Actor
    <2> QED
      BY <1>2, <2>1 DEF Authenticate
  <1>3. ASSUME NEW r \in Requests, Lookup(r) PROVE TypeOK'
    BY <1>3, FailedResult DEF Lookup, Errors
  <1>4. ASSUME NEW r \in Requests, InsertTeam(r) PROVE TypeOK'
    BY <1>4 DEF InsertTeam
  <1>5. ASSUME NEW r \in Requests, HashFails(r) PROVE TypeOK'
    BY <1>5, FailedResult DEF HashFails, Errors
  <1>6. ASSUME NEW r \in Requests, InsertUser(r) PROVE TypeOK'
    BY <1>6, FailedResult, SignedToken DEF InsertUser, Errors
  <1>7. ASSUME NEW r \in Requests, Commit(r) PROVE TypeOK'
    <2>1. NewUser(r) \in User
      BY <1>7 DEF Commit, NewUser, User, Op
    <2>2. Succeeded(token[r]) \in Result /\ Failed("failure") \in Result
      BY <1>7, SucceededResult, FailedResult DEF Commit, Errors
    <2> QED
      BY <1>7, <2>1, <2>2 DEF Commit
  <1>8. ASSUME NEW r \in Requests, Fail(r) PROVE TypeOK'
    BY <1>8, FailedResult DEF Fail, Errors
  <1>9. ASSUME NEW r \in Requests, Rollback(r) PROVE TypeOK'
    BY <1>9 DEF Rollback
  <1>10. ASSUME NEW r \in Requests, Find(r) PROVE TypeOK'
    <2>1. \A u \in users : Succeeded(TokenFor(u.id, u.team)) \in Result
      BY SignedToken, SucceededResult DEF User
    <2>2. Failed("unauthorized") \in Result
      BY FailedResult DEF Errors
    <2> QED
      BY <1>10, <2>1, <2>2 DEF Find, Registered
  <1>11. ASSUME NEW r \in Requests, FindFails(r) PROVE TypeOK'
    BY <1>11, FailedResult DEF FindFails, Errors
  <1>12. ASSUME NEW r \in Requests, Reply(r) PROVE TypeOK'
    BY <1>12 DEF Reply
  <1>13. ASSUME NEW r \in Requests, Crash(r) PROVE TypeOK'
    BY <1>13 DEF Crash
  <1>14. ASSUME NEW r \in Requests, AbortOrphan(r) PROVE TypeOK'
    BY <1>14 DEF AbortOrphan
  <1>15. CASE Tick
    BY <1>15, TimeAssumption DEF Tick
  <1>16. CASE UNCHANGED vars
    BY <1>16 DEF vars
  <1> QED
    BY <1>1, <1>2, <1>3, <1>4, <1>5, <1>6, <1>7, <1>8, <1>9, <1>10, <1>11,
       <1>12, <1>13, <1>14, <1>15, <1>16 DEF Next, Serve, Register, Login, Idle

\* A step of one request keeps to that request: what is asked and who was
\* authenticated stay, and only a COMMIT changes the store.
LEMMA Elsewhere ==
    ASSUME TypeOK, NEW r \in Requests, Acts(r)
    PROVE  /\ UNCHANGED <<op, actor>>
           /\ Commit(r) \/ UNCHANGED db
           /\ \A q \in Requests \ {r} :
                  /\ pc'[q] = pc[q]
                  /\ wrote'[q] = wrote[q]
                  /\ token'[q] = token[q]
                  /\ out'[q] = out[q]
  <1> USE DEF TypeOK, Goto, Settle, Release, db
  <1>1. CASE Lookup(r)
    BY <1>1 DEF Lookup
  <1>2. CASE InsertTeam(r)
    BY <1>2 DEF InsertTeam
  <1>3. CASE HashFails(r)
    BY <1>3 DEF HashFails
  <1>4. CASE InsertUser(r)
    BY <1>4 DEF InsertUser
  <1>5. CASE Commit(r)
    BY <1>5 DEF Commit
  <1>6. CASE Rollback(r)
    BY <1>6 DEF Rollback
  <1>7. CASE Find(r)
    BY <1>7 DEF Find
  <1>8. CASE Reply(r)
    BY <1>8 DEF Reply
  <1>9. CASE AbortOrphan(r)
    BY <1>9 DEF AbortOrphan
  <1>10. CASE Fail(r)
    BY <1>10 DEF Fail
  <1>11. CASE FindFails(r)
    BY <1>11 DEF FindFails
  <1>12. CASE Crash(r)
    BY <1>12 DEF Crash
  <1> QED
    BY <1>1, <1>2, <1>3, <1>4, <1>5, <1>6, <1>7, <1>8, <1>9, <1>10, <1>11, <1>12
       DEF Acts, Serve, Register, Login

\* Where a step of a request starts and where it leads; a result is settled on
\* the way to the answer, and by nothing that answers nothing.
LEMMA Moves ==
    ASSUME TypeOK, NEW r \in Requests, Acts(r)
    PROVE  /\ pc[r] \notin {"idle", "done", "lost"}
           /\ pc'[r] \notin {"idle", "lookup", "find"}
           /\ pc[r] \in {"reply", "orphan"} => pc'[r] \in {"done", "lost"}
           /\ pc'[r] \in {"insertTeam", "insertUser", "commit"} =>
                  pc[r] \in InClosure /\ out'[r] = out[r]
           /\ out'[r] # out[r] => pc[r] \in InClosure \cup {"commit", "find"}
  <1> USE DEF TypeOK, Goto, InClosure
  <1>1. CASE Lookup(r)
    BY <1>1 DEF Lookup
  <1>2. CASE InsertTeam(r)
    BY <1>2 DEF InsertTeam
  <1>3. CASE HashFails(r)
    BY <1>3 DEF HashFails
  <1>4. CASE InsertUser(r)
    BY <1>4 DEF InsertUser
  <1>5. CASE Commit(r)
    BY <1>5 DEF Commit
  <1>6. CASE Rollback(r)
    BY <1>6 DEF Rollback
  <1>7. CASE Find(r)
    BY <1>7 DEF Find
  <1>8. CASE Reply(r)
    BY <1>8 DEF Reply
  <1>9. CASE AbortOrphan(r)
    BY <1>9 DEF AbortOrphan
  <1>10. CASE Fail(r)
    BY <1>10 DEF Fail
  <1>11. CASE FindFails(r)
    BY <1>11 DEF FindFails
  <1>12. CASE Crash(r)
    BY <1>12 DEF Crash
  <1> QED
    BY <1>1, <1>2, <1>3, <1>4, <1>5, <1>6, <1>7, <1>8, <1>9, <1>10, <1>11, <1>12
       DEF Acts, Serve, Register, Login

\* What a COMMIT adds to the store.
LEMMA CommitAdds ==
    ASSUME Inv, NEW r \in Requests, Commit(r)
    PROVE  /\ users' = users \cup {NewUser(r)}
           /\ teams' = teams \cup {r}
           /\ op[r] \in Op
           /\ \A t \in teams : t # r /\ op[t].email # op[r].email
  BY DEF Commit, Inv, TypeOK, WorkInv, WorkOK, IndexInv, StoreInv

\* A team, and what its maker asked for, is there for good.
LEMMA Lasting ==
    ASSUME Inv, [Next]_vars, NEW t \in teams
    PROVE  t \in Requests /\ t \in teams' /\ op'[t] = op[t]
  <1> USE DEF Inv, TypeOK, StoreInv
  <1>1. ASSUME NEW r \in Requests, NEW kind \in {"register", "login"},
               NEW a \in Addresses, NEW p \in Passwords, Arrive(r, kind, a, p)
        PROVE  t \in teams' /\ op'[t] = op[t]
    BY <1>1 DEF Arrive, db
  <1>2. ASSUME NEW r \in Requests, Acts(r) PROVE t \in teams' /\ op'[t] = op[t]
    BY <1>2, Elsewhere, CommitAdds DEF db
  <1> QED
    BY <1>1, <1>2 DEF Next, Acts, Authenticate, Tick, Idle, vars, db

-----------------------------------------------------------------------------

\* Transactions go through their labels in order.
LEMMA WorkStep == Inv /\ [Next]_vars => WorkInv'
  <1> SUFFICES ASSUME Inv, [Next]_vars, NEW q \in Requests PROVE WorkOK(q)'
    BY DEF WorkInv
  <1> USE DEF Inv, TypeOK, WorkInv, WorkOK, InClosure, Goto
  <1>1. ASSUME NEW r \in Requests, NEW kind \in {"register", "login"},
               NEW a \in Addresses, NEW p \in Passwords, Arrive(r, kind, a, p)
        PROVE  WorkOK(q)'
    BY <1>1 DEF Arrive
  <1>2. ASSUME NEW r \in Requests, NEW t \in Handed, Authenticate(r, t) PROVE WorkOK(q)'
    BY <1>2 DEF Authenticate
  <1>3. ASSUME Acts(q) PROVE WorkOK(q)'
    <2> USE DEF Settle, Release
    <2>1. CASE Lookup(q)
      BY <2>1 DEF Lookup
    <2>2. CASE InsertTeam(q)
      BY <2>2 DEF InsertTeam
    <2>3. CASE HashFails(q)
      BY <2>3 DEF HashFails
    <2>4. CASE InsertUser(q)
      BY <2>4 DEF InsertUser, TokenFor
    <2>5. CASE Commit(q)
      BY <2>5 DEF Commit
    <2>6. CASE Rollback(q)
      BY <2>6 DEF Rollback
    <2>7. CASE Find(q)
      BY <2>7 DEF Find
    <2>8. CASE Reply(q)
      BY <2>8 DEF Reply
    <2>9. CASE AbortOrphan(q)
      BY <2>9 DEF AbortOrphan
    <2>10. CASE Fail(q)
      BY <2>10 DEF Fail
    <2>11. CASE FindFails(q)
      BY <2>11 DEF FindFails
    <2>12. CASE Crash(q)
      BY <2>12 DEF Crash
    <2> QED
      BY <1>3, <2>1, <2>2, <2>3, <2>4, <2>5, <2>6, <2>7, <2>8, <2>9, <2>10, <2>11, <2>12
         DEF Acts, Serve, Register, Login
  <1>4. ASSUME NEW r \in Requests, r # q, Acts(r) PROVE WorkOK(q)'
    BY <1>4, Elsewhere
  <1>5. CASE Tick
    BY <1>5 DEF Tick
  <1>6. CASE UNCHANGED vars
    BY <1>6 DEF vars
  <1> HIDE DEF Inv, TypeOK, WorkInv, WorkOK
  <1> QED
    BY <1>1, <1>2, <1>3, <1>4, <1>5, <1>6 DEF Next, Acts, Idle

\* Only one step inserts a user, and only if no open transaction has inserted,
\* and no committed one has registered, the email.
LEMMA Inserts ==
    ASSUME Inv, NEW r \in Requests, Acts(r), "users" \in wrote'[r], "users" \notin wrote[r]
    PROVE  /\ \A q \in Requests : "users" \in wrote[q] => op[q].email # op[r].email
           /\ \A t \in teams : op[t].email # op[r].email
           /\ UNCHANGED db
  <1> USE DEF Inv, TypeOK
  <1>1. InsertUser(r) /\ "users" \in wrote'[r]
    BY DEF Acts, Serve, Register, Login, Lookup, InsertTeam, HashFails, Commit, Rollback,
           Find, Reply, AbortOrphan, Fail, FindFails, Crash, Release
  <1>2. EmailFree(op[r].email) /\ Registered(op[r].email) = {} /\ UNCHANGED db
    BY <1>1 DEF InsertUser, db
  <1>3. ASSUME NEW t \in teams PROVE op[t].email # op[r].email
    <2>1. NewUser(t) \in users
      BY DEF StoreInv
    <2> QED
      BY <1>2, <2>1 DEF Registered, NewUser
  <1> QED
    BY <1>2, <1>3 DEF EmailFree

\* The index entry of an email is given to one transaction at a time.
LEMMA IndexStep == Inv /\ [Next]_vars => IndexInv'
  <1> SUFFICES ASSUME Inv, [Next]_vars PROVE IndexInv'
    OBVIOUS
  <1> USE DEF Inv, TypeOK
  <1>1. ASSUME NEW r \in Requests, NEW kind \in {"register", "login"},
               NEW a \in Addresses, NEW p \in Passwords, Arrive(r, kind, a, p)
        PROVE  IndexInv'
    <2>1. wrote[r] = {} /\ r \notin teams
      BY <1>1 DEF Arrive, WorkInv, WorkOK, StoreInv
    <2>2. /\ wrote' = wrote
          /\ teams' = teams
          /\ \A q \in Requests \ {r} : op'[q] = op[q]
      BY <1>1 DEF Arrive, db
    <2> QED
      BY <2>1, <2>2 DEF IndexInv
  <1>2. ASSUME NEW r \in Requests, Acts(r) PROVE IndexInv'
    <2>1. UNCHANGED op /\ \A q \in Requests \ {r} : wrote'[q] = wrote[q]
      BY <1>2, Elsewhere
    <2>2. CASE Commit(r)
      <3>1. "users" \in wrote[r] /\ wrote'[r] = {} /\ teams' = teams \cup {r}
        BY <2>2, CommitAdds DEF Commit, Release, WorkInv, WorkOK
      <3> QED
        BY <2>1, <3>1 DEF IndexInv
    <2>3. CASE UNCHANGED db /\ ("users" \in wrote'[r] => "users" \in wrote[r])
      BY <2>1, <2>3 DEF IndexInv, db
    <2>4. CASE "users" \in wrote'[r] /\ "users" \notin wrote[r]
      BY <1>2, <2>1, <2>4, Inserts DEF IndexInv, db
    <2> QED
      BY <1>2, <2>2, <2>3, <2>4, Elsewhere
  <1>3. CASE UNCHANGED <<teams, wrote, op>>
    BY <1>3 DEF IndexInv
  <1> QED
    BY <1>1, <1>2, <1>3 DEF Next, Acts, Authenticate, Tick, Idle, vars, db

\* The store is what committed registrations have made of it.
LEMMA StoreStep == Inv /\ [Next]_vars => StoreInv'
  <1> SUFFICES ASSUME Inv, [Next]_vars PROVE StoreInv'
    OBVIOUS
  <1> USE DEF Inv, TypeOK
  <1>1. \A t \in teams : t \in teams' /\ op'[t] = op[t] /\ t \in Requests
    BY Lasting
  <1>2. \A t \in teams : pc'[t] \in {"reply", "done", "lost"}
    <2> SUFFICES ASSUME NEW t \in teams PROVE pc'[t] \in {"reply", "done", "lost"}
      OBVIOUS
    <2>1. pc[t] \in {"reply", "done", "lost"}
      BY DEF StoreInv
    <2>2. ASSUME NEW r \in Requests, Acts(r) PROVE pc'[t] \in {"reply", "done", "lost"}
      BY <2>1, <2>2, Elsewhere, Moves
    <2> QED
      BY <2>1, <2>2 DEF Next, Arrive, Authenticate, Acts, Tick, Idle, vars, Goto
  <1>3. CASE UNCHANGED db
    <2>1. \A t \in teams : NewUser(t)' = NewUser(t)
      BY <1>1 DEF NewUser
    <2> QED
      BY <1>1, <1>2, <1>3, <2>1 DEF StoreInv, db
  <1>4. ASSUME NEW r \in Requests, Commit(r) PROVE StoreInv'
    <2>1. pc'[r] = "reply" /\ op' = op
      BY <1>4 DEF Commit, Goto
    <2>2. \A t \in Requests : NewUser(t)' = NewUser(t)
      BY <2>1 DEF NewUser
    <2> QED
      BY <1>2, <1>4, <2>1, <2>2, CommitAdds DEF StoreInv
  <1>5. UNCHANGED db \/ \E r \in Requests : Commit(r)
    BY Elsewhere DEF Next, Arrive, Authenticate, Acts, Tick, Idle, vars, db
  <1> QED
    BY <1>3, <1>4, <1>5

\* What a step of a request settles.
LEMMA Settles ==
    ASSUME Inv, NEW r \in Requests, Acts(r)
    PROVE  \/ out'[r] = out[r]
           \/ \E err \in Errors : out'[r] = Failed(err)
           \/ Commit(r) /\ out'[r] = Succeeded(token[r])
           \/ Find(r) /\ \E u \in Registered(op[r].email) :
                  u.password = op[r].password /\ out'[r] = Succeeded(TokenFor(u.id, u.team))
  <1> USE DEF Inv, TypeOK, Settle, Errors
  <1>1. CASE Lookup(r)
    BY <1>1 DEF Lookup
  <1>2. CASE InsertTeam(r)
    BY <1>2 DEF InsertTeam
  <1>3. CASE HashFails(r)
    BY <1>3 DEF HashFails
  <1>4. CASE InsertUser(r)
    BY <1>4 DEF InsertUser
  <1>5. CASE Commit(r)
    <2>1. \E result \in {Succeeded(token[r]), Failed("failure")} : out'[r] = result
      BY <1>5 DEF Commit
    <2> QED
      BY <1>5, <2>1
  <1>6. CASE Rollback(r)
    BY <1>6 DEF Rollback
  <1>7. CASE Find(r)
    BY <1>7 DEF Find
  <1>8. CASE Reply(r)
    BY <1>8 DEF Reply
  <1>9. CASE AbortOrphan(r)
    BY <1>9 DEF AbortOrphan
  <1>10. CASE Fail(r)
    BY <1>10 DEF Fail
  <1>11. CASE FindFails(r)
    BY <1>11 DEF FindFails
  <1>12. CASE Crash(r)
    BY <1>12 DEF Crash
  <1> QED
    BY <1>1, <1>2, <1>3, <1>4, <1>5, <1>6, <1>7, <1>8, <1>9, <1>10, <1>11, <1>12
       DEF Acts, Serve, Register, Login

\* A settled result stays true, because what it speaks of stays.
LEMMA ResultKept ==
    ASSUME Inv, [Next]_vars, NEW q \in Requests,
           out[q] # NULL, out'[q] = out[q], op'[q] = op[q]
    PROVE  op'[q] \in Op /\ ResultOK(q)'
  <1>1. op[q] \in Op /\ ResultOK(q)
    BY DEF Inv, ResultInv
  <1>2. CASE out[q].err = "none"
    <2>1. PICK t \in teams : t = out[q].token.user
      BY <1>1, <1>2 DEF ResultOK
    <2>2. t \in teams' /\ op'[t] = op[t]
      BY Lasting
    <2> QED
      BY <1>1, <1>2, <2>1, <2>2 DEF ResultOK
  <1>3. CASE out[q].err # "none"
    BY <1>1, <1>3 DEF ResultOK
  <1> QED
    BY <1>2, <1>3

\* A login is let in as a registered user.
LEMMA FindsUser ==
    ASSUME Inv, NEW r \in Requests, NEW u \in Registered(op[r].email)
    PROVE  /\ u.id \in teams /\ u.id \in Requests
           /\ u = NewUser(u.id)
           /\ op[u.id].email = op[r].email
           /\ op[u.id].password = u.password
           /\ u.team = u.id
  <1>1. PICK t \in teams : u = NewUser(t)
    BY DEF Registered, Inv, StoreInv
  <1>2. u.email = op[r].email
    BY DEF Registered
  <1> QED
    BY <1>1, <1>2 DEF NewUser, Inv, TypeOK

\* Results are settled once, and truthfully.
LEMMA ResultStep == Inv /\ [Next]_vars => ResultInv'
  <1> DEFINE Unsettled == {"idle", "lookup", "insertTeam", "insertUser", "commit", "find"}
  <1> SUFFICES ASSUME Inv, [Next]_vars, NEW q \in Requests
               PROVE  /\ pc'[q] \in Unsettled => out'[q] = NULL
                      /\ out'[q] # NULL => op'[q] \in Op /\ ResultOK(q)'
    BY DEF ResultInv
  <1>1. pc[q] \in Unsettled => out[q] = NULL
    BY DEF Inv, ResultInv
  <1>2. CASE pc'[q] = pc[q] /\ out'[q] = out[q] /\ op'[q] = op[q]
    BY <1>1, <1>2, ResultKept
  <1>3. ASSUME NEW kind \in {"register", "login"}, NEW a \in Addresses,
               NEW p \in Passwords, Arrive(q, kind, a, p)
        PROVE  out'[q] = NULL
    BY <1>1, <1>3 DEF Arrive
  <1>4. ASSUME NEW t \in Handed, Authenticate(q, t) PROVE out'[q] = NULL
    BY <1>1, <1>4 DEF Authenticate
  <1>5. ASSUME Acts(q)
        PROVE  /\ pc'[q] \in Unsettled => out'[q] = NULL
               /\ out'[q] # NULL => op'[q] \in Op /\ ResultOK(q)'
    <2>1. op' = op
      BY <1>5, Elsewhere DEF Inv
    <2>2. pc'[q] \in Unsettled => out'[q] = NULL
      BY <1>1, <1>5, Moves DEF Inv, InClosure
    <2>3. CASE out'[q] = out[q]
      BY <2>1, <2>2, <2>3, ResultKept
    <2>4. CASE out'[q] # out[q]
      <3>1. pc[q] \in InClosure \cup {"commit", "find"}
        BY <1>5, <2>4, Moves DEF Inv
      <3>2. op'[q] \in Op
        BY <2>1, <3>1 DEF Inv, TypeOK, InClosure
      <3>3. ASSUME NEW err \in Errors, out'[q] = Failed(err) PROVE ResultOK(q)'
        BY <3>3, FailedResult DEF ResultOK
      <3>4. CASE Commit(q) /\ out'[q] = Succeeded(token[q])
        <4>1. PICK k \in Token : k = token[q] /\ k.user = q /\ k.team = q
          BY <3>4 DEF Commit, Inv, TypeOK, WorkInv, WorkOK
        <4>2. out'[q].err = "none" /\ out'[q].token = k
          BY <3>4, <4>1, SucceededResult
        <4>3. q \in teams'
          BY <3>4, CommitAdds
        <4> QED
          BY <2>1, <2>2, <3>2, <4>1, <4>2, <4>3 DEF ResultOK
      <3>5. ASSUME Find(q), NEW u \in Registered(op[q].email), u.password = op[q].password,
                   out'[q] = Succeeded(TokenFor(u.id, u.team))
            PROVE  ResultOK(q)'
        <4>1. PICK t \in teams : t = u.id /\ t \in Requests
          BY FindsUser
        <4>2. op[t].email = op[q].email /\ op[t].password = op[q].password /\ u.team = t
          BY <3>5, <4>1, FindsUser
        <4>3. PICK k \in Token : k = TokenFor(t, t) /\ k.user = t /\ k.team = t
          BY <4>1, SignedToken DEF Inv, TokenFor
        <4>4. out'[q].err = "none" /\ out'[q].token = k
          BY <3>5, <4>1, <4>2, <4>3, SucceededResult
        <4>5. teams' = teams
          BY <3>5 DEF Find, db
        <4> QED
          BY <2>1, <4>2, <4>3, <4>4, <4>5 DEF ResultOK
      <3> QED
        BY <1>5, <2>2, <2>4, <3>2, <3>3, <3>4, <3>5, Settles
    <2> QED
      BY <2>3, <2>4
  <1>6. ASSUME NEW r \in Requests, r # q, Acts(r)
        PROVE  pc'[q] = pc[q] /\ out'[q] = out[q] /\ op'[q] = op[q]
    BY <1>6, Elsewhere DEF Inv
  <1>7. ASSUME NEW r \in Requests, r # q, NEW kind \in {"register", "login"},
               NEW a \in Addresses, NEW p \in Passwords, Arrive(r, kind, a, p)
        PROVE  pc'[q] = pc[q] /\ out'[q] = out[q] /\ op'[q] = op[q]
    BY <1>7 DEF Arrive, Goto, Inv, TypeOK
  <1>8. ASSUME NEW r \in Requests, r # q, NEW t \in Handed, Authenticate(r, t)
        PROVE  pc'[q] = pc[q] /\ out'[q] = out[q] /\ op'[q] = op[q]
    BY <1>8 DEF Authenticate, Goto, Inv, TypeOK
  <1>9. CASE Tick \/ UNCHANGED vars
    BY <1>2, <1>9 DEF Tick, vars
  <1> HIDE DEF Unsettled
  <1> QED
    BY <1>2, <1>3, <1>4, <1>5, <1>6, <1>7, <1>8, <1>9 DEF Next, Acts, Idle

\* Actors are made from tokens that were handed out.
LEMMA ActorStep == Inv /\ [Next]_vars => ActorInv'
  <1> SUFFICES ASSUME Inv, [Next]_vars, NEW q \in Requests, actor'[q] # NULL
               PROVE  actor'[q].user \in teams' /\ actor'[q].team = actor'[q].user
    BY DEF ActorInv
  <1>1. CASE actor'[q] = actor[q]
    <2>1. PICK t \in teams : t = actor[q].user
      BY <1>1 DEF Inv, ActorInv
    <2> QED
      BY <1>1, <2>1, Lasting DEF Inv, ActorInv
  <1>2. ASSUME NEW t \in Handed, Authenticate(q, t), actor'[q] # actor[q]
        PROVE  actor'[q].user \in teams' /\ actor'[q].team = actor'[q].user
    <2>1. actor'[q] = [user |-> t.user, team |-> t.team] /\ teams' = teams
      BY <1>2 DEF Authenticate, db, Inv, TypeOK
    <2> QED
      BY <2>1, HandedToken
  <1>3. ASSUME NEW r \in Requests, NEW t \in Handed, Authenticate(r, t), r # q
        PROVE  actor'[q] = actor[q]
    BY <1>3 DEF Authenticate, Inv, TypeOK
  <1>4. ASSUME NEW r \in Requests, Acts(r) PROVE actor' = actor
    BY <1>4, Elsewhere DEF Inv
  <1> QED
    BY <1>1, <1>2, <1>3, <1>4 DEF Next, Acts, Arrive, Tick, Idle, vars

-----------------------------------------------------------------------------
(* Theorems                                                                *)

\* The invariant is inductive.
THEOREM Invariance == Spec => []Inv
  <1>1. Inv /\ [Next]_vars => Inv'
    BY TypeStep, WorkStep, IndexStep, StoreStep, ResultStep, ActorStep DEF Inv
  <1> QED
    BY InitInv, <1>1, PTL DEF Spec

\* The state keeps its shape, for any constants.
THEOREM TypeCorrect == Spec => []TypeOK
  <1>1. Inv => TypeOK
    BY DEF Inv
  <1> QED
    BY Invariance, <1>1, PTL

\* An email has at most one user, however many registrations of it overlap.
THEOREM OneUser == Spec => []OneUserPerEmail
  <1>1. Inv => OneUserPerEmail
    BY DEF Inv, StoreInv, NewUser, OneUserPerEmail
  <1> QED
    BY Invariance, <1>1, PTL

\* Every team has exactly one member, and every user a team of its own.
THEOREM TeamAndUser == Spec => []TeamsHaveTheirUser
  <1>1. ASSUME Inv PROVE TeamsHaveTheirUser
    <2>1. users = {NewUser(t) : t \in teams}
      BY <1>1 DEF Inv, StoreInv
    <2>2. \A t \in teams : NewUser(t).team = t
      BY DEF NewUser
    <2>3. teams = {u.team : u \in users}
      BY <2>1, <2>2
    <2>4. \A u, v \in users : u.team = v.team => u = v
      BY <2>1, <2>2
    <2> QED
      BY <2>3, <2>4 DEF TeamsHaveTheirUser
  <1> QED
    BY Invariance, <1>1, PTL

\* Tokens and actors are committed users in their own teams.
THEOREM Tokens == Spec => []TokensNameUsers
  <1>1. ASSUME Inv PROVE TokensNameUsers
    <2>1. users = {NewUser(t) : t \in teams} /\ teams \subseteq Requests
      BY <1>1 DEF Inv, TypeOK, StoreInv
    <2>2. ASSUME NEW r \in Requests, out[r] # NULL, out[r].err = "none"
          PROVE  [id |-> out[r].token.user, email |-> op[r].email,
                  password |-> op[r].password, team |-> out[r].token.team] \in users
      <3>1. PICK t \in teams : t = out[r].token.user
        BY <1>1, <2>2 DEF Inv, ResultInv, ResultOK
      <3>2. NewUser(t) = [id |-> out[r].token.user, email |-> op[r].email,
                          password |-> op[r].password, team |-> out[r].token.team]
        BY <1>1, <2>2, <3>1 DEF Inv, ResultInv, ResultOK, NewUser
      <3> QED
        BY <2>1, <3>1, <3>2
    <2>3. ASSUME NEW r \in Requests, actor[r] # NULL
          PROVE  \E u \in users : u.id = actor[r].user /\ u.team = actor[r].team
      <3>1. PICK t \in teams : t = actor[r].user /\ actor[r].team = t
        BY <1>1, <2>3 DEF Inv, ActorInv
      <3>2. NewUser(t) \in users /\ NewUser(t).id = t /\ NewUser(t).team = t
        BY <2>1, <3>1 DEF NewUser
      <3> QED
        BY <3>1, <3>2
    <2> QED
      BY <2>2, <2>3 DEF TokensNameUsers
  <1> QED
    BY Invariance, <1>1, PTL

\* A login that reads after a registration with its email and password was
\* answered 201 is not refused.
THEOREM LetIn == Spec => LoginAfterRegister
  <1> DEFINE Registers(q, r) ==
        /\ pc[q] = "done" /\ out[q] # NULL
        /\ op[q].kind = "register" /\ out[q].err = "none"
        /\ pc[r] = "find" /\ pc'[r] = "reply"
        /\ op[r].email = op[q].email /\ op[r].password = op[q].password
  <1>1. ASSUME Inv, [Next]_vars, NEW q \in Requests, NEW r \in Requests, Registers(q, r)
        PROVE  out'[r].err # "unauthorized"
    <2>1. PICK t \in teams : t = out[q].token.user
      BY <1>1 DEF Inv, ResultInv, ResultOK
    <2>2. op[t].email = op[r].email /\ op[t].password = op[r].password
      BY <1>1, <2>1 DEF Inv, ResultInv, ResultOK
    <2>3. NewUser(t) \in Registered(op[r].email) /\ NewUser(t).password = op[r].password
      BY <1>1, <2>2 DEF Inv, StoreInv, Registered, NewUser
    <2>4. ASSUME NEW s \in Requests, s # r, Acts(s) PROVE FALSE
      BY <1>1, <2>4, Elsewhere DEF Inv
    <2>5. CASE Find(r)
      <3>1. PICK u \in Registered(op[r].email) :
                out' = [out EXCEPT ![r] = Succeeded(TokenFor(u.id, u.team))]
        BY <2>3, <2>5 DEF Find, Settle
      <3>2. out'[r].err = "none"
        BY <1>1, <3>1 DEF Succeeded, Inv, TypeOK
      <3> QED
        BY <3>2
    <2>6. CASE FindFails(r)
      BY <1>1, <2>6 DEF FindFails, Settle, Failed, Inv, TypeOK
    <2>7. ASSUME Acts(r) PROVE Find(r) \/ FindFails(r)
      BY <1>1, <2>7 DEF Acts, Serve, Register, Login, Lookup, InsertTeam, HashFails,
                        InsertUser, Commit, Rollback, Reply, AbortOrphan, Fail, Crash,
                        Goto, InClosure, Inv, TypeOK
    <2>8. \E s \in Requests : Acts(s)
      BY <1>1 DEF Next, Acts, Arrive, Authenticate, Tick, Idle, vars, Goto, Inv, TypeOK
    <2> QED
      BY <2>4, <2>5, <2>6, <2>7, <2>8
  <1>2. Inv /\ [Next]_vars =>
            [\A q, r \in Requests : Registers(q, r) => out'[r].err # "unauthorized"]_vars
    BY <1>1
  <1> QED
    BY Invariance, <1>2, PTL DEF Spec, LoginAfterRegister

-----------------------------------------------------------------------------
(* Refinement                                                              *)

\* An email without rows has no entry, one with a row has that row's.
LEMMA Entries ==
    /\ EntryOf({}) = NULL
    /\ \A u : EntryOf({u}) = [id |-> u.id, password |-> u.password]
  BY DEF EntryOf

\* A registered email has the entry of its one user, which is no NULL.
LEMMA EntryOfUser ==
    ASSUME Inv, NEW e, NEW u \in Registered(e)
    PROVE  /\ EntryOf(Registered(e)) = [id |-> u.id, password |-> u.password]
           /\ EntryOf(Registered(e)) # NULL
  <1>1. Registered(e) = {u}
    BY DEF Registered, Inv, StoreInv, NewUser
  <1>2. [id |-> u.id, password |-> u.password] \in Entry
    BY DEF Registered, Inv, TypeOK, User, Entry
  <1> QED
    BY <1>1, <1>2, Entries, NullAssumption

\* The directory's view of the store and of the answers.
Who == [e \in Emails |-> EntryOf(Registered(e))]
Ans == [r \in Requests |-> AnswerOf(r)]

\* A result settled for one request is an answer to it and to nobody else.
LEMMA Answering ==
    ASSUME TypeOK, NEW r \in Requests, NEW x, out' = [out EXCEPT ![r] = x],
           NEW a, AnswerOf(r)' = a
    PROVE  Ans' = [Ans EXCEPT ![r] = a]
  <1>1. ASSUME NEW q \in Requests PROVE AnswerOf(q)' = IF q = r THEN a ELSE AnswerOf(q)
    <2>1. CASE q = r
      BY <2>1
    <2>2. CASE q # r
      BY <2>2 DEF AnswerOf, TypeOK
    <2> QED
      BY <2>1, <2>2
  <1> QED
    BY <1>1 DEF Ans

\* A failure is answered as a refusal.
LEMMA AnswerFailed ==
    ASSUME TypeOK, NEW r \in Requests, NEW err \in Errors,
           out' = [out EXCEPT ![r] = Failed(err)]
    PROVE  Ans' = [Ans EXCEPT ![r] = Dir!Refused(err)]
  <1>1. out'[r] = Failed(err) /\ Failed(err) # NULL
    BY FailedResult, NullAssumption DEF TypeOK
  <1>2. AnswerOf(r)' = Dir!Refused(err)
    BY <1>1, FailedResult DEF AnswerOf, Dir!Refused
  <1> QED
    BY <1>2, Answering

\* A success is answered with the user of its token.
LEMMA AnswerSucceeded ==
    ASSUME TypeOK, NEW r \in Requests, NEW t \in Token,
           out' = [out EXCEPT ![r] = Succeeded(t)]
    PROVE  Ans' = [Ans EXCEPT ![r] = Dir!Told(t.user)]
  <1>1. out'[r] = Succeeded(t) /\ Succeeded(t) # NULL /\ t # NULL
    BY SucceededResult, NullAssumption DEF TypeOK
  <1>2. AnswerOf(r)' = Dir!Told(t.user)
    BY <1>1, SucceededResult DEF AnswerOf, Dir!Told
  <1> QED
    BY <1>2, Answering

\* An unsettled request is waiting for its answer.
LEMMA Waits ==
    ASSUME Inv, NEW r \in Requests, pc[r] \in InClosure \cup {"commit", "find"}
    PROVE  op[r] \in Op /\ op[r] # NULL /\ Ans[r] = NULL /\ out[r] = NULL
  <1>1. out[r] = NULL /\ op[r] \in Op
    BY DEF Inv, ResultInv, TypeOK, InClosure
  <1> QED
    BY <1>1, NullAssumption DEF Ans, AnswerOf

\* A registration that finds the email taken is the directory's Decline.
LEMMA Declines ==
    ASSUME Inv, NEW r \in Requests, pc[r] \in InClosure, UNCHANGED <<db, op>>,
           Registered(op[r].email) # {}, NEW err \in {"conflict", "unique_violation"},
           out' = [out EXCEPT ![r] = Failed(err)]
    PROVE  Dir!Decline(r)
  <1>1. op[r].kind = "register" /\ op[r].email \in Emails
    BY Waits DEF Inv, WorkInv, WorkOK, Op, InClosure
  <1>2. Who[op[r].email] # NULL
    BY <1>1, EntryOfUser DEF Who
  <1>3. err \in Errors
    BY DEF Errors
  <1>4. Ans' = [Ans EXCEPT ![r] = Dir!Refused(err)]
    BY <1>3, AnswerFailed DEF Inv
  <1>5. Who' = Who
    BY DEF Who, Registered, db
  <1> QED
    BY <1>1, <1>2, <1>4, <1>5, Waits DEF Dir!Decline, Dir!Say, Dir!Waiting, Who, Ans

\* Any request may fail.
LEMMA Fails ==
    ASSUME Inv, NEW r \in Requests, pc[r] \in InClosure \cup {"commit", "find"},
           UNCHANGED <<db, op>>, out' = [out EXCEPT ![r] = Failed("failure")]
    PROVE  Dir!Fail(r)
  <1>1. Ans' = [Ans EXCEPT ![r] = Dir!Refused("failure")]
    BY AnswerFailed DEF Inv, Errors
  <1>2. Who' = Who
    BY DEF Who, Registered, db
  <1> QED
    BY <1>1, <1>2, Waits DEF Dir!Fail, Dir!Say, Dir!Waiting, Who, Ans

\* A COMMIT is the directory's Enrol, acknowledged or not.
LEMMA CommitEnrols ==
    ASSUME Inv, NEW r \in Requests, Commit(r)
    PROVE  Dir!Enrol(r)
  <1>1. op[r].kind = "register" /\ pc[r] = "commit" /\ token[r] \in Token
        /\ token[r].user = r /\ op' = op
    BY DEF Commit, Inv, WorkInv, WorkOK, TypeOK
  <1>2. PICK e \in Emails : e = op[r].email
    BY <1>1, Waits DEF Op
  <1>3. Registered(e) = {} /\ Registered(e)' = {NewUser(r)}
    <2>1. Registered(e) = {}
      BY <1>2, CommitAdds DEF Registered, Inv, StoreInv, NewUser
    <2> QED
      BY <1>2, <2>1, CommitAdds DEF Registered, NewUser
  <1>4. \A f \in Emails : f # e => Registered(f)' = Registered(f)
    BY <1>2, CommitAdds DEF Registered, NewUser
  <1>5. Who[e] = NULL
    BY <1>3, Entries DEF Who
  <1>6. Who' = [Who EXCEPT ![e] = [id |-> r, password |-> op[r].password]]
    <2>1. EntryOf(Registered(e)') = [id |-> r, password |-> op[r].password]
      BY <1>3, Entries DEF NewUser
    <2>2. Who'[e] = [id |-> r, password |-> op[r].password]
      BY <2>1 DEF Who, EntryOf
    <2>3. \A f \in Emails : f # e => Who'[f] = Who[f]
      BY <1>4 DEF Who, EntryOf
    <2> QED
      BY <2>2, <2>3 DEF Who
  <1>7. \E a \in {Dir!Told(r), Dir!Refused("failure")} : Ans' = [Ans EXCEPT ![r] = a]
    <2>1. PICK result \in {Succeeded(token[r]), Failed("failure")} :
              out' = [out EXCEPT ![r] = result]
      BY DEF Commit, Settle
    <2>2. CASE result = Succeeded(token[r])
      <3>1. Ans' = [Ans EXCEPT ![r] = Dir!Told(token[r].user)]
        BY <1>1, <2>1, <2>2, AnswerSucceeded DEF Inv
      <3> QED
        BY <1>1, <3>1
    <2>3. CASE result = Failed("failure")
      BY <2>1, <2>3, AnswerFailed DEF Inv, Errors
    <2> QED
      BY <2>2, <2>3
  <1>8. op[r] # NULL /\ Ans[r] = NULL
    BY <1>1, Waits
  <1> QED
    BY <1>1, <1>2, <1>5, <1>6, <1>7, <1>8 DEF Dir!Enrol, Dir!Say, Dir!Waiting, Who, Ans

\* A login is the directory's SignIn at the instant it reads.
LEMMA FindSignsIn ==
    ASSUME Inv, NEW r \in Requests, Find(r)
    PROVE  Dir!SignIn(r)
  <1>1. pc[r] = "find" /\ op[r].kind = "login" /\ UNCHANGED <<db, op>>
    BY DEF Find, Inv, WorkInv, WorkOK
  <1>2. PICK e \in Emails : e = op[r].email
    BY <1>1, Waits DEF Op
  <1>3. Who' = Who /\ Who[e] = EntryOf(Registered(e))
    BY <1>1 DEF Who, Registered, db
  <1>4. op[r] # NULL /\ Ans[r] = NULL
    BY <1>1, Waits
  <1>5. ASSUME NEW u \in Registered(e), u.password = op[r].password,
               out' = [out EXCEPT ![r] = Succeeded(TokenFor(u.id, u.team))]
        PROVE  Dir!SignIn(r)
    <2>1. u.id \in Requests /\ u.team \in Requests
      BY <1>2, <1>5, FindsUser
    <2>2. TokenFor(u.id, u.team) \in Token /\ TokenFor(u.id, u.team).user = u.id
      BY <2>1, SignedToken DEF Inv, TokenFor
    <2>3. Ans' = [Ans EXCEPT ![r] = Dir!Told(u.id)]
      <3>1. Ans' = [Ans EXCEPT ![r] = Dir!Told(TokenFor(u.id, u.team).user)]
        BY <1>5, <2>2, AnswerSucceeded DEF Inv
      <3> QED
        BY <2>2, <3>1
    <2>4. Who[e] # NULL /\ Who[e].password = op[r].password /\ Who[e].id = u.id
      BY <1>3, <1>5, EntryOfUser
    <2> QED
      BY <1>1, <1>2, <1>3, <1>4, <2>3, <2>4 DEF Dir!SignIn, Dir!Say, Dir!Waiting, Who, Ans
  <1>6. ASSUME \A u \in Registered(e) : u.password # op[r].password,
               out' = [out EXCEPT ![r] = Failed("unauthorized")]
        PROVE  Dir!SignIn(r)
    <2>1. Ans' = [Ans EXCEPT ![r] = Dir!Refused("unauthorized")]
      BY <1>6, AnswerFailed DEF Inv, Errors
    <2>2. ~(Who[e] # NULL /\ Who[e].password = op[r].password)
      <3>1. CASE Registered(e) = {}
        BY <1>3, <3>1, Entries
      <3>2. ASSUME NEW u \in Registered(e) PROVE Who[e].password = u.password
        BY <1>3, EntryOfUser
      <3> QED
        BY <1>6, <3>1, <3>2
    <2> QED
      BY <1>1, <1>2, <1>3, <1>4, <2>1, <2>2 DEF Dir!SignIn, Dir!Say, Dir!Waiting, Who, Ans
  <1> QED
    BY <1>2, <1>5, <1>6 DEF Find, Settle

\* Statement by statement, registrations and logins implement the directory:
\* each takes effect at one instant, the COMMIT, the reading of the email, or
\* the INSERT that meets a committed user; every other step is invisible.
THEOREM Implementation == Spec => ImplementsDirectory
  <1>1. Init => Dir!Init
    BY Entries DEF Init, Dir!Init, Registered, AnswerOf
  <1>2. ASSUME Inv, [Next]_vars PROVE Dir!Next \/ UNCHANGED <<Who, op, Ans>>
    <2>1. ASSUME NEW r \in Requests, NEW kind \in {"register", "login"},
                 NEW a \in Addresses, NEW p \in Passwords, Arrive(r, kind, a, p)
          PROVE  Dir!Next
      <3>1. PICK w \in Dir!Wants : w = [kind |-> kind, email |-> Canonical[a], password |-> p]
        BY CanonicalAssumption DEF Dir!Wants
      <3>2. op[r] = NULL /\ op' = [op EXCEPT ![r] = w]
        BY <1>2, <2>1, <3>1 DEF Arrive, Inv, WorkInv, WorkOK
      <3>3. Who' = Who /\ Ans' = Ans
        BY <2>1 DEF Arrive, Who, Ans, Registered, AnswerOf, db
      <3>4. Dir!Ask(r, w)
        BY <3>2, <3>3 DEF Dir!Ask, Who, Ans
      <3> QED
        BY <3>4 DEF Dir!Next
    <2>2. ASSUME NEW r \in Requests, Acts(r) PROVE Dir!Next \/ UNCHANGED <<Who, op, Ans>>
      <3>1. UNCHANGED op
        BY <1>2, <2>2, Elsewhere DEF Inv
      <3>2. CASE Lookup(r)
        <4>1. CASE out' = out
          BY <3>1, <3>2, <4>1 DEF Lookup, Who, Ans, Registered, AnswerOf, db
        <4>2. CASE Registered(op[r].email) # {} /\ Settle(r, Failed("conflict"))
          <5>1. Dir!Decline(r)
            BY <1>2, <3>1, <3>2, <4>2, Declines DEF Lookup, Settle, InClosure
          <5> QED
            BY <5>1 DEF Dir!Next
        <4> QED
          BY <3>2, <4>1, <4>2 DEF Lookup
      <3>3. CASE InsertUser(r)
        <4>1. CASE out' = out
          BY <3>1, <3>3, <4>1 DEF InsertUser, Who, Ans, Registered, AnswerOf, db
        <4>2. CASE Registered(op[r].email) # {} /\ Settle(r, Failed("unique_violation"))
          <5>1. Dir!Decline(r)
            BY <1>2, <3>1, <3>3, <4>2, Declines DEF InsertUser, Settle, InClosure
          <5> QED
            BY <5>1 DEF Dir!Next
        <4> QED
          BY <3>3, <4>1, <4>2 DEF InsertUser
      <3>4. CASE HashFails(r) \/ Fail(r) \/ FindFails(r)
        <4>1. Dir!Fail(r)
          BY <1>2, <3>1, <3>4, Fails DEF HashFails, Fail, FindFails, Settle, InClosure
        <4> QED
          BY <4>1 DEF Dir!Next
      <3>5. CASE Commit(r)
        BY <1>2, <3>5, CommitEnrols DEF Dir!Next
      <3>6. CASE Find(r)
        BY <1>2, <3>6, FindSignsIn DEF Dir!Next
      <3>7. CASE InsertTeam(r) \/ Rollback(r) \/ Reply(r) \/ AbortOrphan(r) \/ Crash(r)
        BY <3>7 DEF InsertTeam, Rollback, Reply, AbortOrphan, Crash, Who, Ans, Registered,
                    AnswerOf, db
      <3> QED
        BY <2>2, <3>2, <3>3, <3>4, <3>5, <3>6, <3>7 DEF Acts, Serve, Register, Login
    <2>3. CASE UNCHANGED <<users, op, out>>
      BY <2>3 DEF Who, Ans, Registered, AnswerOf
    <2> QED
      BY <1>2, <2>1, <2>2, <2>3 DEF Next, Acts, Authenticate, Tick, Idle, vars, db
  <1>3. Inv /\ [Next]_vars => [Dir!Next]_(Dir!vars)
    BY <1>2 DEF Dir!vars, Who, Ans
  <1> QED
    BY Invariance, <1>1, <1>3, PTL DEF Spec, ImplementsDirectory, Dir!Spec

-----------------------------------------------------------------------------
(* Every request comes to its end                                          *)

\* Nobody keeps r from its next step: the guards of the actions of Serve(r).
Ready(r) ==
    \/ pc[r] = "insertUser" /\ (op[r].password \in TooLong \/ EmailFree(op[r].email))
    \/ pc[r] \in {"lookup", "insertTeam", "commit", "rollback", "find", "reply", "orphan"}

\* Whoever is under way can go on or waits for the entry of its email in the
\* unique index, and the transaction that has inserted it can.
NobodyStuck ==
    \A r \in Requests :
        pc[r] \notin {"idle", "done", "lost"} =>
            \/ Ready(r)
            \/ /\ pc[r] = "insertUser"
               /\ \E q \in Requests :
                      "users" \in wrote[q] /\ op[q].email = op[r].email /\ Ready(q)

\* How far a request has come.
Rank(label) ==
    CASE label = "idle"                -> 0
      [] label = "lookup"              -> 1
      [] label = "insertTeam"          -> 2
      [] label = "insertUser"          -> 3
      [] label = "commit"              -> 4
      [] label \in {"rollback", "find"} -> 5
      [] label \in {"reply", "orphan"}  -> 6
      [] OTHER                         -> 7

\* Whatever is done for a request, and whatever happens to it, takes it
\* further: nothing is tried twice, so a request makes at most seven steps.
OnlyForward ==
    [][\A r \in Requests : Acts(r) \/ pc'[r] # pc[r] => Rank(pc[r]) < Rank(pc'[r])]_vars

\* Registrations that wait for users_email_key do not deadlock: a transaction
\* inserts one email only, whoever fails or dies (AuthUsecase.Register).
THEOREM Unstuck == Spec => []NobodyStuck
  <1>1. Inv => NobodyStuck
    <2> SUFFICES ASSUME Inv, NEW r \in Requests, pc[r] \notin {"idle", "done", "lost"}, ~Ready(r)
                 PROVE  /\ pc[r] = "insertUser"
                        /\ \E q \in Requests :
                               "users" \in wrote[q] /\ op[q].email = op[r].email /\ Ready(q)
      BY DEF NobodyStuck
    <2>1. pc[r] = "insertUser" /\ ~EmailFree(op[r].email)
      BY DEF Ready, Inv, TypeOK, PCs
    <2>2. PICK q \in Requests : "users" \in wrote[q] /\ op[q].email = op[r].email
      BY <2>1 DEF EmailFree
    <2>3. pc[q] \in {"commit", "rollback", "orphan"}
      BY <2>2 DEF Inv, WorkInv, WorkOK
    <2> QED
      BY <2>1, <2>2, <2>3 DEF Ready
  <1> QED
    BY <1>1, Invariance, PTL

\* A step of a request takes it further.
LEMMA ActsForward == ASSUME TypeOK, NEW r \in Requests, Acts(r) PROVE Rank(pc[r]) < Rank(pc'[r])
  <1> USE DEF TypeOK, Goto
  <1>1. CASE Lookup(r) \/ InsertTeam(r)
    BY <1>1 DEF Lookup, InsertTeam, Rank
  <1>2. CASE HashFails(r) \/ InsertUser(r)
    BY <1>2 DEF HashFails, InsertUser, Rank
  <1>3. CASE Commit(r) \/ Rollback(r) \/ Find(r) \/ FindFails(r)
    BY <1>3 DEF Commit, Rollback, Find, FindFails, Rank
  <1>4. CASE Reply(r) \/ AbortOrphan(r)
    BY <1>4 DEF Reply, AbortOrphan, Rank
  <1>5. CASE Fail(r) \/ Crash(r)
    BY <1>5 DEF Fail, Crash, InClosure, Rank
  <1> QED
    BY <1>1, <1>2, <1>3, <1>4, <1>5 DEF Acts, Serve, Register, Login

\* Only its own steps change what a request that has arrived is doing.
LEMMA Stays ==
    ASSUME TypeOK, [Next]_vars, NEW r \in Requests
    PROVE  /\ pc[r] # "idle" => op'[r] = op[r]
           /\ \/ Acts(r)
              \/ UNCHANGED <<pc[r], wrote[r]>>
              \/ pc[r] = "idle" /\ Rank(pc[r]) < Rank(pc'[r])
  <1> USE DEF TypeOK, Goto
  <1>1. ASSUME NEW q \in Requests, NEW kind \in {"register", "login"},
               NEW a \in Addresses, NEW p \in Passwords, Arrive(q, kind, a, p)
        PROVE  /\ pc[r] # "idle" => op'[r] = op[r]
               /\ \/ UNCHANGED <<pc[r], wrote[r]>>
                  \/ pc[r] = "idle" /\ Rank(pc[r]) < Rank(pc'[r])
    BY <1>1 DEF Arrive, Rank
  <1>2. ASSUME NEW q \in Requests, NEW t \in Handed, Authenticate(q, t)
        PROVE  /\ op'[r] = op[r]
               /\ \/ UNCHANGED <<pc[r], wrote[r]>>
                  \/ pc[r] = "idle" /\ Rank(pc[r]) < Rank(pc'[r])
    BY <1>2 DEF Authenticate, Rank
  <1>3. ASSUME NEW q \in Requests, Acts(q)
        PROVE  op'[r] = op[r] /\ (Acts(r) \/ UNCHANGED <<pc[r], wrote[r]>>)
    BY <1>3, Elsewhere
  <1>4. CASE Tick \/ Idle \/ UNCHANGED vars
    BY <1>4 DEF Tick, Idle, vars
  <1> QED
    BY <1>1, <1>2, <1>3, <1>4 DEF Next, Acts

\* Neither registration nor login has a loop or a retry.
THEOREM Forward == Spec => OnlyForward
  <1>1. TypeOK /\ [Next]_vars =>
            [\A r \in Requests :
                Acts(r) \/ pc'[r] # pc[r] => Rank(pc[r]) < Rank(pc'[r])]_vars
    BY Stays, ActsForward
  <1> QED
    BY <1>1, TypeCorrect, PTL DEF Spec, OnlyForward

-----------------------------------------------------------------------------
(* Requests that are served end                                            *)

\* Weak fairness of Serve(r), with its guards in the place of ENABLED.
Served(r) == []<>~Ready(r) \/ []<><<Serve(r)>>_vars
AllServed == \A r \in Requests : Served(r)

\* Strong fairness: an entry of the index that comes free time after time is in
\* the end given to who waits for it, as PostgreSQL wakes all that wait.
Queued(r) == <>[]~Ready(r) \/ []<><<Serve(r)>>_vars
AllQueued == \A r \in Requests : Queued(r)

\* They are what the two kinds of fairness say, as the guards are all that
\* Serve(r) needs.
LEMMA FairServes ==
    ASSUME NEW r \in Requests
    PROVE  /\ WF_vars(Serve(r)) /\ [](Ready(r) => ENABLED <<Serve(r)>>_vars) => Served(r)
           /\ SF_vars(Serve(r)) /\ [](Ready(r) => ENABLED <<Serve(r)>>_vars) => Queued(r)
  BY PTL DEF Served, Queued

\* r has come as far as label n of Rank; from 4 on it waits for nobody.
Came(r, n) == Rank(pc[r]) >= n

\* One step of a request that has arrived.
LEMMA RequestStep ==
    ASSUME Inv, Inv', [Next]_vars, NEW r \in Requests
    PROVE  /\ \A n \in 1..7 : Came(r, n) => Came(r, n)'
           /\ Serve(r) => \A n \in 1..6 : Came(r, n) => Came(r, n + 1)'
  <1> DEFINE from == Rank(pc[r])
             to   == Rank(pc'[r])
  <1>1. from \in 0..7 /\ to \in 0..7
    BY DEF Inv, TypeOK, PCs, Rank
  <1>2. Serve(r) => from < to
    BY ActsForward DEF Inv, Acts
  <1>3. from = to \/ from < to
    BY Stays, ActsForward DEF Inv
  <1> SUFFICES /\ \A n \in 1..7 : from >= n => to >= n
               /\ Serve(r) => \A n \in 1..6 : from >= n => to >= n + 1
    BY DEF Came
  <1> HIDE DEF from, to
  <1> QED
    BY <1>1, <1>2, <1>3

\* Once its INSERT of the user is over nothing keeps a request from its end.
LEMMA GoingEnds ==
    ASSUME NEW r \in Requests
    PROVE  []Inv /\ [][Next]_vars /\ Served(r) => (Came(r, 4) ~> Came(r, 7))
  <1> DEFINE Past(n) == Came(r, n)
             Going   == Came(r, 4)
             Ended   == Came(r, 7)
  <1>1. Inv /\ Going => Ended \/ Ready(r)
    BY DEF Inv, TypeOK, PCs, Ready, Came, Rank
  <1>2. Inv /\ Inv' /\ [Next]_vars =>
            /\ Going => Going'
            /\ Past(5) => Past(5)'
            /\ Past(6) => Past(6)'
            /\ Ended => Ended'
    BY RequestStep
  <1>3. Inv /\ Inv' /\ [Next]_vars /\ <<Serve(r)>>_vars =>
            /\ Going => Past(5)'
            /\ Past(5) => Past(6)'
            /\ Past(6) => Ended'
    BY RequestStep
  <1> HIDE DEF Past, Going, Ended
  <1>4. []Inv /\ [][Next]_vars /\ Served(r) => (Going ~> Ended)
    BY <1>1, <1>2, <1>3, PTL DEF Served
  <1> QED
    BY <1>4 DEF Going, Ended

\* q has inserted the email e, and not committed it yet.
Has(q, e) == "users" \in wrote[q] /\ op[q].email = e

\* An entry goes from one transaction to the next by way of nobody.
LEMMA EntryStep ==
    ASSUME Inv, [Next]_vars, NEW q \in Requests, NEW e \in Emails, Has(q, e)
    PROVE  Has(q, e)' \/ EmailFree(e)'
  <1>1. pc[q] \in {"commit", "rollback", "orphan"}
    BY DEF Has, Inv, WorkInv, WorkOK
  <1>2. op'[q] = op[q] /\ (Acts(q) \/ wrote'[q] = wrote[q])
    BY <1>1, Stays DEF Inv
  <1>3. CASE wrote'[q] = wrote[q]
    BY <1>2, <1>3 DEF Has
  <1>4. CASE Acts(q) /\ "users" \notin wrote'[q]
    <2>1. op' = op /\ \A p \in Requests \ {q} : wrote'[p] = wrote[p]
      BY <1>4, Elsewhere DEF Inv
    <2>2. ASSUME NEW p \in Requests, "users" \in wrote'[p], op'[p].email = e PROVE FALSE
      BY <1>4, <2>1, <2>2 DEF Has, Inv, IndexInv
    <2> QED
      BY <2>2 DEF EmailFree
  <1> QED
    BY <1>2, <1>3, <1>4 DEF Has

\* Whoever is about to commit, and every login, is answered or dies with its
\* process, and whoever inserts an email, its entry in the index becomes free
\* again, time after time.
EntriesComeFree ==
    /\ \A r \in Requests : pc[r] \in {"commit", "find"} ~> pc[r] \in {"done", "lost"}
    /\ \A e \in Emails : []<>EmailFree(e)

\* No registration keeps an email open: InTx ends each transaction it begins.
THEOREM EntriesFreed == Spec /\ AllServed => EntriesComeFree
  <1>1. ASSUME NEW r \in Requests
        PROVE  []Inv /\ [][Next]_vars /\ Served(r) =>
                   (pc[r] \in {"commit", "find"} ~> pc[r] \in {"done", "lost"})
    <2>1. pc[r] \in {"commit", "find"} => Came(r, 4)
      BY DEF Came, Rank
    <2>2. Inv => (Came(r, 7) => pc[r] \in {"done", "lost"})
      BY DEF Inv, TypeOK, PCs, Came, Rank
    <2> QED
      BY <2>1, <2>2, GoingEnds, PTL
  <1>2. ASSUME NEW e \in Emails
        PROVE  []Inv /\ [][Next]_vars /\ []AllServed => []<>EmailFree(e)
    <2>1. ASSUME NEW r \in Requests
          PROVE  []Inv /\ [][Next]_vars /\ Served(r) => (Has(r, e) => <>EmailFree(e))
      <3>1. Inv /\ Has(r, e) => Came(r, 4) /\ ~Came(r, 7)
        <4> SUFFICES ASSUME Inv, Has(r, e) PROVE Came(r, 4) /\ ~Came(r, 7)
          OBVIOUS
        <4>1. pc[r] \in {"commit", "rollback", "orphan"}
          BY DEF Has, Inv, WorkInv, WorkOK
        <4> QED
          BY <4>1 DEF Came, Rank
      <3>2. Inv /\ [Next]_vars /\ Has(r, e) => Has(r, e)' \/ EmailFree(e)'
        BY EntryStep
      <3> QED
        BY <3>1, <3>2, GoingEnds, PTL
    <2>2. EmailFree(e) \/ \E r \in Requests : Has(r, e)
      BY DEF EmailFree, Has
    <2> SUFFICES ASSUME []Inv, [][Next]_vars, []AllServed PROVE []<>EmailFree(e)
      OBVIOUS
    <2>3. \A r \in Requests : Has(r, e) => <>EmailFree(e)
      <3> SUFFICES ASSUME NEW r \in Requests PROVE Has(r, e) => <>EmailFree(e)
        OBVIOUS
      <3>1. AllServed
        BY PTL
      <3>2. Served(r)
        BY <3>1 DEF AllServed
      <3> QED
        BY <2>1, <3>2, PTL
    <2>4. EmailFree(e) \/ <>EmailFree(e)
      BY <2>2, <2>3
    <2> QED
      BY <2>4, PTL
  <1>3. AllServed => []AllServed
    <2>1. ASSUME NEW r \in Requests PROVE Served(r) => []Served(r)
      BY PTL DEF Served
    <2>2. AllServed => \A r \in Requests : []Served(r)
      BY <2>1 DEF AllServed
    <2>3. (\A r \in Requests : []Served(r)) => []AllServed
      BY DEF AllServed
    <2> QED
      BY <2>2, <2>3
  <1> SUFFICES ASSUME Spec, AllServed PROVE EntriesComeFree
    OBVIOUS
  <1>4. []Inv /\ [][Next]_vars
    BY Invariance, PTL DEF Spec
  <1> QED
    BY <1>1, <1>2, <1>3, <1>4 DEF EntriesComeFree, AllServed

\* A request that has not inserted its user yet, nor failed to.
WaitsAt(r, e) ==
    pc[r] \in {"lookup", "insertTeam", "insertUser"} /\ op[r].email = e

LEMMA WaitingStep ==
    ASSUME Inv, Inv', [Next]_vars, NEW r \in Requests, NEW e \in Emails, WaitsAt(r, e)
    PROVE  /\ Came(r, 1)
           /\ WaitsAt(r, e)' \/ Came(r, 4)'
           /\ EmailFree(e) => Ready(r)
  <1>1. Came(r, 1) /\ (EmailFree(e) => Ready(r))
    BY DEF WaitsAt, Came, Rank, Ready
  <1>2. op'[r] = op[r] /\ Came(r, 1)'
    BY <1>1, Stays, RequestStep DEF Inv, WaitsAt
  <1>3. pc'[r] \in {"lookup", "insertTeam", "insertUser"} \/ Came(r, 4)'
    BY <1>2 DEF Inv, TypeOK, PCs, Came, Rank
  <1> QED
    BY <1>1, <1>2, <1>3 DEF WaitsAt

\* Whoever has inserted the email, and however many register it.
THEOREM EveryoneEnds == Spec /\ AllQueued => EveryRequestEnds
  <1> DEFINE Ended(r) == pc[r] \in {"done", "lost"}
             Begun(r) == pc[r] \in {"lookup", "find"}
  <1>1. ASSUME NEW r \in Requests PROVE Queued(r) => Served(r)
    BY PTL DEF Queued, Served
  <1>2. AllQueued => AllServed
    BY <1>1 DEF AllQueued, AllServed
  <1>3. ASSUME NEW r \in Requests, NEW e \in Emails
        PROVE  []Inv /\ [][Next]_vars /\ Queued(r) /\ []<>EmailFree(e) =>
                   [](WaitsAt(r, e) => <>Ended(r))
    <2> DEFINE Past(n) == Came(r, n)
    <2>1. Inv /\ Inv' /\ [Next]_vars /\ WaitsAt(r, e) =>
              /\ Past(1)
              /\ WaitsAt(r, e)' \/ Past(4)'
              /\ EmailFree(e) => Ready(r)
      BY WaitingStep
    <2>2. Inv /\ Inv' /\ [Next]_vars =>
              /\ Past(2) => Past(2)'
              /\ Past(3) => Past(3)'
              /\ <<Serve(r)>>_vars =>
                     /\ Past(1) => Past(2)'
                     /\ Past(2) => Past(3)'
                     /\ Past(3) => Past(4)'
      BY RequestStep
    <2>3. []Inv /\ [][Next]_vars /\ Served(r) => (Past(4) ~> Past(7))
      BY GoingEnds
    <2>4. Inv => (Past(7) => Ended(r))
      BY DEF Inv, TypeOK, PCs, Came, Rank
    <2>5. Queued(r) => Served(r)
      BY <1>1
    <2> HIDE DEF Ended, Past
    <2> QED
      BY <2>1, <2>2, <2>3, <2>4, <2>5, PTL DEF Queued
  <1>4. ASSUME NEW r \in Requests
        PROVE  []Inv /\ [](\A e \in Emails : WaitsAt(r, e) => <>Ended(r))
                   /\ (pc[r] \in {"commit", "find"} ~> Ended(r)) => (Begun(r) ~> Ended(r))
    <2> DEFINE NoWaiterLeft == \A e \in Emails : WaitsAt(r, e) => <>Ended(r)
               Signing      == pc[r] \in {"commit", "find"}
    <2>1. Inv /\ NoWaiterLeft => (Begun(r) => Signing \/ <>Ended(r))
      <3>1. Inv /\ pc[r] = "lookup" => op[r].email \in Emails
        BY DEF Inv, TypeOK, Op
      <3> QED
        BY <3>1 DEF WaitsAt
    <2>2. []Inv /\ []NoWaiterLeft /\ (Signing ~> Ended(r)) => (Begun(r) ~> Ended(r))
      <3> HIDE DEF Ended, Begun, Signing, NoWaiterLeft
      <3> QED
        BY <2>1, PTL
    <2> QED
      BY <2>2
  <1> SUFFICES ASSUME Spec, AllQueued PROVE EveryRequestEnds
    OBVIOUS
  <1>5. []Inv /\ [][Next]_vars
    BY Invariance, PTL DEF Spec
  <1>6. EntriesComeFree
    BY <1>2, EntriesFreed
  <1>7. ASSUME NEW r \in Requests PROVE Begun(r) ~> Ended(r)
    <2>1. Queued(r) /\ (pc[r] \in {"commit", "find"} ~> Ended(r))
      BY <1>6 DEF AllQueued, EntriesComeFree
    <2>2. \A e \in Emails : [](WaitsAt(r, e) => <>Ended(r))
      BY <1>3, <1>5, <1>6, <2>1 DEF EntriesComeFree
    <2>3. [](\A e \in Emails : WaitsAt(r, e) => <>Ended(r))
      BY <2>2
    <2> HIDE DEF Ended, Begun
    <2> QED
      BY <1>4, <1>5, <2>1, <2>3
  <1> QED
    BY <1>7 DEF EveryRequestEnds

=============================================================================

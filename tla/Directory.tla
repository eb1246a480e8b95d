------------------------------ MODULE Directory ------------------------------
(***************************************************************************)
(* What POST /auth/register and POST /auth/login promise: a directory with *)
(* at most one user per email, in which every registration and every login *)
(* takes effect at one instant between its arrival and its answer.         *)
(*                                                                         *)
(* A request may also fail, and a registration may fail to its client      *)
(* although the user is there.                                             *)
(***************************************************************************)
CONSTANTS
    Requests,   \* a user carries the name of the request that registered it
    Emails,
    Passwords,
    NULL

VARIABLES
    who,        \* who[e]: the user registered under email e, or NULL
    asked,      \* asked[r]: what request r wants, NULL before it arrives
    answer      \* answer[r]: what it was told, NULL before

vars == <<who, asked, answer>>

Wants == [kind : {"register", "login"}, email : Emails, password : Passwords]

Told(user)    == [err |-> "none", user |-> user]
Refused(kind) == [err |-> kind, user |-> NULL]

Init ==
    /\ who    = [e \in Emails |-> NULL]
    /\ asked  = [r \in Requests |-> NULL]
    /\ answer = [r \in Requests |-> NULL]

Ask(r, w) ==
    /\ asked[r] = NULL
    /\ asked' = [asked EXCEPT ![r] = w]
    /\ UNCHANGED <<who, answer>>

Waiting(r) == asked[r] # NULL /\ answer[r] = NULL

Say(r, a) ==
    /\ Waiting(r)
    /\ answer' = [answer EXCEPT ![r] = a]
    /\ UNCHANGED asked

\* A free email gets a user, who is told (or the answer is a failure).
Enrol(r) ==
    /\ Waiting(r)
    /\ asked[r].kind = "register"
    /\ who[asked[r].email] = NULL
    /\ who' = [who EXCEPT ![asked[r].email] = [id |-> r, password |-> asked[r].password]]
    /\ \E a \in {Told(r), Refused("failure")} : Say(r, a)

\* Only a taken email is refused.
Decline(r) ==
    /\ Waiting(r)
    /\ asked[r].kind = "register"
    /\ who[asked[r].email] # NULL
    /\ \E err \in {"conflict", "unique_violation"} : Say(r, Refused(err))
    /\ UNCHANGED who

\* A login is let in as the user of its email, exactly when the password is
\* that user's.
SignIn(r) ==
    LET user == who[asked[r].email] IN
    /\ Waiting(r)
    /\ asked[r].kind = "login"
    /\ IF user # NULL /\ user.password = asked[r].password
       THEN Say(r, Told(user.id))
       ELSE Say(r, Refused("unauthorized"))
    /\ UNCHANGED who

Fail(r) ==
    /\ Say(r, Refused("failure"))
    /\ UNCHANGED who

Next ==
    \E r \in Requests :
        \/ \E w \in Wants : Ask(r, w)
        \/ Enrol(r)
        \/ Decline(r)
        \/ SignIn(r)
        \/ Fail(r)

Spec == Init /\ [][Next]_vars

=============================================================================

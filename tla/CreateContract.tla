--------------------------- MODULE CreateContract ---------------------------
(***************************************************************************)
(* What POST /tasks promises its clients, with no database in sight.       *)
(*                                                                         *)
(* A request asks for a task under an idempotency key.  A task made for a  *)
(* key is the only one made for it until the window has passed, and a      *)
(* request that is told of a task is told of one made for its own key.     *)
(* A request may also get no task at all (an error, a lost connection).    *)
(***************************************************************************)
EXTENDS Integers

CONSTANTS
    Requests,   \* HTTP attempts; a task carries the name of the one that made it
    Keys,       \* (user_id, idempotency_key) pairs
    Window,     \* how long a key stands for the same logical request
    MaxTime,    \* last instant of the clock
    NULL

VARIABLES
    asked,      \* asked[r]: the key request r came with, NULL before it arrives
    at,         \* at[r]: when it arrived
    made,       \* made[k]: the tasks made for key k
    answer      \* answer[r]: the task r was told of, NULL if none (so far)

vars == <<asked, at, made, answer>>

Init ==
    /\ asked  = [r \in Requests |-> NULL]
    /\ at     = [r \in Requests |-> 0]
    /\ made   = [k \in Keys |-> {}]
    /\ answer = [r \in Requests |-> NULL]

Ask(r, k, t) ==
    /\ asked[r] = NULL
    /\ asked' = [asked EXCEPT ![r] = k]
    /\ at' = [at EXCEPT ![r] = t]
    /\ UNCHANGED <<made, answer>>

\* A new task needs every earlier one of the key to be out of its window.
Make(r, k) ==
    /\ asked[r] = k
    /\ \A t \in made[k] : at[t] + Window < at[r]
    /\ made' = [made EXCEPT ![k] = @ \cup {r}]
    /\ UNCHANGED <<asked, at, answer>>

Answer(r, k, t) ==
    /\ asked[r] = k
    /\ answer[r] = NULL
    /\ t \in made[k]
    /\ answer' = [answer EXCEPT ![r] = t]
    /\ UNCHANGED <<asked, at, made>>

Next ==
    \E r \in Requests, k \in Keys :
        \/ \E t \in 0..MaxTime : Ask(r, k, t)
        \/ Make(r, k)
        \/ \E t \in Requests : Answer(r, k, t)

Spec == Init /\ [][Next]_vars

=============================================================================

----------------------------- MODULE RateLimit ------------------------------
(***************************************************************************)
(* IPRateLimiter: one token bucket per client address, in the memory of    *)
(* the process, in front of /auth/*.                                       *)
(*                                                                         *)
(* A request goes through it in three steps that those of others come      *)
(* between: it looks its bucket up under the mutex of the map, it reads    *)
(* the clock, it takes a token under the mutex of the bucket.  So a bucket *)
(* may be asked at times that run backwards.                               *)
(*                                                                         *)
(* A bucket (golang.org/x/time/rate, external) holds up to PerMinute       *)
(* tokens and gains PerMinute a minute.  To count in integers a token is   *)
(* Minute units: a bucket holds PerMinute * Minute of them and gains       *)
(* PerMinute an instant.                                                   *)
(***************************************************************************)
EXTENDS Integers, Sequences

CONSTANTS
    Requests,   \* requests that come to the limiter
    Addresses,  \* gin's ClientIP of a request
    PerMinute,  \* AUTH_RATE_LIMIT_RPM; one below 0 works like 0
    Minute,     \* instants of the clock in a minute
    MaxTime,    \* bound of the clock
    NULL

VARIABLES
    now,        \* the monotonic clock of the process
    limiters,   \* limiters[a]: the bucket of a, named after its maker, or NULL
    bucket,     \* bucket[b]: rate.Limiter
    pc,         \* pc[r]: what r is about to do, or what became of it
    client,     \* client[r]: the address r came from
    mine,       \* mine[r]: the bucket get returned to r
    at,         \* at[r]: the time r has read
    granted     \* granted[a]: what a was granted, in the order of the grants (history)

limiter == <<limiters, bucket, client, mine, at, granted>>
vars    == <<now, pc, limiter>>

ASSUME RateAssumption ==
    /\ PerMinute \in Nat
    /\ Minute \in Nat \ {0}
    /\ MaxTime \in Nat
ASSUME NullAssumption == NULL \notin Requests \cup Addresses

Cost  == Minute
Burst == PerMinute * Minute

Bucket == [tokens : 0..Burst, last : 0..MaxTime]

\* A grant: the time it was asked at, and by how much the times the address
\* was granted at had run backwards until then, all in all.
Grant == [at : 0..MaxTime, back : Nat]

Init ==
    /\ now      = 0
    /\ limiters = [a \in Addresses |-> NULL]
    /\ bucket   = [b \in Requests |-> NULL]
    /\ pc       = [r \in Requests |-> "get"]
    /\ client   = [r \in Requests |-> NULL]
    /\ mine     = [r \in Requests |-> NULL]
    /\ at       = [r \in Requests |-> NULL]
    /\ granted  = [a \in Addresses |-> <<>>]

Goto(r, label) == pc' = [pc EXCEPT ![r] = label]

-----------------------------------------------------------------------------

\* A new bucket is full: its last event is the zero time.
Full == [tokens |-> Burst, last |-> 0]

\* Mutant: the map is read before its mutex is taken, and misses a bucket that
\* was only just made.
GetUnlocked(r, a) ==
    LET missed == limiters[a] = NULL \/ pc[limiters[a]] = "clock" IN
    /\ pc[r] = "get"
    /\ client' = [client EXCEPT ![r] = a]
    /\ limiters' = [limiters EXCEPT ![a] = IF missed THEN r ELSE @]
    /\ bucket' = [bucket EXCEPT ![r] = IF missed THEN Full ELSE @]
    /\ mine' = [mine EXCEPT ![r] = limiters'[a]]
    /\ Goto(r, "clock")
    /\ UNCHANGED <<now, at, granted>>

\* get: look the bucket up or make it, in one critical section.
Get(r, a) ==
    LET missing == limiters[a] = NULL IN
    /\ pc[r] = "get"
    /\ client' = [client EXCEPT ![r] = a]
    /\ limiters' = [limiters EXCEPT ![a] = IF missing THEN r ELSE @]
    /\ bucket' = [bucket EXCEPT ![r] = IF missing THEN Full ELSE @]
    /\ mine' = [mine EXCEPT ![r] = limiters'[a]]
    /\ Goto(r, "clock")
    /\ UNCHANGED <<now, at, granted>>

\* time.Now(), before any lock is taken.
Clock(r) ==
    /\ pc[r] = "clock"
    /\ at' = [at EXCEPT ![r] = now]
    /\ Goto(r, "allow")
    /\ UNCHANGED <<now, limiters, bucket, client, mine, granted>>

AtMost(x, y)  == IF x <= y THEN x ELSE y
AtLeast(x, y) == IF x >= y THEN x ELSE y

\* Mutant: the burst is not a limit of what time adds.
RefilledOverfull(b, t) == b.tokens + PerMinute * AtLeast(0, t - b.last)

\* Mutant: the rate is divided as integers before it is made a float.
RefilledIntegerRate(b, t) ==
    AtMost(Burst, b.tokens + Cost * (PerMinute \div Minute) * AtLeast(0, t - b.last))

\* advance: the tokens of b at time t; a time before the last one adds none.
Refilled(b, t) == AtMost(Burst, b.tokens + PerMinute * AtLeast(0, t - b.last))

\* How far times have run backwards if the next grant is at t.
Back(grants, t) ==
    LET n == Len(grants) IN
    IF n = 0 THEN 0 ELSE grants[n].back + AtLeast(0, grants[n].at - t)

\* AllowN(t, 1): the bucket is only written if there is a token, and then its
\* last time becomes t even if t is the earlier one: what is refilled from t
\* to the time it replaces is refilled again.
Allow(r) ==
    LET b      == bucket[mine[r]]
        t      == at[r]
        tokens == Refilled(b, t) - Cost
        a      == client[r]
    IN
    /\ pc[r] = "allow"
    /\ \/ /\ PerMinute > 0 /\ tokens >= 0
          /\ bucket' = [bucket EXCEPT ![mine[r]] = [tokens |-> tokens, last |-> t]]
          /\ granted' = [granted EXCEPT ![a] = Append(@, [at |-> t, back |-> Back(@, t)])]
          /\ Goto(r, "admitted")
       \/ /\ ~(PerMinute > 0 /\ tokens >= 0)
          /\ Goto(r, "refused")
          /\ UNCHANGED <<bucket, granted>>
    /\ UNCHANGED <<now, limiters, client, mine, at>>

\* Time passes.
Tick ==
    /\ now < MaxTime
    /\ now' = now + 1
    /\ UNCHANGED <<pc, limiter>>

Next ==
    \/ \E r \in Requests :
        \/ \E a \in Addresses : Get(r, a)
        \/ Clock(r)
        \/ Allow(r)
    \/ Tick

Spec == Init /\ [][Next]_vars

-----------------------------------------------------------------------------
(* What the limiter guarantees                                             *)

\* Every variable has values of its shape: no bucket holds more than the burst.
TypeOK ==
    /\ now \in 0..MaxTime
    /\ limiters \in [Addresses -> Requests \cup {NULL}]
    /\ bucket \in [Requests -> Bucket \cup {NULL}]
    /\ pc \in [Requests -> {"get", "clock", "allow", "admitted", "refused"}]
    /\ client \in [Requests -> Addresses \cup {NULL}]
    /\ mine \in [Requests -> Requests \cup {NULL}]
    /\ at \in [Requests -> 0..MaxTime \cup {NULL}]
    /\ granted \in [Addresses -> Seq(Grant)]

\* The units an address can have gained between two of its grants.
Gained(g, h) == PerMinute * ((h.at - g.at) + (h.back - g.back))

\* An address is never granted more than the burst and what is refilled in the
\* time its grants span, whichever requests make its bucket, find it or come
\* late with the time they read.  Time that a late one took back is counted
\* twice, and that is all it can add.
NeverTooMany ==
    \A a \in Addresses :
        \A j \in 1..Len(granted[a]) : \A i \in 1..j :
            (j - i + 1) * Cost <= Burst + Gained(granted[a][i], granted[a][j])

\* And never less: a request is only refused if granting it would have broken
\* that bound for the grants since some earlier one.  Refusals cost nothing.
NeverTooFew ==
    [][\A r \in Requests :
          LET grants == granted[client[r]]
              n      == Len(grants)
              next   == [at |-> at[r], back |-> Back(grants, at[r])]
          IN
          pc[r] = "allow" /\ pc'[r] = "refused" /\ PerMinute > 0 =>
              \E i \in 1..n : (n + 1 - i + 1) * Cost > Burst + Gained(grants[i], next)]_vars

=============================================================================

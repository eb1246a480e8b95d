------------------------------- MODULE Listing -------------------------------
(***************************************************************************)
(* GET /tasks: how TaskHandler.List and TaskUsecase.List turn page and     *)
(* limit into LIMIT and OFFSET, what the query returns, and what a client  *)
(* gets that walks through the pages while the list changes under it.      *)
(*                                                                         *)
(* A request is one SELECT.  The list is what the team, status and title   *)
(* filters let through: a task appears in it when it is created or updated *)
(* to match, and vanishes when it is deleted or updated not to match.      *)
(***************************************************************************)
EXTENDS Integers, FiniteSets

CONSTANTS
    Tasks,
    Times,          \* values of created_at
    RawPages,       \* numbers clients send as page and limit; what is no
    RawLimits,      \* number at all is parsed as 0
    MaxInt,         \* largest int32
    MaxLimit,       \* the usecase's 100
    DefaultLimit,   \* the handler's 10
    MaxOffset,      \* the usecase's 1000
    MaxGone,        \* bound of gone
    NULL

VARIABLES
    created,        \* created[t]: created_at of task t, NULL before it is made
    rows,           \* the tasks in the list
    mode,           \* what the client is doing
    page,           \* the page it asked for last
    limit,          \* its limit, as the handler has it
    status,         \* the status of the last answer
    seen,           \* the tasks its walk was given
    due,            \* the tasks that were in the list all along its walk
    gone            \* how many tasks vanished during its walk

list   == <<created, rows>>
client == <<mode, page, limit, status, seen, due, gone>>
vars   == <<list, client>>

ASSUME NullAssumption == NULL \notin Times
ASSUME TimesAssumption == Times \subseteq Nat
ASSUME TasksAssumption == IsFiniteSet(Tasks)
ASSUME RawAssumption == RawPages \subseteq Int /\ RawLimits \subseteq Int
ASSUME BoundAssumption ==
    /\ MaxInt \in Nat /\ MaxLimit \in Nat /\ DefaultLimit \in Nat
    /\ MaxOffset \in Nat /\ MaxGone \in Nat
    /\ 0 < DefaultLimit /\ DefaultLimit <= MaxLimit /\ MaxLimit <= MaxInt
    /\ MaxOffset + MaxLimit <= MaxInt

-----------------------------------------------------------------------------
(* The numbers *)

\* strconv.ParseInt(s, 10, 32) with its error ignored: out of range it gives
\* the nearest int32.
Parsed(raw) ==
    IF raw > MaxInt THEN MaxInt
    ELSE IF raw < -MaxInt - 1 THEN -MaxInt - 1
    ELSE raw

\* Mutant: a page below 1 is used as it is.
PageUnchecked(raw) == Parsed(raw)

PageOf(raw)  == IF Parsed(raw) < 1 THEN 1 ELSE Parsed(raw)
LimitOf(raw) == IF Parsed(raw) < 1 THEN DefaultLimit ELSE Parsed(raw)

Clamped(n) == IF n > MaxLimit THEN MaxLimit ELSE n

\* int32 arithmetic.
Wrapped(n) == ((n + MaxInt + 1) % (2 * (MaxInt + 1))) - MaxInt - 1

\* Mutant: the limit is clamped after the offset was computed.
OffsetUnclamped(p, n) == Wrapped((p - 1) * n)
\* Mutant: pages counted from 0.
OffsetFromZero(p, n) == Wrapped(p * Clamped(n))

Offset(p, n) == Wrapped((p - 1) * Clamped(n))

\* The cap is compared with the wrapped offset; PostgreSQL fails a query with
\* a negative OFFSET.
StatusOf(p, n) ==
    IF Offset(p, n) > MaxOffset THEN 422
    ELSE IF Offset(p, n) < 0 THEN 500
    ELSE 200

\* Mutant: division without rounding up.
TotalPagesDown(total, n) == total \div n

\* The handler divides by the limit it parsed, not by the one the usecase
\* clamped.
TotalPages(total, n) == (total + n - 1) \div n

-----------------------------------------------------------------------------
(* The query *)

\* ORDER BY created_at DESC leaves the order of equal times to PostgreSQL,
\* which may choose another one in every query.
TieBreaks ==
    {tie \in [Tasks -> 1..Cardinality(Tasks)] : \A t, u \in Tasks : tie[t] = tie[u] => t = u}

Before(u, t, tie) ==
    \/ created[u] > created[t]
    \/ created[u] = created[t] /\ tie[u] < tie[t]

Rank(t, tie) == Cardinality({u \in rows : Before(u, t, tie)})

\* The places, from 0, at which a query may find the rows.
Orders == {[t \in rows |-> Rank(t, tie)] : tie \in TieBreaks}

\* LIMIT n OFFSET o.
Items(o, n, order) == {t \in rows : order[t] \in o..(o + n - 1)}

\* count(*) OVER () comes with the rows: without a row it is taken for 0.
Total(o) == IF o < Cardinality(rows) THEN Cardinality(rows) ELSE 0

-----------------------------------------------------------------------------

Init ==
    /\ created = [t \in Tasks |-> NULL]
    /\ rows    = {}
    /\ mode    = "idle"
    /\ page    = 0
    /\ limit   = DefaultLimit
    /\ status  = 0
    /\ seen    = {}
    /\ due     = {}
    /\ gone    = 0

\* created_at is the start of the transaction that makes the task, so a task
\* may appear anywhere in the list.
Appear(t, time) ==
    /\ t \notin rows
    /\ created[t] \in {NULL, time}
    /\ created' = [created EXCEPT ![t] = time]
    /\ rows' = rows \cup {t}
    /\ UNCHANGED client

Vanish(t) ==
    /\ t \in rows
    /\ mode = "walking" => gone < MaxGone
    /\ rows' = rows \ {t}
    /\ due' = due \ {t}
    /\ gone' = IF mode = "walking" THEN gone + 1 ELSE gone
    /\ UNCHANGED <<created, mode, page, limit, status, seen>>

\* A request for any page.
Jump(rawPage, rawLimit) ==
    /\ mode = "idle"
    /\ mode' = "answered"
    /\ page' = PageOf(rawPage)
    /\ limit' = LimitOf(rawLimit)
    /\ status' = StatusOf(page', limit')
    /\ UNCHANGED <<list, seen, due, gone>>

\* A client sets out to see the whole list.
StartWalk(rawLimit) ==
    /\ mode = "idle"
    /\ mode' = "walking"
    /\ limit' = LimitOf(rawLimit)
    /\ due' = rows
    /\ UNCHANGED <<list, page, status, seen, gone>>

\* It asks for one page after the other up to the total_pages of the latest
\* answer.
Fetch(order) ==
    LET p == page + 1
        o == Offset(p, limit)
    IN
    /\ mode = "walking"
    /\ page' = p
    /\ status' = StatusOf(p, limit)
    /\ IF status' = 200
       THEN /\ seen' = seen \cup Items(o, Clamped(limit), order)
            /\ mode' = IF p >= TotalPages(Total(o), limit) THEN "ended" ELSE "walking"
       ELSE mode' = "answered" /\ UNCHANGED seen
    /\ UNCHANGED <<list, limit, due, gone>>

\* A status filter that is no status is refused before the usecase is called,
\* and a query may fail for reasons of its own.
Fails ==
    /\ mode \in {"idle", "walking"}
    /\ mode' = "failed"
    /\ status' \in {422, 500}
    /\ UNCHANGED <<list, page, limit, seen, due, gone>>

Next ==
    \/ \E t \in Tasks, time \in Times : Appear(t, time)
    \/ \E t \in Tasks : Vanish(t)
    \/ \E p \in RawPages, n \in RawLimits : Jump(p, n)
    \/ \E n \in RawLimits : StartWalk(n)
    \/ \E order \in Orders : Fetch(order)
    \/ Fails

Spec == Init /\ [][Next]_vars

-----------------------------------------------------------------------------
(* What the code guarantees                                                *)

\* The shape of the state: pages and limits are the positive int32 the
\* handler hands to the usecase.
TypeOK ==
    /\ created \in [Tasks -> Times \cup {NULL}]
    /\ rows \subseteq {t \in Tasks : created[t] # NULL}
    /\ mode \in {"idle", "walking", "ended", "answered", "failed"}
    /\ page \in Nat
    /\ mode \in {"ended", "answered"} => page > 0
    /\ limit \in 1..MaxInt
    /\ status \in {0, 200, 422, 500}
    /\ seen \subseteq Tasks
    /\ due \subseteq rows
    /\ gone \in 0..MaxGone

\* What a request for page p with limit n is given, if the query finds this order.
PageAt(p, n, order) ==
    IF StatusOf(p, n) = 200 THEN Items(Offset(p, n), Clamped(n), order) ELSE {}

Newer(t) == {u \in rows : created[u] > created[t]}
Peers(t) == {u \in rows : created[u] = created[t]}

\* The pages with limit n that have the first and the last place t may have
\* among the tasks of its time.
FirstPage(t, n) == Cardinality(Newer(t)) \div Clamped(n) + 1
LastPage(t, n)  == (Cardinality(Newer(t)) + Cardinality(Peers(t)) - 1) \div Clamped(n) + 1

\* While the list stays as it is, a task is served on the page of its place and
\* on no other, whatever order each query finds for equal times; only a task
\* whose peers lie on both sides of a boundary may be on two pages, or on none.
\* total_pages reaches that page for every limit the usecase does not clamp, and
\* counts no empty page; but it counts pages past the cap, and those are refused.
PagesServeOnce ==
    LET orders == Orders IN
    Cardinality(rows) <= MaxInt =>
        \A n \in 1..MaxInt :
            LET pages == 1..TotalPages(Cardinality(rows), n) IN
            /\ n <= MaxLimit => \A t \in rows : LastPage(t, n) \in pages
            /\ \A p \in pages :
                   LET within == (p - 1) * Clamped(n) <= MaxOffset
                       may    == {t \in rows : p \in FirstPage(t, n)..LastPage(t, n)}
                       must   == {t \in may : within /\ FirstPage(t, n) = LastPage(t, n)}
                   IN
                   /\ StatusOf(p, n) = IF within THEN 200 ELSE 422
                   /\ \A order \in orders :
                          LET served == PageAt(p, n, order) IN
                          /\ must \subseteq served /\ served \subseteq may
                          /\ within => served # {}

\* No page is refused, or fails for its number, that lies within the cap,
\* whatever limit was sent.
WithinCapServed ==
    mode \in {"answered", "ended"} /\ (page - 1) * Clamped(limit) <= MaxOffset => status = 200

NoTies == \A t, u \in Tasks : created[t] # NULL /\ created[t] = created[u] => t = u

\* A client that walks through all pages, with a limit the documents allow,
\* while tasks come and go, misses at most one task for each that vanished,
\* and none if none did (provided no two tasks were created at the same time).
WalkMissesFew ==
    mode = "ended" /\ limit <= MaxLimit /\ NoTies => Cardinality(due \ seen) <= gone

-----------------------------------------------------------------------------
(* What the documents say and the code does not do                         *)

\* README.md:134: "offset <= 1000 enforced".
CapEnforced ==
    mode = "answered" /\ status = 200 => (page - 1) * Clamped(limit) <= MaxOffset

=============================================================================

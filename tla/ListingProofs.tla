---------------------------- MODULE ListingProofs ----------------------------
(***************************************************************************)
(* Theorems about Listing, for any tasks, times, requests and any width of *)
(* the integers.                                                           *)
(***************************************************************************)
EXTENDS Listing, FiniteSetTheorems, TLAPS

-----------------------------------------------------------------------------
(* The numbers                                                             *)

\* Parsing gives an int32, and leaves one as it is.
LEMMA ParsedRange ==
    ASSUME NEW raw \in Int
    PROVE  Parsed(raw) \in (-MaxInt - 1)..MaxInt
  BY BoundAssumption DEF Parsed

\* The handler's page and limit are positive int32.
LEMMA HandlerRange ==
    ASSUME NEW raw \in Int
    PROVE  PageOf(raw) \in 1..MaxInt /\ LimitOf(raw) \in 1..MaxInt
  BY ParsedRange, BoundAssumption DEF PageOf, LimitOf

\* Arithmetic in int32 is exact on the non-negative int32.
LEMMA NoWrap ==
    ASSUME NEW n \in Nat, n <= MaxInt
    PROVE  Wrapped(n) = n
<1> DEFINE half == MaxInt + 1
<1>1. half \in Nat /\ half > 0 /\ n + half < 2 * half
  BY BoundAssumption
<1>2. (n + half) % (2 * half) = n + half
  <2> HIDE DEF half
  <2> QED BY <1>1
<1>3. n + MaxInt + 1 = n + half /\ 2 * (MaxInt + 1) = 2 * half
  BY BoundAssumption
<1>4. Wrapped(n) = (n + half) - MaxInt - 1
  BY <1>2, <1>3 DEF Wrapped
<1> QED BY <1>4, BoundAssumption

\* The offset of a page within the cap is the number of tasks before it, and
\* the page is served.
LEMMA Served ==
    ASSUME NEW p \in Nat, NEW n \in 1..MaxInt,
           p > 0, (p - 1) * Clamped(n) <= MaxOffset
    PROVE  Offset(p, n) = (p - 1) * Clamped(n) /\ StatusOf(p, n) = 200
<1>1. Clamped(n) \in Nat
  BY BoundAssumption DEF Clamped
<1>2. p - 1 \in Nat
  OBVIOUS
<1> DEFINE o == (p - 1) * Clamped(n)
<1>3. o \in Nat
  BY <1>1, <1>2
<1>4. o <= MaxOffset /\ o <= MaxInt
  BY <1>3, BoundAssumption
<1>5. Wrapped(o) = o
  BY <1>3, <1>4, NoWrap
<1>6. Offset(p, n) = o
  BY <1>5 DEF Offset
<1> HIDE DEF o
<1>7. StatusOf(p, n) = 200
  BY <1>3, <1>4, <1>6, BoundAssumption DEF StatusOf
<1> QED BY <1>6, <1>7 DEF o

-----------------------------------------------------------------------------
(* The state                                                               *)

\* Whatever was answered was computed from the page and the limit in the
\* state; a walk that goes on was answered 200 so far.
Inv ==
    /\ TypeOK
    /\ mode = "idle" => page = 0
    /\ mode \in {"answered", "ended"} => status = StatusOf(page, limit)

\* The state of GET /tasks and of its clients keeps its shape, and the status
\* is that of the page and limit answered.
THEOREM Invariance == Spec => []Inv
<1>1. Init => Inv
  BY BoundAssumption DEF Init, Inv, TypeOK
<1>2. Inv /\ [Next]_vars => Inv'
  <2> SUFFICES ASSUME Inv, [Next]_vars PROVE Inv'
    OBVIOUS
  <2> USE DEF Inv, TypeOK, vars, list, client
  <2>1. ASSUME NEW t \in Tasks, NEW time \in Times, Appear(t, time) PROVE Inv'
    <3>1. created' \in [Tasks -> Times \cup {NULL}]
      BY <2>1 DEF Appear
    <3>2. rows' \subseteq {u \in Tasks : created'[u] # NULL}
      BY <2>1, NullAssumption DEF Appear
    <3> QED BY <2>1, <3>1, <3>2 DEF Appear
  <2>2. ASSUME NEW t \in Tasks, Vanish(t) PROVE Inv'
    <3>1. gone' \in 0..MaxGone
      BY <2>2, BoundAssumption DEF Vanish
    <3> QED BY <2>2, <3>1 DEF Vanish
  <2>3. ASSUME NEW p \in RawPages, NEW n \in RawLimits, Jump(p, n) PROVE Inv'
    <3>1. page' \in 1..MaxInt /\ limit' \in 1..MaxInt
      BY <2>3, HandlerRange, RawAssumption DEF Jump
    <3>2. status' = StatusOf(page', limit') /\ status' \in {0, 200, 422, 500}
      BY <2>3 DEF Jump, StatusOf
    <3>3. page' \in Nat /\ page' > 0
      BY <3>1, BoundAssumption
    <3> QED BY <2>3, <3>1, <3>2, <3>3 DEF Jump
  <2>4. ASSUME NEW n \in RawLimits, StartWalk(n) PROVE Inv'
    <3>1. limit' \in 1..MaxInt
      BY <2>4, HandlerRange, RawAssumption DEF StartWalk
    <3> QED BY <2>4, <3>1 DEF StartWalk
  <2>5. ASSUME NEW order \in Orders, Fetch(order) PROVE Inv'
    <3>1. page' = page + 1 /\ page' \in Nat /\ page' > 0
      BY <2>5 DEF Fetch
    <3>2. limit' = limit /\ status' = StatusOf(page', limit')
      BY <2>5, <3>1 DEF Fetch
    <3>3. status' \in {0, 200, 422, 500}
      BY <3>2 DEF StatusOf
    <3>4. mode' \in {"ended", "walking", "answered"}
      BY <2>5 DEF Fetch
    <3>5. seen' \subseteq Tasks
      BY <2>5 DEF Fetch, Items
    <3>6. UNCHANGED <<created, rows, due, gone>>
      BY <2>5 DEF Fetch
    <3> QED BY <3>1, <3>2, <3>3, <3>4, <3>5, <3>6
  <2>6. ASSUME Fails PROVE Inv'
    BY <2>6 DEF Fails
  <2>7. ASSUME UNCHANGED vars PROVE Inv'
    BY <2>7
  <2> QED BY <2>1, <2>2, <2>3, <2>4, <2>5, <2>6, <2>7 DEF Next
<1> QED BY <1>1, <1>2, PTL DEF Spec

-----------------------------------------------------------------------------
(* Walks                                                                   *)

\* The tasks that were there all along, lie within the pages fetched so far,
\* and were not on them.
Missed == {t \in due \ seen : Cardinality(Newer(t)) < page * limit}

\* A walk has not got further than one page past the cap, so its offsets have
\* not wrapped; it has missed no more tasks than vanished.
WalkInv ==
    mode = "walking" /\ limit <= MaxLimit =>
        /\ page * limit <= MaxOffset + MaxLimit
        /\ NoTies => Cardinality(Missed) <= gone

\* Division by the limit, rounded up, gives pages enough for all tasks.
LEMMA PagesEnough ==
    ASSUME NEW c \in Nat, NEW n \in Nat, n > 0, NEW p \in Nat, TotalPages(c, n) <= p
    PROVE  c <= p * n
<1> DEFINE q == (c + n - 1) \div n
<1>1. q \in Nat /\ c + n - 1 < (q + 1) * n
  OBVIOUS
<1>2. q <= p
  BY DEF TotalPages
<1> HIDE DEF q
<1>3. (q + 1) * n = q * n + n
  BY <1>1
<1>4. q * n <= p * n
  BY <1>1, <1>2
<1>5. q * n \in Nat /\ p * n \in Nat
  BY <1>1
<1> QED BY <1>1, <1>3, <1>4, <1>5

\* A set of tasks is finite, and no smaller than one that it contains.
LEMMA Subsets ==
    ASSUME NEW S, NEW T, S \subseteq T, T \subseteq Tasks
    PROVE  /\ IsFiniteSet(S) /\ Cardinality(S) \in Nat
           /\ IsFiniteSet(T) /\ Cardinality(T) \in Nat
           /\ Cardinality(S) <= Cardinality(T)
<1>1. IsFiniteSet(T)
  BY TasksAssumption, FS_Subset
<1>2. IsFiniteSet(S) /\ Cardinality(S) <= Cardinality(T)
  BY <1>1, FS_Subset
<1> QED BY <1>1, <1>2, FS_CardinalityType

\* What the list is made of.
LEMMA Finite ==
    ASSUME TypeOK
    PROVE  /\ IsFiniteSet(rows) /\ Cardinality(rows) \in Nat
           /\ \A t : IsFiniteSet(Newer(t)) /\ Cardinality(Newer(t)) \in Nat
           /\ IsFiniteSet(due) /\ IsFiniteSet(Missed)
           /\ \A t \in rows : t \in Tasks /\ created[t] \in Nat
<1>1. IsFiniteSet(rows)
  BY TasksAssumption, FS_Subset DEF TypeOK
<1>2. \A t : IsFiniteSet(Newer(t))
  BY <1>1, FS_Subset DEF Newer
<1>3. IsFiniteSet(due)
  BY <1>1, FS_Subset DEF TypeOK
<1>4. IsFiniteSet(Missed)
  BY <1>3, FS_Subset DEF Missed
<1>5. ASSUME NEW t \in rows PROVE t \in Tasks /\ created[t] \in Nat
  <2>1. t \in Tasks /\ created[t] # NULL
    BY DEF TypeOK
  <2>2. created[t] \in Times \cup {NULL}
    BY <2>1 DEF TypeOK
  <2> QED BY <2>1, <2>2, TimesAssumption
<1> QED BY <1>1, <1>2, <1>3, <1>4, <1>5, FS_CardinalityType

\* No two tasks have the same place.
LEMMA OwnPlace ==
    ASSUME TypeOK, NoTies, NEW x \in rows, NEW y \in rows,
           Cardinality(Newer(x)) = Cardinality(Newer(y))
    PROVE  x = y
<1>1. ASSUME NEW a \in rows, NEW b \in rows, created[a] > created[b]
      PROVE  Cardinality(Newer(a)) < Cardinality(Newer(b))
  <2>1. Newer(a) \cup {a} \subseteq Newer(b)
    BY <1>1, Finite DEF Newer
  <2>2. a \notin Newer(a)
    BY Finite DEF Newer
  <2>3. Cardinality(Newer(a) \cup {a}) = Cardinality(Newer(a)) + 1
    BY <2>2, Finite, FS_AddElement
  <2>4. Cardinality(Newer(a) \cup {a}) <= Cardinality(Newer(b))
    BY <2>1, Finite, FS_Subset
  <2> QED BY <2>3, <2>4, Finite
<1>2. created[x] \in Nat /\ created[y] \in Nat /\ x \in Tasks /\ y \in Tasks
  BY Finite
<1>3. ~ (created[x] > created[y]) /\ ~ (created[y] > created[x])
  BY <1>1, Finite
<1>4. created[x] = created[y]
  BY <1>2, <1>3
<1>5. created[x] # NULL
  BY DEF TypeOK
<1> QED BY <1>2, <1>4, <1>5 DEF NoTies

\* Without ties the place of a task in every query is the number of newer ones.
LEMMA PlaceInQuery ==
    ASSUME TypeOK, NoTies, NEW order \in Orders, NEW t \in rows
    PROVE  order[t] = Cardinality(Newer(t))
<1> PICK tie \in TieBreaks : order = [u \in rows |-> Rank(u, tie)]
  BY DEF Orders
<1>1. Cardinality(Tasks) \in Nat
  BY TasksAssumption, FS_CardinalityType
<1>2. t \in Tasks /\ created[t] # NULL /\ rows \subseteq Tasks
  BY DEF TypeOK
<1>3. tie[t] \in Nat
  BY <1>1, <1>2 DEF TieBreaks
<1>4. \A u \in rows : created[u] = created[t] => u = t
  BY <1>2 DEF NoTies
<1>5. ~ (tie[t] < tie[t])
  BY <1>3
<1>6. \A u \in rows : Before(u, t, tie) <=> created[u] > created[t]
  BY <1>4, <1>5 DEF Before
<1>7. {u \in rows : Before(u, t, tie)} = Newer(t)
  BY <1>6 DEF Newer
<1> QED BY <1>7 DEF Rank

\* Times once given stay, so a list without ties had none before.
LEMMA NoTiesBefore ==
    ASSUME TypeOK, [Next]_vars, NoTies'
    PROVE  NoTies
<1>1. ASSUME NEW t \in Tasks, NEW time \in Times, Appear(t, time) PROVE NoTies
  <2>1. \A x \in Tasks : created[x] # NULL => created'[x] = created[x]
    BY <1>1 DEF Appear, TypeOK
  <2> QED BY <2>1 DEF NoTies
<1>2. ASSUME created' = created PROVE NoTies
  BY <1>2 DEF NoTies
<1> QED BY <1>1, <1>2 DEF Next, vars, list, Vanish, Jump, StartWalk, Fetch, Fails

-----------------------------------------------------------------------------
(* What each step does to a walk                                           *)

\* A task that appears only pushes others back: none is newly missed.
LEMMA AppearMisses ==
    ASSUME TypeOK, TypeOK', NEW t \in Tasks, NEW time \in Times, Appear(t, time)
    PROVE  Cardinality(Missed') <= Cardinality(Missed)
<1>1. rows' \subseteq Tasks /\ page * limit \in Nat /\ UNCHANGED <<page, limit, due, seen>>
  BY BoundAssumption DEF TypeOK, Appear, client
<1>2. ASSUME NEW x \in rows PROVE Cardinality(Newer(x)) <= Cardinality(Newer(x)')
  <2>1. \A u \in rows : created'[u] = created[u]
    BY DEF Appear, TypeOK
  <2>2. Newer(x) \subseteq Newer(x)'
    BY <2>1 DEF Newer, Appear
  <2>3. Newer(x)' \subseteq Tasks
    BY <1>1 DEF Newer
  <2> QED BY <2>2, <2>3, Subsets
<1>3. ASSUME NEW x \in Missed' PROVE x \in Missed
  <2>1. x \in due /\ x \in rows /\ x \notin seen
    BY <1>1 DEF Missed, TypeOK
  <2>2. Cardinality(Newer(x)') < page * limit
    BY <1>1 DEF Missed
  <2>3. Newer(x)' \subseteq Tasks /\ Newer(x) \subseteq Tasks
    BY <1>1 DEF Newer, TypeOK
  <2>4. Cardinality(Newer(x)') \in Nat /\ Cardinality(Newer(x)) \in Nat
    BY <2>3, Subsets
  <2>5. Cardinality(Newer(x)) <= Cardinality(Newer(x)')
    BY <1>2, <2>1
  <2>6. Cardinality(Newer(x)) < page * limit
    BY <1>1, <2>2, <2>4, <2>5
  <2> QED BY <2>1, <2>6 DEF Missed
<1>4. Missed' \subseteq Missed /\ Missed \subseteq Tasks
  BY <1>3 DEF Missed, TypeOK
<1> QED BY <1>4, Subsets

\* A task that vanishes pulls the next page's first task over the boundary:
\* one more is missed, at most.
LEMMA VanishMisses ==
    ASSUME TypeOK, TypeOK', NoTies, NEW v \in Tasks, Vanish(v)
    PROVE  Cardinality(Missed') <= Cardinality(Missed) + 1
<1>1. /\ page * limit \in Nat
      /\ UNCHANGED <<created, page, limit, seen>>
      /\ rows' = rows \ {v} /\ due' = due \ {v}
      /\ rows \subseteq Tasks /\ Missed \subseteq Tasks /\ Missed' \subseteq Tasks
  BY BoundAssumption DEF TypeOK, Vanish, Missed
<1> DEFINE atBoundary(x) == x \in rows /\ Cardinality(Newer(x)) = page * limit
<1>2. ASSUME NEW x \in Missed' PROVE x \in Missed \/ atBoundary(x)
  <2>1. x \in due /\ x \in rows /\ x \notin seen
    BY <1>1 DEF Missed, TypeOK
  <2>2. Cardinality(Newer(x)') < page * limit
    BY <1>1 DEF Missed
  <2>3. Newer(x)' = Newer(x) \ {v}
    BY <1>1 DEF Newer
  <2>4. Newer(x) \subseteq Tasks
    BY <1>1 DEF Newer
  <2>5. IsFiniteSet(Newer(x)) /\ Cardinality(Newer(x)) \in Nat
    BY <2>4, Subsets
  <2>6. Cardinality(Newer(x)) <= Cardinality(Newer(x)') + 1
    BY <2>3, <2>5, FS_RemoveElement
  <2>7. Cardinality(Newer(x)') \in Nat
    BY <2>3, <2>4, Subsets
  <2>8. Cardinality(Newer(x)) < page * limit \/ Cardinality(Newer(x)) = page * limit
    BY <1>1, <2>2, <2>5, <2>6, <2>7
  <2> QED BY <2>1, <2>8 DEF Missed
<1>3. \A x, y : atBoundary(x) /\ atBoundary(y) => x = y
  BY OwnPlace
<1> HIDE DEF atBoundary
<1>4. CASE Missed' \subseteq Missed
  <2>1. Cardinality(Missed') <= Cardinality(Missed) /\ Cardinality(Missed) \in Nat /\ Cardinality(Missed') \in Nat
    BY <1>1, <1>4, Subsets
  <2> QED BY <2>1
<1>5. CASE ~ (Missed' \subseteq Missed)
  <2>1. PICK z \in Missed' : z \notin Missed
    BY <1>5
  <2>2. Missed' \subseteq Missed \cup {z}
    BY <1>2, <1>3, <2>1
  <2>3. z \in Tasks /\ Missed \cup {z} \subseteq Tasks
    BY <1>1, <2>1
  <2>4. Cardinality(Missed') <= Cardinality(Missed \cup {z})
    BY <2>2, <2>3, Subsets
  <2>5. IsFiniteSet(Missed)
    BY <1>1, Subsets
  <2>6. Cardinality(Missed \cup {z}) = Cardinality(Missed) + 1
    BY <2>1, <2>5, FS_AddElement
  <2> QED BY <2>4, <2>6
<1> QED BY <1>4, <1>5

\* A page that is served leaves none of its tasks to be missed.
LEMMA FetchMisses ==
    ASSUME TypeOK, NoTies, limit <= MaxLimit, NEW order \in Orders, Fetch(order),
           status' = 200, Offset(page + 1, limit) = page * limit
    PROVE  Cardinality(Missed') <= Cardinality(Missed)
<1>1. /\ page * limit \in Nat /\ page \in Nat /\ limit \in Nat
      /\ (page + 1) * limit = page * limit + limit
  BY BoundAssumption DEF TypeOK
<1>2. Clamped(limit) = limit
  BY <1>1, BoundAssumption DEF Clamped
<1>3. /\ page' = page + 1 /\ UNCHANGED <<created, rows, limit, due>>
      /\ seen' = seen \cup Items(page * limit, limit, order)
  BY <1>2 DEF Fetch, list
<1>4. ASSUME NEW x \in Missed' PROVE x \in Missed
  <2>1. x \in due /\ x \in rows /\ x \notin seen /\ x \notin Items(page * limit, limit, order)
    BY <1>3 DEF Missed, TypeOK
  <2>2. Newer(x)' = Newer(x)
    BY <1>3 DEF Newer
  <2>3. Cardinality(Newer(x)) < page * limit + limit
    BY <1>1, <1>3, <2>2 DEF Missed
  <2>4. order[x] = Cardinality(Newer(x))
    BY <2>1, PlaceInQuery
  <2>5. Cardinality(Newer(x)) \in Nat
    BY Finite
  <2>6. Cardinality(Newer(x)) \notin (page * limit)..(page * limit + limit - 1)
    BY <2>1, <2>4 DEF Items
  <2>7. Cardinality(Newer(x)) < page * limit
    BY <1>1, <2>3, <2>5, <2>6
  <2> QED BY <2>1, <2>7 DEF Missed
<1>5. Missed' \subseteq Missed /\ Missed \subseteq Tasks
  BY <1>4 DEF Missed, TypeOK
<1> QED BY <1>5, Subsets

\* When the pages are said to be at an end, every task lies within them.
LEMMA EndReached ==
    ASSUME TypeOK, limit <= MaxLimit, NEW order \in Orders, Fetch(order),
           status' = 200, mode' = "ended", Offset(page + 1, limit) = page * limit
    PROVE  due' \ seen' \subseteq Missed'
<1>1. /\ page * limit \in Nat /\ page \in Nat /\ limit \in Nat /\ limit > 0
      /\ (page + 1) * limit = page * limit + limit
  BY BoundAssumption DEF TypeOK
<1>2. /\ page' = page + 1 /\ UNCHANGED <<created, rows, limit, due>>
      /\ page + 1 >= TotalPages(Total(page * limit), limit)
  BY DEF Fetch, list
<1>3. Cardinality(rows) \in Nat
  BY Finite
<1>4. Cardinality(rows) <= (page + 1) * limit
  <2>1. CASE page * limit < Cardinality(rows)
    <3>1. Total(page * limit) = Cardinality(rows)
      BY <2>1 DEF Total
    <3>2. TotalPages(Cardinality(rows), limit) <= page + 1
      BY <1>2, <3>1
    <3> QED BY <1>1, <1>3, <3>2, PagesEnough
  <2>2. CASE ~ (page * limit < Cardinality(rows))
    BY <1>1, <1>3, <2>2
  <2> QED BY <2>1, <2>2
<1>5. ASSUME NEW x \in due, x \notin seen' PROVE x \in Missed'
  <2>1. x \in rows /\ rows \subseteq Tasks
    BY DEF TypeOK
  <2>2. Newer(x) \subseteq rows \ {x}
    BY Finite DEF Newer
  <2>3. Cardinality(Newer(x)) <= Cardinality(rows \ {x})
    BY <2>1, <2>2, Subsets
  <2>4. Cardinality(rows \ {x}) = Cardinality(rows) - 1
    BY <2>1, Finite, FS_RemoveElement
  <2>5. Cardinality(Newer(x)) \in Nat
    BY Finite
  <2>6. Cardinality(Newer(x)) < (page + 1) * limit
    BY <1>1, <1>3, <1>4, <2>3, <2>4, <2>5
  <2>7. Newer(x)' = Newer(x)
    BY <1>2 DEF Newer
  <2> QED BY <1>2, <1>5, <2>6, <2>7 DEF Missed
<1> QED BY <1>2, <1>5

-----------------------------------------------------------------------------

\* WalkMissesFew in an inductive form.
MissInv == WalkInv /\ WalkMissesFew

\* Every step keeps the account of what a walk has missed.
LEMMA StepMisses ==
    ASSUME Inv, Inv', MissInv, [Next]_vars
    PROVE  MissInv'
<1>1. TypeOK /\ TypeOK' /\ WalkInv /\ WalkMissesFew
  BY DEF Inv, MissInv
<1>2. /\ page \in Nat /\ limit \in Nat /\ limit > 0 /\ page * limit \in Nat /\ gone \in Nat
      /\ Missed \subseteq Tasks /\ due \ seen \subseteq Tasks
  BY <1>1, BoundAssumption DEF TypeOK, Missed
<1>3. Missed' \subseteq Tasks /\ due' \ seen' \subseteq Tasks
  BY <1>1 DEF TypeOK, Missed
<1>4. /\ Cardinality(Missed) \in Nat /\ Cardinality(Missed') \in Nat
      /\ Cardinality(due \ seen) \in Nat /\ Cardinality(due' \ seen') \in Nat
  BY <1>2, <1>3, Subsets
<1>5. NoTies' => NoTies
  BY <1>1, NoTiesBefore
<1>6. ASSUME NEW t \in Tasks, NEW time \in Times, Appear(t, time) PROVE MissInv'
  <2>1. UNCHANGED client
    BY <1>6 DEF Appear
  <2>2. Cardinality(Missed') <= Cardinality(Missed)
    BY <1>1, <1>6, AppearMisses
  <2>3. WalkInv'
    BY <1>1, <1>2, <1>4, <1>5, <2>1, <2>2 DEF WalkInv, client
  <2>4. WalkMissesFew'
    BY <1>1, <1>5, <2>1 DEF WalkMissesFew, client
  <2> QED BY <2>3, <2>4 DEF MissInv
<1>7. ASSUME NEW v \in Tasks, Vanish(v) PROVE MissInv'
  <2>1. /\ UNCHANGED <<created, mode, page, limit, seen>>
        /\ due' = due \ {v}
        /\ gone' = IF mode = "walking" THEN gone + 1 ELSE gone
    BY <1>7 DEF Vanish
  <2>2. NoTies => Cardinality(Missed') <= Cardinality(Missed) + 1
    BY <1>1, <1>7, VanishMisses
  <2>3. WalkInv'
    BY <1>1, <1>2, <1>4, <1>5, <2>1, <2>2 DEF WalkInv
  <2>4. Cardinality(due' \ seen') <= Cardinality(due \ seen)
    <3>1. due' \ seen' \subseteq due \ seen
      BY <2>1
    <3> QED BY <1>2, <3>1, Subsets
  <2>5. WalkMissesFew'
    BY <1>1, <1>2, <1>4, <1>5, <2>1, <2>4 DEF WalkMissesFew
  <2> QED BY <2>3, <2>5 DEF MissInv
<1>8. ASSUME NEW p \in RawPages, NEW n \in RawLimits, Jump(p, n) PROVE MissInv'
  BY <1>8 DEF Jump, MissInv, WalkInv, WalkMissesFew
<1>9. ASSUME NEW n \in RawLimits, StartWalk(n) PROVE MissInv'
  <2>1. mode' = "walking" /\ page' = 0 /\ gone' = gone /\ limit' \in Nat
    BY <1>1, <1>9, BoundAssumption DEF StartWalk, Inv, TypeOK
  <2>2. page' * limit' = 0
    <3>1. \A k \in Nat : 0 * k = 0
      OBVIOUS
    <3> QED BY <2>1, <3>1
  <2>3. Missed' = {}
    <3>1. \A x \in due' : Newer(x)' \subseteq Tasks
      BY <1>1 DEF Newer, TypeOK
    <3>2. \A x \in due' : Cardinality(Newer(x)') \in Nat
      BY <3>1, Subsets
    <3>3. \A x \in due' : ~ (Cardinality(Newer(x)') < 0)
      BY <3>2
    <3> QED BY <2>2, <3>3 DEF Missed
  <2>4. Cardinality(Missed') = 0
    BY <2>3, FS_EmptySet
  <2>5. 0 <= MaxOffset + MaxLimit /\ 0 <= gone'
    BY <1>2, <2>1, BoundAssumption
  <2> QED BY <2>1, <2>2, <2>4, <2>5 DEF MissInv, WalkInv, WalkMissesFew
<1>10. ASSUME NEW order \in Orders, Fetch(order) PROVE MissInv'
  <2>1. /\ mode = "walking" /\ mode' \in {"walking", "ended", "answered"}
        /\ UNCHANGED <<created, limit, gone>> /\ page' = page + 1
        /\ status' = StatusOf(page + 1, limit)
        /\ mode' # "answered" => status' = 200
    BY <1>10 DEF Fetch, list
  <2>2. CASE limit > MaxLimit \/ mode' = "answered"
    BY <1>2, <2>1, <2>2, BoundAssumption DEF MissInv, WalkInv, WalkMissesFew
  <2>3. CASE limit <= MaxLimit /\ status' = 200 /\ mode' # "answered"
    <3>1. page * limit <= MaxOffset + MaxLimit
      BY <1>1, <2>1, <2>3 DEF WalkInv
    <3>2. (page + 1 - 1) * Clamped(limit) = page * limit
      <4>1. Clamped(limit) = limit /\ page + 1 - 1 = page
        BY <1>2, <2>3, BoundAssumption DEF Clamped
      <4> QED BY <4>1
    <3>3. Offset(page + 1, limit) = page * limit
      <4>1. page * limit <= MaxInt
        BY <1>2, <3>1, BoundAssumption
      <4> QED BY <1>2, <3>2, <4>1, NoWrap DEF Offset
    <3>4. page * limit <= MaxOffset
      BY <1>2, <2>1, <2>3, <3>3, BoundAssumption DEF StatusOf
    <3>5. page' * limit' <= MaxOffset + MaxLimit
      <4>1. (page + 1) * limit = page * limit + limit
        BY <1>2
      <4> QED BY <1>2, <2>1, <2>3, <3>4, <4>1, BoundAssumption
    <3>6. NoTies => Cardinality(Missed') <= Cardinality(Missed)
      BY <1>1, <1>10, <2>3, <3>3, FetchMisses
    <3>7. NoTies' => Cardinality(Missed') <= gone'
      BY <1>1, <1>2, <1>4, <1>5, <2>1, <2>3, <3>6 DEF WalkInv
    <3>8. mode' = "ended" => Cardinality(due' \ seen') <= Cardinality(Missed')
      BY <1>1, <1>3, <1>10, <2>3, <3>3, EndReached, Subsets
    <3>9. WalkInv'
      BY <3>5, <3>7 DEF WalkInv
    <3>10. WalkMissesFew'
      BY <1>2, <1>4, <2>1, <3>7, <3>8 DEF WalkMissesFew
    <3> QED BY <3>9, <3>10 DEF MissInv
  <2> QED BY <1>2, <2>1, <2>2, <2>3, BoundAssumption
<1>11. ASSUME Fails PROVE MissInv'
  BY <1>11 DEF Fails, MissInv, WalkInv, WalkMissesFew
<1>12. ASSUME UNCHANGED vars PROVE MissInv'
  <2>1. Missed' = Missed /\ NoTies' = NoTies
    BY <1>12 DEF vars, list, client, Missed, Newer, NoTies
  <2> QED BY <1>1, <1>12, <2>1 DEF vars, list, client, MissInv, WalkInv, WalkMissesFew
<1> QED BY <1>6, <1>7, <1>8, <1>9, <1>10, <1>11, <1>12 DEF Next

-----------------------------------------------------------------------------
(* Pages                                                                   *)

\* What a query puts before a task.
Ahead(t, tie) == {u \in rows : Before(u, t, tie)}

\* Whatever the order of ties, a query puts every task at a place of its own,
\* counted from 0, and leaves no place empty.
LEMMA Places ==
    ASSUME TypeOK, NEW tie \in TieBreaks
    PROVE  /\ \A t \in rows : Rank(t, tie) \in 0..(Cardinality(rows) - 1)
           /\ \A k \in 0..(Cardinality(rows) - 1) : \E t \in rows : Rank(t, tie) = k
<1> DEFINE N == Cardinality(rows)
           place == [t \in rows |-> Rank(t, tie)]
<1>1. rows \subseteq Tasks /\ IsFiniteSet(rows) /\ N \in Nat
  BY Finite DEF TypeOK
<1>2. \A t \in rows : Ahead(t, tie) \subseteq rows /\ Rank(t, tie) = Cardinality(Ahead(t, tie))
  BY DEF Ahead, Rank
<1>3. \A t \in rows : created[t] \in Nat /\ tie[t] \in Nat
  <2>1. Cardinality(Tasks) \in Nat
    BY TasksAssumption, FS_CardinalityType
  <2>2. \A t \in rows : tie[t] \in 1..Cardinality(Tasks)
    BY <1>1 DEF TieBreaks
  <2> QED BY <2>1, <2>2, Finite
<1>4. \A t \in rows : t \notin Ahead(t, tie)
  BY <1>3 DEF Ahead, Before
<1>5. \A t \in rows : Rank(t, tie) \in 0..(N - 1)
  <2> TAKE t \in rows
  <2>1. Ahead(t, tie) \subseteq rows \ {t} /\ rows \ {t} \subseteq Tasks
    BY <1>1, <1>2, <1>4
  <2>2. Cardinality(Ahead(t, tie)) \in Nat /\ Cardinality(Ahead(t, tie)) <= Cardinality(rows \ {t})
    BY <2>1, Subsets
  <2>3. Cardinality(rows \ {t}) = N - 1
    BY <1>1, FS_RemoveElement
  <2> QED BY <1>1, <1>2, <2>2, <2>3
<1>6. ASSUME NEW a \in rows, NEW b \in rows, Before(a, b, tie)
      PROVE  Rank(a, tie) < Rank(b, tie)
  <2>1. Ahead(a, tie) \cup {a} \subseteq Ahead(b, tie)
    BY <1>3, <1>6 DEF Ahead, Before
  <2>2. Ahead(b, tie) \subseteq Tasks
    BY <1>1, <1>2
  <2>3. /\ Cardinality(Ahead(a, tie) \cup {a}) <= Cardinality(Ahead(b, tie))
        /\ Cardinality(Ahead(b, tie)) \in Nat
    BY <2>1, <2>2, Subsets
  <2>4. IsFiniteSet(Ahead(a, tie)) /\ Cardinality(Ahead(a, tie)) \in Nat
    BY <1>1, <1>2, Subsets
  <2>5. Cardinality(Ahead(a, tie) \cup {a}) = Cardinality(Ahead(a, tie)) + 1
    BY <1>4, <2>4, FS_AddElement
  <2> QED BY <1>2, <2>3, <2>4, <2>5
<1>7. \A a, b \in rows : Rank(a, tie) = Rank(b, tie) => a = b
  <2> SUFFICES ASSUME NEW a \in rows, NEW b \in rows, a # b
               PROVE  Rank(a, tie) # Rank(b, tie)
    OBVIOUS
  <2>1. tie[a] # tie[b]
    BY <1>1 DEF TieBreaks
  <2>2. Before(a, b, tie) \/ Before(b, a, tie)
    BY <1>3, <2>1 DEF Before
  <2> QED BY <1>1, <1>5, <1>6, <2>2
<1>8. place \in Injection(rows, 0..(N - 1))
  BY <1>5, <1>7 DEF Injection, IsInjective
<1>9. IsFiniteSet(0..(N - 1)) /\ Cardinality(0..(N - 1)) = N
  BY <1>1, FS_Interval
<1>10. place \in Surjection(rows, 0..(N - 1))
  BY <1>8, <1>9, FS_Injection
<1>11. \A k \in 0..(N - 1) : \E t \in rows : Rank(t, tie) = k
  BY <1>10 DEF Surjection
<1> QED BY <1>5, <1>11

\* A place lies on one page, and pages up to the last have a first place.
LEMMA PageNumbers ==
    ASSUME NEW c \in Nat, NEW n \in Nat, n > 0
    PROVE  /\ TotalPages(c, n) \in Nat
           /\ \A k \in 0..(c - 1) : \E p \in 1..TotalPages(c, n) :
                  (p - 1) * n <= k /\ k < (p - 1) * n + n
           /\ \A p \in 1..TotalPages(c, n) : (p - 1) * n \in 0..(c - 1)
<1> DEFINE last == (c + n - 1) \div n
<1>1. last \in Nat /\ last * n <= c + n - 1 /\ c + n - 1 < (last + 1) * n
  OBVIOUS
<1>2. TotalPages(c, n) = last
  BY DEF TotalPages
<1> HIDE DEF last
<1>3. ASSUME NEW k \in 0..(c - 1)
      PROVE  \E p \in 1..last : (p - 1) * n <= k /\ k < (p - 1) * n + n
  <2> DEFINE q == k \div n
  <2>1. q \in Nat /\ q * n <= k /\ k < (q + 1) * n
    OBVIOUS
  <2> HIDE DEF q
  <2>2. (q + 1) * n = q * n + n /\ (last + 1) * n = last * n + n
    BY <1>1, <2>1
  <2>3. ~ (last <= q)
    <3>1. SUFFICES ASSUME last <= q PROVE FALSE
      OBVIOUS
    <3>2. last * n <= q * n
      BY <1>1, <2>1, <3>1
    <3>3. last * n \in Nat /\ q * n \in Nat
      BY <1>1, <2>1
    <3> QED BY <1>1, <2>1, <2>2, <3>2, <3>3
  <2>4. q + 1 \in 1..last /\ (q + 1) - 1 = q
    BY <1>1, <2>1, <2>3
  <2> QED BY <2>1, <2>2, <2>4
<1>4. ASSUME NEW p \in 1..last PROVE (p - 1) * n \in 0..(c - 1)
  <2>1. p \in Nat /\ p - 1 \in Nat /\ p <= last
    BY <1>1
  <2>2. p * n <= last * n
    BY <1>1, <2>1
  <2>3. p * n = (p - 1) * n + n /\ (p - 1) * n \in Nat /\ last * n \in Nat
    BY <1>1, <2>1
  <2> QED BY <1>1, <2>2, <2>3
<1> QED BY <1>1, <1>2, <1>3, <1>4

\* Among the tasks of its time a task may have any place, and no other.
LEMMA PlaceBounds ==
    ASSUME TypeOK, NEW t \in rows
    PROVE  /\ Cardinality(Newer(t)) \in Nat /\ Cardinality(Peers(t)) \in Nat \ {0}
           /\ Cardinality(Newer(t)) + Cardinality(Peers(t)) <= Cardinality(rows)
           /\ \A order \in Orders :
                  /\ order[t] \in Nat
                  /\ Cardinality(Newer(t)) <= order[t]
                  /\ order[t] <= Cardinality(Newer(t)) + Cardinality(Peers(t)) - 1
<1> DEFINE both == Newer(t) \cup Peers(t)
<1>1. /\ rows \subseteq Tasks /\ both \subseteq rows /\ Newer(t) \cap Peers(t) = {} /\ t \in Peers(t)
      /\ Newer(t) \subseteq Tasks /\ Peers(t) \subseteq Tasks /\ both \subseteq Tasks
  BY Finite DEF Newer, Peers, TypeOK
<1>2. /\ IsFiniteSet(Newer(t)) /\ Cardinality(Newer(t)) \in Nat
      /\ IsFiniteSet(Peers(t)) /\ Cardinality(Peers(t)) \in Nat
      /\ IsFiniteSet(both) /\ Cardinality(both) \in Nat
      /\ Cardinality(rows) \in Nat /\ Cardinality(both) <= Cardinality(rows)
  BY <1>1, Subsets
<1>3. Cardinality(both) = Cardinality(Newer(t)) + Cardinality(Peers(t))
  <2>1. Cardinality(both) = Cardinality(Newer(t)) + Cardinality(Peers(t)) - Cardinality(Newer(t) \cap Peers(t))
    BY <1>2, FS_Union
  <2>2. Cardinality(Newer(t) \cap Peers(t)) = 0
    BY <1>1, FS_EmptySet
  <2> HIDE DEF both
  <2> QED BY <1>2, <2>1, <2>2
<1>4. Cardinality(Peers(t)) # 0
  BY <1>1, <1>2, FS_EmptySet
<1>5. ASSUME NEW tie \in TieBreaks
      PROVE  /\ Rank(t, tie) \in Nat /\ Cardinality(Newer(t)) <= Rank(t, tie)
             /\ Rank(t, tie) <= Cardinality(both) - 1
  <2>1. tie[t] \in Nat
    BY <1>1, TasksAssumption, FS_CardinalityType DEF TieBreaks
  <2>2. Newer(t) \subseteq Ahead(t, tie) /\ Ahead(t, tie) \subseteq both \ {t}
    BY <2>1, Finite DEF Ahead, Before, Newer, Peers
  <2>3. Ahead(t, tie) \subseteq Tasks /\ both \ {t} \subseteq Tasks
    BY <1>1, <2>2
  <2>4. /\ Cardinality(Newer(t)) <= Cardinality(Ahead(t, tie)) /\ Cardinality(Ahead(t, tie)) \in Nat
        /\ Cardinality(Ahead(t, tie)) <= Cardinality(both \ {t})
    BY <2>2, <2>3, Subsets
  <2>5. Cardinality(both \ {t}) = Cardinality(both) - 1
    BY <1>1, <1>2, FS_RemoveElement
  <2> QED BY <2>4, <2>5 DEF Rank, Ahead
<1>6. ASSUME NEW order \in Orders PROVE \E tie \in TieBreaks : order[t] = Rank(t, tie)
  BY DEF Orders
<1> HIDE DEF both
<1> QED BY <1>2, <1>3, <1>4, <1>5, <1>6

\* Every query puts a row at every place.
LEMMA OrderFull ==
    ASSUME TypeOK, NEW order \in Orders, NEW k \in 0..(Cardinality(rows) - 1)
    PROVE  \E t \in rows : order[t] = k
<1> PICK tie \in TieBreaks : order = [t \in rows |-> Rank(t, tie)]
  BY DEF Orders
<1> QED BY Places

\* The page of a place is the place divided by the size of a page, and a later
\* place is on no earlier page.
LEMMA PageOfPlace ==
    ASSUME NEW m \in Nat, m > 0
    PROVE  /\ \A k \in Nat, p \in Nat \ {0} :
                  k \in ((p - 1) * m)..((p - 1) * m + m - 1) <=> k \div m + 1 = p
           /\ \A k \in Nat : k \div m \in Nat
           /\ \A j, k \in Nat : j <= k => j \div m <= k \div m
<1>1. \A k \in Nat : /\ k \div m \in Nat /\ (k \div m) * m \in Nat
                    /\ (k \div m) * m <= k /\ k < (k \div m) * m + m
  <2> TAKE k \in Nat
  <2> DEFINE q == k \div m
  <2>1. q \in Nat /\ q * m <= k /\ k < (q + 1) * m
    OBVIOUS
  <2> HIDE DEF q
  <2>2. (q + 1) * m = q * m + m /\ q * m \in Nat
    BY <2>1
  <2> QED BY <2>1, <2>2 DEF q
<1>2. \A a, b \in Nat : a < b => a * m + m <= b * m
  <2> TAKE a \in Nat, b \in Nat
  <2> HAVE a < b
  <2>1. a + 1 <= b /\ (a + 1) * m = a * m + m
    OBVIOUS
  <2>2. (a + 1) * m <= b * m
    BY <2>1
  <2> QED BY <2>1, <2>2
<1>3. ASSUME NEW k \in Nat, NEW q \in Nat, q * m \in Nat, q * m <= k, k < q * m + m
      PROVE  k \div m = q
  <2> DEFINE d == k \div m
  <2>1. d \in Nat /\ d * m \in Nat /\ d * m <= k /\ k < d * m + m
    BY <1>1
  <2> HIDE DEF d
  <2>2. d < q => d * m + m <= q * m
    BY <1>2, <2>1
  <2>3. q < d => q * m + m <= d * m
    BY <1>2, <2>1
  <2>4. ~ (d < q) /\ ~ (q < d)
    BY <1>3, <2>1, <2>2, <2>3
  <2> QED BY <2>1, <2>4 DEF d
<1>4. ASSUME NEW k \in Nat, NEW p \in Nat \ {0}
      PROVE  k \in ((p - 1) * m)..((p - 1) * m + m - 1) <=> k \div m + 1 = p
  <2> DEFINE o == (p - 1) * m
             d == k \div m
  <2>1. p - 1 \in Nat /\ o \in Nat /\ d \in Nat
    BY <1>1
  <2>2. k \in o..(o + m - 1) => d = p - 1
    BY <1>3, <2>1
  <2>3. d = p - 1 => k \in o..(o + m - 1)
    BY <1>1, <2>1
  <2> HIDE DEF o, d
  <2>4. k \in o..(o + m - 1) <=> d + 1 = p
    BY <2>1, <2>2, <2>3
  <2> QED BY <2>4 DEF o, d
<1>5. ASSUME NEW j \in Nat, NEW k \in Nat, j <= k PROVE j \div m <= k \div m
  <2> DEFINE d == j \div m
             e == k \div m
  <2>1. /\ d \in Nat /\ d * m \in Nat /\ d * m <= j
        /\ e \in Nat /\ e * m \in Nat /\ k < e * m + m
    BY <1>1
  <2> HIDE DEF d, e
  <2>2. e < d => e * m + m <= d * m
    BY <1>2, <2>1
  <2>3. d <= e
    BY <1>5, <2>1, <2>2
  <2> QED BY <2>3 DEF d, e
<1> QED BY <1>1, <1>4, <1>5

\* A page that total_pages counts has an offset below the number of rows, which
\* is no int32 only if that number is none.
LEMMA CountedPage ==
    ASSUME TypeOK, Cardinality(rows) <= MaxInt, NEW n \in 1..MaxInt,
           NEW p \in 1..TotalPages(Cardinality(rows), n)
    PROVE  LET o == (p - 1) * Clamped(n) IN
           /\ p \in Nat \ {0} /\ Clamped(n) \in Nat /\ Clamped(n) > 0
           /\ o \in 0..(Cardinality(rows) - 1)
           /\ Offset(p, n) = o
           /\ StatusOf(p, n) = IF o <= MaxOffset THEN 200 ELSE 422
<1> DEFINE N == Cardinality(rows)
           m == Clamped(n)
           o == (p - 1) * m
<1>1. /\ N \in Nat /\ n \in Nat /\ n > 0 /\ m \in Nat /\ m > 0 /\ m <= n
      /\ MaxInt \in Nat /\ MaxOffset \in Nat /\ N <= MaxInt
  BY Finite, BoundAssumption DEF Clamped
<1>2. (p - 1) * n \in 0..(N - 1) /\ TotalPages(N, n) \in Nat
  BY <1>1, PageNumbers
<1>3. p \in Nat \ {0} /\ p - 1 \in Nat
  BY <1>2
<1> HIDE DEF N, m
<1>4. (p - 1) * m <= (p - 1) * n /\ o \in Nat
  BY <1>1, <1>3
<1>5. o \in 0..(N - 1) /\ o <= MaxInt
  BY <1>1, <1>2, <1>4
<1>6. Offset(p, n) = o
  BY <1>4, <1>5, NoWrap DEF Offset, m
<1> HIDE DEF o
<1>7. StatusOf(p, n) = IF o <= MaxOffset THEN 200 ELSE 422
  BY <1>1, <1>4, <1>6 DEF StatusOf
<1> QED BY <1>1, <1>3, <1>5, <1>6, <1>7 DEF N, m, o

\* With a limit the usecase does not clamp, total_pages reaches every task.
LEMMA LastCounted ==
    ASSUME TypeOK, NEW n \in 1..MaxInt, n <= MaxLimit, NEW t \in rows
    PROVE  LastPage(t, n) \in 1..TotalPages(Cardinality(rows), n)
<1> DEFINE N == Cardinality(rows)
           k == Cardinality(Newer(t)) + Cardinality(Peers(t)) - 1
           pages == 1..TotalPages(N, n)
<1>1. N \in Nat /\ n \in Nat /\ n > 0 /\ Clamped(n) = n
  BY Finite, BoundAssumption DEF Clamped
<1>2. k \in 0..(N - 1) /\ k \in Nat
  BY <1>1, PlaceBounds
<1> HIDE DEF N, k
<1>3. TotalPages(N, n) \in Nat
  BY <1>1, PageNumbers
<1>4. PICK p \in pages : (p - 1) * n <= k /\ k < (p - 1) * n + n
  BY <1>1, <1>2, PageNumbers
<1>5. p \in Nat \ {0} /\ (p - 1) * n \in Nat
  BY <1>1, <1>3
<1> DEFINE o == (p - 1) * n
<1>6. k \in o..(o + n - 1)
  <2>1. o <= k /\ k < o + n /\ o \in Nat
    BY <1>4, <1>5
  <2> HIDE DEF o
  <2> QED BY <1>1, <1>2, <2>1
<1>7. k \div n + 1 = p
  BY <1>1, <1>2, <1>5, <1>6, PageOfPlace
<1>8. LastPage(t, n) = p
  BY <1>1, <1>7 DEF LastPage, k
<1> QED BY <1>8 DEF N

\* On a page within the cap lie the tasks of its places, and no others.
LEMMA CountedServed ==
    ASSUME TypeOK, Cardinality(rows) <= MaxInt, NEW n \in 1..MaxInt,
           NEW p \in 1..TotalPages(Cardinality(rows), n), NEW order \in Orders
    PROVE  LET within == (p - 1) * Clamped(n) <= MaxOffset
               served == PageAt(p, n, order)
           IN  /\ served = {t \in rows : within /\ order[t] \div Clamped(n) + 1 = p}
               /\ within => served # {}
<1> DEFINE m == Clamped(n)
           o == (p - 1) * m
           within == o <= MaxOffset
           served == PageAt(p, n, order)
<1>1. /\ p \in Nat \ {0} /\ m \in Nat /\ m > 0
      /\ o \in 0..(Cardinality(rows) - 1)
      /\ Offset(p, n) = o
      /\ StatusOf(p, n) = IF within THEN 200 ELSE 422
  BY CountedPage
<1>2. \A t \in rows : order[t] \in Nat
  BY PlaceBounds
<1>3. \A t \in rows : order[t] \in o..(o + m - 1) <=> order[t] \div m + 1 = p
  BY <1>1, <1>2, PageOfPlace
<1>4. served = IF within THEN {t \in rows : order[t] \in o..(o + m - 1)} ELSE {}
  BY <1>1 DEF PageAt, Items
<1>5. PICK t \in rows : order[t] = o
  BY <1>1, OrderFull
<1>6. o \in o..(o + m - 1)
  <2>1. o \in Nat
    BY <1>1, Finite
  <2> HIDE DEF o
  <2> QED BY <1>1, <2>1
<1> HIDE DEF o, m, served
<1>7. served = {u \in rows : within /\ order[u] \div m + 1 = p}
  BY <1>3, <1>4
<1>8. within => served # {}
  BY <1>4, <1>5, <1>6
<1> QED BY <1>7, <1>8 DEF o, m, served

\* What the pages have to do with the places.
LEMMA ServedOnce ==
    ASSUME TypeOK
    PROVE  PagesServeOnce
<1> SUFFICES ASSUME Cardinality(rows) <= MaxInt, NEW n \in 1..MaxInt,
                    NEW p \in 1..TotalPages(Cardinality(rows), n)
             PROVE  LET within == (p - 1) * Clamped(n) <= MaxOffset
                        may    == {t \in rows : p \in FirstPage(t, n)..LastPage(t, n)}
                        must   == {t \in may : within /\ FirstPage(t, n) = LastPage(t, n)}
                    IN
                    /\ StatusOf(p, n) = IF within THEN 200 ELSE 422
                    /\ \A order \in Orders :
                           LET served == PageAt(p, n, order) IN
                           /\ must \subseteq served /\ served \subseteq may
                           /\ within => served # {}
  BY LastCounted DEF PagesServeOnce
<1> DEFINE m == Clamped(n)
           within == (p - 1) * m <= MaxOffset
           PageNo(k) == k \div m + 1
<1>1. StatusOf(p, n) = IF within THEN 200 ELSE 422
  BY CountedPage
<1>2. p \in Nat /\ m \in Nat /\ m > 0
  BY CountedPage
<1>3. ASSUME NEW order \in Orders, NEW t \in rows
      PROVE  /\ FirstPage(t, n) \in Nat /\ PageNo(order[t]) \in Nat /\ LastPage(t, n) \in Nat
             /\ FirstPage(t, n) <= PageNo(order[t]) /\ PageNo(order[t]) <= LastPage(t, n)
  <2> DEFINE i == Cardinality(Newer(t))
             j == order[t]
             k == Cardinality(Newer(t)) + Cardinality(Peers(t)) - 1
  <2>1. i \in Nat /\ j \in Nat /\ k \in Nat /\ i <= j /\ j <= k
    BY PlaceBounds
  <2> HIDE DEF i, j, k
  <2>2. /\ i \div m \in Nat /\ j \div m \in Nat /\ k \div m \in Nat
        /\ i \div m <= j \div m /\ j \div m <= k \div m
    BY <1>2, <2>1, PageOfPlace
  <2>3. FirstPage(t, n) = i \div m + 1 /\ LastPage(t, n) = k \div m + 1
    BY DEF FirstPage, LastPage, i, k
  <2> QED BY <2>2, <2>3 DEF j
<1>4. ASSUME NEW order \in Orders
      PROVE  LET served == PageAt(p, n, order) IN
             /\ served = {t \in rows : within /\ PageNo(order[t]) = p}
             /\ within => served # {}
  BY CountedServed
<1> HIDE DEF PageNo, within
<1>5. ASSUME NEW order \in Orders, NEW t \in PageAt(p, n, order)
      PROVE  t \in rows /\ p \in FirstPage(t, n)..LastPage(t, n)
  BY <1>2, <1>3, <1>4
<1>6. ASSUME NEW order \in Orders, NEW t \in rows, p \in FirstPage(t, n)..LastPage(t, n),
             within, FirstPage(t, n) = LastPage(t, n)
      PROVE  t \in PageAt(p, n, order)
  <2>1. PageNo(order[t]) = p
    BY <1>2, <1>3, <1>6
  <2> QED BY <1>4, <1>6, <2>1
<1> QED BY <1>1, <1>4, <1>5, <1>6 DEF within

-----------------------------------------------------------------------------
(* The theorems                                                            *)

\* The state of GET /tasks keeps its shape.
THEOREM TypeCorrect == Spec => []TypeOK
  BY Invariance, PTL DEF Inv

\* int32 or not, no page within the cap is refused or fails for its number.
THEOREM CapServed == Spec => []WithinCapServed
<1>1. Inv => WithinCapServed
  BY Served DEF Inv, TypeOK, WithinCapServed
<1> QED BY <1>1, Invariance, PTL

\* Whatever comes and goes, a client that walks through all the pages with a
\* limit of at most MaxLimit misses no more tasks than vanished on its way.
THEOREM FewMissed == Spec => []WalkMissesFew
<1>1. Init => MissInv
  BY DEF Init, MissInv, WalkInv, WalkMissesFew
<1>2. Inv /\ Inv' /\ MissInv /\ [Next]_vars => MissInv'
  BY StepMisses
<1>3. MissInv => WalkMissesFew
  BY DEF MissInv
<1> QED BY <1>1, <1>2, <1>3, Invariance, PTL DEF Spec

\* For any number of tasks and any order of ties: every page that total_pages
\* counts and the cap lets through serves the tasks of its places, no page
\* serves a task that has no place there, and past the cap all is refused.
THEOREM ServedByPlace == Spec => []PagesServeOnce
  BY ServedOnce, TypeCorrect, PTL

\* What is left of the cap: a page beyond it is served only if the offset is
\* no int32.
CapBrokenByWrapOnly ==
    mode \in {"answered", "ended"} /\ status = 200 =>
        \/ (page - 1) * Clamped(limit) <= MaxOffset
        \/ (page - 1) * Clamped(limit) > MaxInt

\* The comparison with maxOffset is right, its operand may not be
\* (TaskUsecase.List): with numbers of any width only overflow gets past it.
THEOREM CapHolds == Spec => []CapBrokenByWrapOnly
<1>1. Inv => CapBrokenByWrapOnly
  <2> SUFFICES ASSUME Inv, mode \in {"answered", "ended"}, status = 200,
                      (page - 1) * Clamped(limit) <= MaxInt
               PROVE  (page - 1) * Clamped(limit) <= MaxOffset
    BY BoundAssumption DEF Inv, TypeOK, CapBrokenByWrapOnly, Clamped
  <2> DEFINE o == (page - 1) * Clamped(limit)
  <2>1. Clamped(limit) \in Nat /\ page - 1 \in Nat
    BY BoundAssumption DEF Inv, TypeOK, Clamped
  <2>2. o \in Nat /\ o <= MaxInt
    BY <2>1
  <2>3. Offset(page, limit) = o
    BY <2>2, NoWrap DEF Offset
  <2>4. ~(Offset(page, limit) > MaxOffset)
    BY DEF Inv, StatusOf
  <2> HIDE DEF o
  <2>5. o <= MaxOffset
    BY <2>2, <2>3, <2>4, BoundAssumption
  <2> QED
    BY <2>5 DEF o
<1> QED BY <1>1, Invariance, PTL

=============================================================================

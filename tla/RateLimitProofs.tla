-------------------------- MODULE RateLimitProofs ---------------------------
(***************************************************************************)
(* Proofs about the rate limiter, for any number of requests and           *)
(* addresses, any rate and any unit of time.                               *)
(***************************************************************************)
EXTENDS RateLimit, TLAPS

-----------------------------------------------------------------------------
(* The inductive invariant                                                 *)

\* Every request past the map holds the one bucket of its address.
MapInv ==
    /\ \A r \in Requests :
           pc[r] # "get" => client[r] \in Addresses /\ mine[r] = limiters[client[r]]
                            /\ mine[r] \in Requests
    /\ \A r \in Requests : pc[r] = "allow" => at[r] \in 0..MaxTime
    /\ \A a \in Addresses :
           limiters[a] # NULL => client[limiters[a]] = a /\ pc[limiters[a]] # "get"
    /\ \A a \in Addresses :
           IF limiters[a] = NULL THEN granted[a] = <<>> ELSE bucket[limiters[a]] \in Bucket

\* The bound of NeverTooMany for one sequence of grants.
Bounded(grants) ==
    \A j \in 1..Len(grants) : \A i \in 1..j :
        (j - i + 1) * Cost <= Burst + Gained(grants[i], grants[j])

\* What the grants since the i-th have cost and what is left of the bucket.
Spent(b, grants, i) == b.tokens + (Len(grants) - i + 1) * Cost

\* What the bucket could have held in that time.
Supply(grants, i) == Burst + Gained(grants[i], grants[Len(grants)])

\* The bucket of an address and its grants: from no grant on was more spent
\* than supplied, from some grant on all of it is accounted for.
Balanced(b, grants) ==
    /\ Bounded(grants)
    /\ \A i \in 1..Len(grants) : Spent(b, grants, i) <= Supply(grants, i)
    /\ IF grants = <<>> THEN b.tokens = Burst
       ELSE /\ b.last = grants[Len(grants)].at
            /\ \E i \in 1..Len(grants) : Spent(b, grants, i) >= Supply(grants, i)

\* The bucket of every address that has one is balanced.
BalanceInv ==
    \A a \in Addresses : limiters[a] # NULL => Balanced(bucket[limiters[a]], granted[a])

Inv == TypeOK /\ MapInv /\ BalanceInv

-----------------------------------------------------------------------------
(* Arithmetic                                                              *)

\* The cost of a token and the burst in units.
LEMMA Units == Cost \in Nat \ {0} /\ Burst \in Nat
  BY RateAssumption DEF Cost, Burst

\* A bucket for at least one request a minute holds at least one token.
LEMMA OneToken == PerMinute > 0 => Burst >= Cost
  BY RateAssumption DEF Cost, Burst

\* Time that runs forward refills, and time that runs backwards does not.
LEMMA Refill ==
    ASSUME NEW d \in Int
    PROVE  PerMinute * AtLeast(0, d) \in Nat
  BY RateAssumption DEF AtLeast

\* The one fact about products that the rest needs.
LEMMA Times == ASSUME NEW x \in Int, NEW y \in Int PROVE PerMinute * (x + y) = PerMinute * x + PerMinute * y
  BY RateAssumption

\* A grant at t after grant h adds what time added to the bucket.
LEMMA GainedOnwards ==
    ASSUME NEW g \in Grant, NEW h \in Grant, NEW t \in 0..MaxTime
    PROVE  Gained(g, [at |-> t, back |-> h.back + AtLeast(0, h.at - t)])
               = Gained(g, h) + PerMinute * AtLeast(0, t - h.at)
  <1> DEFINE next == [at |-> t, back |-> h.back + AtLeast(0, h.at - t)]
             x    == (h.at - g.at) + (h.back - g.back)
             y    == AtLeast(0, t - h.at)
  <1>1. g.at \in Int /\ g.back \in Int /\ h.at \in Int /\ h.back \in Int /\ t \in Int
    BY RateAssumption DEF Grant
  <1>2. x \in Int /\ y \in Int /\ (next.at - g.at) + (next.back - g.back) = x + y
    BY <1>1 DEF AtLeast
  <1>3. Gained(g, next) = PerMinute * (x + y)
    BY <1>2 DEF Gained
  <1>4. Gained(g, h) = PerMinute * x
    BY DEF Gained
  <1> QED
    BY <1>2, <1>3, <1>4, Times

\* Between a grant and itself nothing is gained.
LEMMA GainedNothing == ASSUME NEW g \in Grant PROVE Gained(g, g) = 0
  BY RateAssumption DEF Gained, Grant

\* What is gained may be negative, but is a number.
LEMMA GainedInt == ASSUME NEW g \in Grant, NEW h \in Grant PROVE Gained(g, h) \in Int
  <1>1. (h.at - g.at) + (h.back - g.back) \in Int
    BY RateAssumption DEF Grant
  <1> QED
    BY <1>1, RateAssumption DEF Gained

\* One more grant costs one more token.
LEMMA OneMore ==
    ASSUME NEW n \in Int, NEW i \in Int
    PROVE  /\ (n - i + 1) * Cost \in Int
           /\ ((n + 1) - i + 1) * Cost = (n - i + 1) * Cost + Cost
           /\ (i - i + 1) * Cost = Cost
  <1>1. Cost \in Int
    BY Units
  <1> HIDE DEF Cost
  <1>2. ASSUME NEW k \in Int PROVE k * Cost \in Int /\ (k + 1) * Cost = k * Cost + Cost
    BY <1>1
  <1>3. n - i + 1 \in Int /\ (n + 1) - i + 1 = (n - i + 1) + 1 /\ i - i + 1 = 1
    OBVIOUS
  <1>4. 1 * Cost = Cost
    BY <1>1
  <1> QED
    BY <1>2, <1>3, <1>4

\* The cost of any number of grants is a number.
LEMMA CostOf == ASSUME NEW k \in Int PROVE k * Cost \in Int
  BY Units

-----------------------------------------------------------------------------
(* One bucket                                                              *)

\* How far times have run backwards is a number.
LEMMA BackNat ==
    ASSUME NEW grants \in Seq(Grant), NEW t \in 0..MaxTime
    PROVE  [at |-> t, back |-> Back(grants, t)] \in Grant
  <1>1. CASE grants = <<>>
    BY <1>1 DEF Back, Grant
  <1>2. CASE grants # <<>>
    <2>1. Len(grants) \in Nat \ {0} /\ grants[Len(grants)] \in Grant
      BY <1>2
    <2>2. AtLeast(0, grants[Len(grants)].at - t) \in Nat
      BY <2>1, RateAssumption DEF Grant, AtLeast
    <2> QED
      BY <2>1, <2>2 DEF Back, Grant
  <1> QED
    BY <1>1, <1>2

\* A bucket is never overfull, and never loses what it has by time.
LEMMA RefilledRange ==
    ASSUME NEW b \in Bucket, NEW t \in 0..MaxTime
    PROVE  /\ Refilled(b, t) \in 0..Burst
           /\ Refilled(b, t) = Burst \/ Refilled(b, t) = b.tokens + PerMinute * AtLeast(0, t - b.last)
           /\ Refilled(b, t) <= b.tokens + PerMinute * AtLeast(0, t - b.last)
           /\ Refilled(b, t) >= b.tokens
  <1>1. b.tokens \in 0..Burst /\ t - b.last \in Int
    BY RateAssumption DEF Bucket
  <1>2. PerMinute * AtLeast(0, t - b.last) \in Nat
    BY <1>1, Refill
  <1> DEFINE y == PerMinute * AtLeast(0, t - b.last)
  <1>3. Refilled(b, t) = AtMost(Burst, b.tokens + y)
    BY DEF Refilled
  <1> HIDE DEF y
  <1>4. y \in Nat
    BY <1>2 DEF y
  <1>5. /\ AtMost(Burst, b.tokens + y) \in 0..Burst
        /\ AtMost(Burst, b.tokens + y) \in {Burst, b.tokens + y}
        /\ AtMost(Burst, b.tokens + y) <= b.tokens + y
        /\ AtMost(Burst, b.tokens + y) >= b.tokens
    BY <1>1, <1>4, Units DEF AtMost
  <1> QED
    BY <1>3, <1>5 DEF y

\* A new bucket is balanced.
LEMMA FullBalanced == Full \in Bucket /\ Balanced(Full, <<>>)
  <1>1. Full \in Bucket
    BY Units, RateAssumption DEF Full, Bucket
  <1> QED
    BY <1>1 DEF Balanced, Bounded, Full

\* The first grant of a bucket.
LEMMA FirstGrant ==
    ASSUME NEW b \in Bucket, NEW t \in 0..MaxTime, Balanced(b, <<>>), Refilled(b, t) - Cost >= 0
    PROVE  Balanced([tokens |-> Refilled(b, t) - Cost, last |-> t],
                    Append(<<>>, [at |-> t, back |-> Back(<<>>, t)]))
  <1> DEFINE next == [at |-> t, back |-> Back(<<>>, t)]
             new  == Append(<<>>, next)
             c    == [tokens |-> Refilled(b, t) - Cost, last |-> t]
  <1>1. next \in Grant
    BY BackNat, <<>> \in Seq(Grant)
  <1>2. Len(new) = 1 /\ new[1] = next /\ new # <<>>
    OBVIOUS
  <1>3. Refilled(b, t) = Burst
    <2>1. b.tokens = Burst
      BY DEF Balanced
    <2> QED
      BY <2>1, RefilledRange, Units
  <1>4. Gained(next, next) = 0
    BY <1>1, GainedNothing
  <1>5. (1 - 1 + 1) * Cost = Cost
    BY OneMore
  <1> HIDE DEF next, new, c
  <1>6. c.tokens = Burst - Cost /\ c.last = t /\ next.at = t
    BY <1>3 DEF c, next
  <1>7. Cost <= Burst + 0
    BY <1>3, Units
  <1>8. Bounded(new)
    BY <1>2, <1>4, <1>5, <1>7 DEF Bounded
  <1>9. Spent(c, new, 1) = Burst /\ Supply(new, 1) = Burst
    BY <1>2, <1>4, <1>5, <1>6, Units DEF Spent, Supply
  <1> QED
    BY <1>2, <1>6, <1>8, <1>9, Units DEF Balanced, new, c, next

\* A later grant: all sums move by what time refilled and one token.
LEMMA LaterGrant ==
    ASSUME NEW b \in Bucket, NEW grants \in Seq(Grant), NEW t \in 0..MaxTime,
           grants # <<>>, Balanced(b, grants), Refilled(b, t) - Cost >= 0
    PROVE  Balanced([tokens |-> Refilled(b, t) - Cost, last |-> t],
                    Append(grants, [at |-> t, back |-> Back(grants, t)]))
  <1> DEFINE n    == Len(grants)
             next == [at |-> t, back |-> Back(grants, t)]
             new  == Append(grants, next)
             c    == [tokens |-> Refilled(b, t) - Cost, last |-> t]
             y    == PerMinute * AtLeast(0, t - b.last)
             R    == Refilled(b, t)
  <1>1. n \in Nat \ {0} /\ grants[n] \in Grant /\ b.last = grants[n].at
    BY DEF Balanced
  <1>2. next \in Grant /\ next.at = t /\ next = [at |-> t, back |-> grants[n].back + AtLeast(0, grants[n].at - t)]
    BY <1>1, BackNat DEF Back
  <1>3. Len(new) = n + 1 /\ new[n + 1] = next /\ \A i \in 1..n : new[i] = grants[i]
    BY <1>1
  <1>4. y \in Nat /\ R \in Nat /\ R <= b.tokens + y /\ R <= Burst
        /\ (R = Burst \/ R = b.tokens + y) /\ b.tokens \in Nat
    <2>1. b.last \in 0..MaxTime /\ b.tokens \in 0..Burst
      BY DEF Bucket
    <2>2. t - b.last \in Int
      BY <2>1, RateAssumption
    <2>3. y \in Nat
      BY <2>2, Refill
    <2>4. R \in 0..Burst /\ R <= b.tokens + y /\ (R = Burst \/ R = b.tokens + y)
      BY RefilledRange
    <2> QED
      BY <2>1, <2>3, <2>4, Units
  <1>5. c.tokens = R - Cost /\ c.last = t
    OBVIOUS
  <1>6. Gained(next, next) = 0
    BY <1>2, GainedNothing
  <1>7. \A i \in 1..n : grants[i] \in Grant
    OBVIOUS
  <1>8. \A i \in 1..n : Gained(grants[i], next) = Gained(grants[i], grants[n]) + y
    BY <1>1, <1>2, <1>7, GainedOnwards
  <1>9. \A i \in 1..n : Gained(grants[i], grants[n]) \in Int
    BY <1>1, <1>7, GainedInt
  <1> HIDE DEF n, next, new, c, y, R
  <1>10. ASSUME NEW i PROVE Spent(c, new, i) = (R - Cost) + ((n + 1) - i + 1) * Cost
    <2>1. Spent(c, new, i) = c.tokens + (Len(new) - i + 1) * Cost
      BY Zenon DEF Spent
    <2>2. Len(new) = n + 1
      BY <1>3
    <2>3. c.tokens = R - Cost
      BY <1>5
    <2> QED
      BY <2>1, <2>2, <2>3
  <1>11. ASSUME NEW i \in 1..n
         PROVE  /\ Supply(new, i) = Supply(grants, i) + y /\ Supply(grants, i) \in Int
                /\ Spent(c, new, i) = Spent(b, grants, i) - b.tokens + R
                /\ Spent(b, grants, i) \in Int
                /\ Spent(c, new, i) = (R - Cost) + ((n + 1) - i + 1) * Cost
                /\ Supply(new, i) = Burst + Gained(new[i], new[n + 1])
    <2>1. Supply(grants, i) = Burst + Gained(grants[i], grants[n])
      BY DEF Supply, n
    <2>2. Supply(new, i) = Burst + Gained(grants[i], next)
      BY <1>3, <1>1 DEF Supply
    <2>3. Spent(b, grants, i) = b.tokens + (n - i + 1) * Cost
      BY DEF Spent, n
    <2>4. Spent(c, new, i) = (R - Cost) + ((n + 1) - i + 1) * Cost
      BY <1>10
    <2>5. n \in Int /\ i \in Int
      BY <1>1
    <2>6. (n - i + 1) * Cost \in Int /\ ((n + 1) - i + 1) * Cost = (n - i + 1) * Cost + Cost
      BY <2>5, OneMore
    <2>7. Gained(grants[i], next) = Gained(grants[i], grants[n]) + y
          /\ Gained(grants[i], grants[n]) \in Int
      BY <1>8, <1>9
    <2>8. Supply(new, i) = Supply(grants, i) + y /\ Supply(grants, i) \in Int
      BY <2>1, <2>2, <2>7, <1>4, Units
    <2>9. Spent(c, new, i) = Spent(b, grants, i) - b.tokens + R /\ Spent(b, grants, i) \in Int
      BY <2>3, <2>4, <2>6, <1>4, Units
    <2> QED
      BY <2>2, <2>4, <2>8, <2>9, <1>3
  <1>12. Spent(c, new, n + 1) = R /\ Supply(new, n + 1) = Burst
    <2>1. ((n + 1) - (n + 1) + 1) * Cost = Cost
      BY <1>1, OneMore
    <2>2. Spent(c, new, n + 1) = (R - Cost) + ((n + 1) - (n + 1) + 1) * Cost
      BY <1>10
    <2>3. Supply(new, n + 1) = Burst + Gained(next, next)
      BY <1>3 DEF Supply
    <2> QED
      BY <2>1, <2>2, <2>3, <1>4, <1>6, Units
  <1>13. \A i \in 1..(n + 1) : Spent(c, new, i) <= Supply(new, i)
    <2>1. ASSUME NEW i \in 1..n PROVE Spent(c, new, i) <= Supply(new, i)
      <3>1. Spent(b, grants, i) <= Supply(grants, i)
        BY DEF Balanced, n
      <3> QED
        BY <1>11, <3>1, <1>4
    <2>2. Spent(c, new, n + 1) <= Supply(new, n + 1)
      BY <1>12, <1>4, Units
    <2>3. \A i \in 1..(n + 1) : i \in 1..n \/ i = n + 1
      BY <1>1
    <2> QED
      BY <2>1, <2>2, <2>3
  <1>14. Bounded(new)
    <2> DEFINE Room(i, j) == (j - i + 1) * Cost <= Burst + Gained(new[i], new[j])
    <2>1. ASSUME NEW j \in 1..n, NEW i \in 1..j PROVE Room(i, j)
      <3>1. i \in 1..n /\ new[i] = grants[i] /\ new[j] = grants[j]
        BY <1>1, <1>3
      <3>2. (j - i + 1) * Cost <= Burst + Gained(grants[i], grants[j])
        BY DEF Balanced, Bounded, n
      <3> QED
        BY <3>1, <3>2
    <2>2. ASSUME NEW i \in 1..(n + 1) PROVE Room(i, n + 1)
      <3>1. Spent(c, new, i) <= Supply(new, i)
        BY <1>13
      <3>2. Spent(c, new, i) = (R - Cost) + ((n + 1) - i + 1) * Cost
        BY <1>10
      <3>3. Supply(new, i) = Burst + Gained(new[i], new[n + 1])
        BY <1>3 DEF Supply
      <3>4. R - Cost \in Nat
        BY <1>4, Units DEF R
      <3>5. ((n + 1) - i + 1) * Cost \in Int
        <4>1. (n + 1) - i + 1 \in Int
          BY <1>1
        <4> QED
          BY <4>1, CostOf
      <3>6. Gained(new[i], new[n + 1]) \in Int
        <4>1. new[i] \in Grant /\ new[n + 1] \in Grant
          BY <1>1, <1>2, <1>3, <1>7
        <4> QED
          BY <4>1, GainedInt
      <3> QED
        BY <3>1, <3>2, <3>3, <3>4, <3>5, <3>6, Units
    <2> HIDE DEF Room
    <2>3. \A j \in 1..(n + 1) : \A i \in 1..j : Room(i, j)
      <3>1. \A j \in 1..(n + 1) : j \in 1..n \/ j = n + 1
        BY <1>1
      <3> QED
        BY <2>1, <2>2, <3>1
    <2> QED
      BY <1>3, <2>3 DEF Bounded, Room
  <1>15. \E i \in 1..(n + 1) : Spent(c, new, i) >= Supply(new, i)
    <2>1. CASE R = Burst
      <3>1. n + 1 \in 1..(n + 1)
        BY <1>1
      <3> QED
        BY <1>12, <2>1, <3>1, Units
    <2>2. CASE R = b.tokens + y
      <3>1. PICK i \in 1..n : Spent(b, grants, i) >= Supply(grants, i)
        BY DEF Balanced, n
      <3>2. Spent(c, new, i) >= Supply(new, i)
        BY <3>1, <1>11, <1>4, <2>2
      <3>3. i \in 1..(n + 1)
        BY <1>1
      <3> QED
        BY <3>2, <3>3
    <2> QED
      BY <1>4, <2>1, <2>2
  <1>16. new # <<>> /\ c.last = new[Len(new)].at
    BY <1>1, <1>2, <1>3, <1>5
  <1> QED
    BY <1>3, <1>13, <1>14, <1>15, <1>16 DEF Balanced, new, c, next, R

\* Taking a token keeps the balance.
LEMMA GrantBalanced ==
    ASSUME NEW b \in Bucket, NEW grants \in Seq(Grant), NEW t \in 0..MaxTime,
           Balanced(b, grants), Refilled(b, t) - Cost >= 0
    PROVE  /\ [tokens |-> Refilled(b, t) - Cost, last |-> t] \in Bucket
           /\ Balanced([tokens |-> Refilled(b, t) - Cost, last |-> t],
                       Append(grants, [at |-> t, back |-> Back(grants, t)]))
  <1>1. [tokens |-> Refilled(b, t) - Cost, last |-> t] \in Bucket
    <2>1. Refilled(b, t) - Cost \in 0..Burst
      BY RefilledRange, Units
    <2> QED
      BY <2>1 DEF Bucket
  <1> QED
    BY <1>1, FirstGrant, LaterGrant

\* Without a token the bound leaves no room for one more grant.
LEMMA RefusalForced ==
    ASSUME NEW b \in Bucket, NEW grants \in Seq(Grant), NEW t \in 0..MaxTime,
           Balanced(b, grants), PerMinute > 0, ~(Refilled(b, t) - Cost >= 0)
    PROVE  \E i \in 1..Len(grants) :
               ((Len(grants) + 1) - i + 1) * Cost
                   > Burst + Gained(grants[i], [at |-> t, back |-> Back(grants, t)])
  <1> DEFINE n    == Len(grants)
             next == [at |-> t, back |-> Back(grants, t)]
             y    == PerMinute * AtLeast(0, t - b.last)
             R    == Refilled(b, t)
  <1>1. R # Burst
    BY OneToken, Units, RefilledRange
  <1>2. grants # <<>>
    BY <1>1, RefilledRange, Units DEF Balanced
  <1>3. n \in Nat \ {0} /\ grants[n] \in Grant /\ b.last = grants[n].at
    BY <1>2 DEF Balanced
  <1>4. next = [at |-> t, back |-> grants[n].back + AtLeast(0, grants[n].at - t)]
    BY <1>3 DEF Back
  <1>5. R = b.tokens + y /\ y \in Nat /\ b.tokens \in Nat
    <2>1. b.last \in 0..MaxTime /\ b.tokens \in 0..Burst
      BY DEF Bucket
    <2>2. t - b.last \in Int
      BY <2>1, RateAssumption
    <2>3. y \in Nat
      BY <2>2, Refill
    <2>4. R = Burst \/ R = b.tokens + y
      BY RefilledRange
    <2> QED
      BY <1>1, <2>1, <2>3, <2>4, Units
  <1>6. PICK i \in 1..n : Spent(b, grants, i) >= Supply(grants, i)
    BY <1>2 DEF Balanced
  <1>7. grants[i] \in Grant
    OBVIOUS
  <1>8. Gained(grants[i], next) = Gained(grants[i], grants[n]) + y
        /\ Gained(grants[i], grants[n]) \in Int
    <2>1. Gained(grants[i], grants[n]) \in Int
      BY <1>3, <1>7, GainedInt
    <2>2. Gained(grants[i], next)
              = Gained(grants[i], grants[n]) + PerMinute * AtLeast(0, t - grants[n].at)
      BY <1>3, <1>4, <1>7, GainedOnwards
    <2>3. y = PerMinute * AtLeast(0, t - grants[n].at)
      BY <1>3
    <2> QED
      BY <2>1, <2>2, <2>3
  <1>9. (n - i + 1) * Cost \in Int /\ ((n + 1) - i + 1) * Cost = (n - i + 1) * Cost + Cost
    BY <1>3, OneMore
  <1>10. Spent(b, grants, i) = b.tokens + (n - i + 1) * Cost
    BY DEF Spent
  <1>11. Supply(grants, i) = Burst + Gained(grants[i], grants[n])
    BY DEF Supply
  <1>12. R < Cost
    BY <1>5, Units
  <1> HIDE DEF n, next, y, R
  <1> DEFINE paid == (n - i + 1) * Cost
             due  == ((n + 1) - i + 1) * Cost
             had  == Gained(grants[i], grants[n])
             has  == Gained(grants[i], next)
  <1>13. /\ paid \in Int /\ due = paid + Cost /\ had \in Int /\ has = had + y
         /\ b.tokens + paid >= Burst + had
    BY <1>6, <1>8, <1>9, <1>10, <1>11
  <1> HIDE DEF paid, due, had, has
  <1>14. due > Burst + has
    BY <1>5, <1>12, <1>13, Units
  <1> QED
    BY <1>14 DEF due, has, n, next

-----------------------------------------------------------------------------
(* The steps                                                               *)

\* The first state satisfies the invariant.
LEMMA InitInv == Init => Inv
  <1> SUFFICES ASSUME Init PROVE Inv
    OBVIOUS
  <1>1. TypeOK
    BY RateAssumption DEF Init, TypeOK
  <1>2. MapInv /\ BalanceInv
    BY NullAssumption DEF Init, MapInv, BalanceInv
  <1> QED
    BY <1>1, <1>2 DEF Inv

\* What Allow finds: the bucket and the grants of the request's address.
LEMMA AtBucket ==
    ASSUME Inv, NEW r \in Requests, pc[r] = "allow"
    PROVE  /\ client[r] \in Addresses /\ mine[r] = limiters[client[r]] /\ mine[r] \in Requests
           /\ limiters[client[r]] # NULL
           /\ bucket[mine[r]] \in Bucket /\ at[r] \in 0..MaxTime
           /\ granted[client[r]] \in Seq(Grant)
           /\ Balanced(bucket[mine[r]], granted[client[r]])
  <1>1. client[r] \in Addresses /\ mine[r] = limiters[client[r]] /\ mine[r] \in Requests
        /\ at[r] \in 0..MaxTime
    BY DEF Inv, MapInv
  <1>2. limiters[client[r]] # NULL
    BY <1>1, NullAssumption
  <1> QED
    BY <1>1, <1>2 DEF Inv, MapInv, BalanceInv, TypeOK

\* Every action writes values of the right shape.
LEMMA TypeStep == Inv /\ [Next]_vars => TypeOK'
  <1> SUFFICES ASSUME Inv, [Next]_vars PROVE TypeOK'
    OBVIOUS
  <1>1. ASSUME NEW r \in Requests, NEW a \in Addresses, Get(r, a) PROVE TypeOK'
    BY <1>1, FullBalanced DEF Inv, TypeOK, Get, Goto
  <1>2. ASSUME NEW r \in Requests, Clock(r) PROVE TypeOK'
    BY <1>2 DEF Inv, TypeOK, Clock, Goto
  <1>3. ASSUME NEW r \in Requests, Allow(r) PROVE TypeOK'
    <2>1. CASE UNCHANGED <<bucket, granted>> /\ Goto(r, "refused")
      BY <1>3, <2>1 DEF Inv, TypeOK, Allow, Goto
    <2>2. CASE ~(UNCHANGED <<bucket, granted>> /\ Goto(r, "refused"))
      <3> DEFINE b    == bucket[mine[r]]
                 c    == [tokens |-> Refilled(b, at[r]) - Cost, last |-> at[r]]
                 g    == granted[client[r]]
                 next == [at |-> at[r], back |-> Back(g, at[r])]
      <3>1. /\ pc[r] = "allow" /\ Refilled(b, at[r]) - Cost >= 0
            /\ bucket' = [bucket EXCEPT ![mine[r]] = c]
            /\ granted' = [granted EXCEPT ![client[r]] = Append(@, next)]
            /\ Goto(r, "admitted") /\ UNCHANGED <<now, limiters, client, mine, at>>
        BY <1>3, <2>2 DEF Allow
      <3>2. c \in Bucket /\ next \in Grant /\ g \in Seq(Grant)
        BY <3>1, AtBucket, GrantBalanced, BackNat
      <3>3. Append(g, next) \in Seq(Grant)
        BY <3>2
      <3> HIDE DEF c, next
      <3> QED
        BY <3>1, <3>2, <3>3 DEF Inv, TypeOK, Goto
    <2> QED
      BY <2>1, <2>2
  <1>4. CASE Tick
    BY <1>4, RateAssumption DEF Inv, TypeOK, Tick, limiter
  <1>5. CASE UNCHANGED vars
    BY <1>5 DEF Inv, TypeOK, vars, limiter
  <1> QED
    BY <1>1, <1>2, <1>3, <1>4, <1>5 DEF Next

\* Every action keeps every request at the bucket of its address.
LEMMA MapStep == Inv /\ [Next]_vars => MapInv'
  <1> SUFFICES ASSUME Inv, [Next]_vars PROVE MapInv'
    OBVIOUS
  <1> USE NullAssumption DEF Inv, TypeOK, MapInv
  <1>1. ASSUME NEW r \in Requests, NEW a \in Addresses, Get(r, a) PROVE MapInv'
    <2>1. CASE limiters[a] = NULL
      <3>1. \A c \in Addresses : limiters[c] # r
        BY <1>1 DEF Get
      <3>2. limiters' = [limiters EXCEPT ![a] = r] /\ bucket' = [bucket EXCEPT ![r] = Full]
            /\ mine' = [mine EXCEPT ![r] = r] /\ client' = [client EXCEPT ![r] = a]
            /\ pc' = [pc EXCEPT ![r] = "clock"] /\ UNCHANGED <<at, granted>>
        BY <1>1, <2>1 DEF Get, Goto
      <3>3. \A q \in Requests : pc[q] # "get" => client[q] # a
        BY <2>1
      <3>4. \A q \in Requests : pc'[q] # "get" =>
                client'[q] \in Addresses /\ mine'[q] = limiters'[client'[q]] /\ mine'[q] \in Requests
        BY <3>2, <3>3
      <3>5. \A q \in Requests : pc'[q] = "allow" => at'[q] \in 0..MaxTime
        BY <3>2
      <3>6. \A c \in Addresses :
                limiters'[c] # NULL => client'[limiters'[c]] = c /\ pc'[limiters'[c]] # "get"
        BY <3>1, <3>2
      <3>7. \A c \in Addresses :
                IF limiters'[c] = NULL THEN granted'[c] = <<>> ELSE bucket'[limiters'[c]] \in Bucket
        BY <3>1, <3>2, FullBalanced
      <3> QED
        BY <3>4, <3>5, <3>6, <3>7
    <2>2. CASE limiters[a] # NULL
      <3>1. limiters' = limiters /\ bucket' = bucket
            /\ mine' = [mine EXCEPT ![r] = limiters[a]] /\ client' = [client EXCEPT ![r] = a]
            /\ pc' = [pc EXCEPT ![r] = "clock"] /\ UNCHANGED <<at, granted>>
        BY <1>1, <2>2 DEF Get, Goto
      <3>2. \A c \in Addresses : limiters[c] # r
        BY <1>1 DEF Get
      <3>3. \A q \in Requests : pc'[q] # "get" =>
                client'[q] \in Addresses /\ mine'[q] = limiters'[client'[q]] /\ mine'[q] \in Requests
        BY <2>2, <3>1
      <3> QED
        BY <3>1, <3>2, <3>3
    <2> QED
      BY <2>1, <2>2
  <1>2. ASSUME NEW r \in Requests, Clock(r) PROVE MapInv'
    BY <1>2 DEF Clock, Goto
  <1>3. ASSUME NEW r \in Requests, Allow(r) PROVE MapInv'
    <2>1. /\ UNCHANGED <<limiters, client, mine, at>>
          /\ pc[r] = "allow"
          /\ pc' = [pc EXCEPT ![r] = "admitted"] \/ pc' = [pc EXCEPT ![r] = "refused"]
      BY <1>3 DEF Allow, Goto
    <2>2. \A a \in Addresses : limiters[a] = NULL => a # client[r]
      BY <2>1, AtBucket
    <2>3. \A a \in Addresses : limiters[a] = NULL => granted'[a] = granted[a]
      BY <1>3, <2>2 DEF Allow
    <2>4. \A a \in Addresses : limiters[a] # NULL => bucket'[limiters[a]] \in Bucket
      <3>1. CASE bucket' = bucket
        BY <3>1
      <3>2. CASE bucket' # bucket
        <4> DEFINE c == [tokens |-> Refilled(bucket[mine[r]], at[r]) - Cost, last |-> at[r]]
        <4>1. bucket' = [bucket EXCEPT ![mine[r]] = c] /\ Refilled(bucket[mine[r]], at[r]) - Cost >= 0
          BY <1>3, <3>2 DEF Allow
        <4>2. c \in Bucket
          BY <2>1, <4>1, AtBucket, GrantBalanced
        <4> HIDE DEF c
        <4> QED
          BY <4>1, <4>2
      <3> QED
        BY <3>1, <3>2
    <2> QED
      BY <2>1, <2>3, <2>4
  <1>4. CASE Tick
    BY <1>4 DEF Tick, limiter
  <1>5. CASE UNCHANGED vars
    BY <1>5 DEF vars, limiter
  <1> QED
    BY <1>1, <1>2, <1>3, <1>4, <1>5 DEF Next

\* Every action keeps every bucket in balance with the grants of its address.
LEMMA BalanceStep == Inv /\ [Next]_vars => BalanceInv'
  <1> SUFFICES ASSUME Inv, [Next]_vars PROVE BalanceInv'
    OBVIOUS
  <1>1. ASSUME NEW r \in Requests, NEW a \in Addresses, Get(r, a) PROVE BalanceInv'
    <2>1. CASE limiters[a] = NULL
      <3>1. limiters' = [limiters EXCEPT ![a] = r] /\ bucket' = [bucket EXCEPT ![r] = Full]
            /\ granted' = granted
        BY <1>1, <2>1 DEF Get, Inv, TypeOK
      <3>2. granted[a] = <<>>
        BY <2>1 DEF Inv, MapInv
      <3>3. \A c \in Addresses : limiters[c] # NULL => limiters[c] # r /\ limiters[c] \in Requests
        BY <1>1, NullAssumption DEF Get, Inv, MapInv, TypeOK
      <3>4. \A c \in Addresses \ {a} : limiters'[c] = limiters[c] /\ limiters'[a] = r
        BY <3>1 DEF Inv, TypeOK
      <3>5. bucket'[r] = Full /\ \A q \in Requests \ {r} : bucket'[q] = bucket[q]
        BY <3>1 DEF Inv, TypeOK
      <3>6. Balanced(Full, <<>>)
        BY FullBalanced
      <3>7. ASSUME NEW c \in Addresses, limiters'[c] # NULL
            PROVE  Balanced(bucket'[limiters'[c]], granted'[c])
        <4>1. CASE c = a
          <5>1. bucket'[limiters'[c]] = Full /\ granted'[c] = <<>>
            BY <3>1, <3>2, <3>5, <4>1 DEF Inv, TypeOK
          <5> QED
            BY <5>1, <3>6
        <4>2. CASE c # a
          <5>1. bucket'[limiters'[c]] = bucket[limiters[c]] /\ granted'[c] = granted[c]
                /\ limiters[c] # NULL
            BY <3>1, <3>3, <3>4, <3>5, <3>7, <4>2
          <5> QED
            BY <5>1 DEF Inv, BalanceInv
        <4> QED
          BY <4>1, <4>2
      <3> QED
        BY <3>7 DEF BalanceInv
    <2>2. CASE limiters[a] # NULL
      <3>1. limiters' = limiters /\ bucket' = bucket /\ granted' = granted
        BY <1>1, <2>2 DEF Get, Inv, TypeOK
      <3> QED
        BY <3>1 DEF Inv, BalanceInv
    <2> QED
      BY <2>1, <2>2
  <1>2. ASSUME NEW r \in Requests, Allow(r) PROVE BalanceInv'
    <2> DEFINE m    == mine[r]
               b    == bucket[m]
               a    == client[r]
               g    == granted[a]
               c    == [tokens |-> Refilled(b, at[r]) - Cost, last |-> at[r]]
               next == [at |-> at[r], back |-> Back(g, at[r])]
    <2>1. CASE UNCHANGED <<bucket, granted>>
      BY <1>2, <2>1 DEF Allow, Inv, BalanceInv
    <2>2. CASE ~UNCHANGED <<bucket, granted>>
      <3>1. /\ pc[r] = "allow" /\ Refilled(b, at[r]) - Cost >= 0
            /\ bucket' = [bucket EXCEPT ![m] = c]
            /\ granted' = [granted EXCEPT ![a] = Append(g, next)]
            /\ limiters' = limiters
        BY <1>2, <2>2 DEF Allow
      <3>2. a \in Addresses /\ m = limiters[a] /\ m \in Requests
        BY <3>1, AtBucket
      <3>3. Balanced(c, Append(g, next))
        BY <3>1, AtBucket, GrantBalanced
      <3>4. \A d \in Addresses : limiters[d] = m => d = a
        BY <3>2, NullAssumption DEF Inv, MapInv
      <3> HIDE DEF m, a, c, next, g
      <3>5. ASSUME NEW d \in Addresses, limiters'[d] # NULL
            PROVE  Balanced(bucket'[limiters'[d]], granted'[d])
        <4>1. CASE d = a
          <5>1. bucket'[limiters'[d]] = c /\ granted'[d] = Append(g, next)
            BY <3>1, <3>2, <4>1 DEF Inv, TypeOK
          <5> QED
            BY <5>1, <3>3
        <4>2. CASE d # a
          <5>1. limiters[d] \in Requests /\ limiters[d] # m
            BY <3>1, <3>4, <3>5, <4>2 DEF Inv, TypeOK
          <5>2. bucket'[limiters'[d]] = bucket[limiters[d]] /\ granted'[d] = granted[d]
            BY <3>1, <4>2, <5>1 DEF Inv, TypeOK
          <5> QED
            BY <3>1, <3>5, <5>2 DEF Inv, BalanceInv
        <4> QED
          BY <4>1, <4>2
      <3> QED
        BY <3>5 DEF BalanceInv
    <2> QED
      BY <2>1, <2>2
  <1>3. CASE (\E r \in Requests : Clock(r)) \/ Tick \/ UNCHANGED vars
    <2>1. UNCHANGED <<limiters, bucket, granted>>
      BY <1>3 DEF Clock, Tick, vars, limiter
    <2> QED
      BY <2>1 DEF Inv, BalanceInv
  <1> QED
    BY <1>1, <1>2, <1>3 DEF Next

-----------------------------------------------------------------------------
(* The theorems                                                            *)

\* Every request holds the one bucket of its address, which is in balance with
\* what the address was granted.
THEOREM Invariance == Spec => []Inv
  <1>1. Inv /\ [Next]_vars => Inv'
    BY TypeStep, MapStep, BalanceStep DEF Inv
  <1> QED
    BY InitInv, <1>1, PTL DEF Spec

\* Buckets, times and grants keep their shape: no bucket is ever overfull.
THEOREM TypeCorrect == Spec => []TypeOK
  <1>1. Inv => TypeOK
    BY DEF Inv
  <1> QED
    BY Invariance, <1>1, PTL

\* No address is granted more than the burst and the refill of the time its
\* grants span, for any rate and any number of requests that overlap.
THEOREM NotTooMany == Spec => []NeverTooMany
  <1>1. ASSUME Inv, NEW a \in Addresses PROVE Bounded(granted[a])
    <2>1. CASE limiters[a] = NULL
      BY <1>1, <2>1 DEF Inv, MapInv, Bounded
    <2>2. CASE limiters[a] # NULL
      BY <1>1, <2>2 DEF Inv, BalanceInv, Balanced
    <2> QED
      BY <2>1, <2>2
  <1>2. Inv => NeverTooMany
    BY <1>1 DEF NeverTooMany, Bounded
  <1> QED
    BY Invariance, <1>2, PTL

\* A request is only refused when granting it would have broken that bound.
THEOREM NotTooFew == Spec => NeverTooFew
  <1>1. ASSUME Inv, [Next]_vars, NEW r \in Requests,
               pc[r] = "allow", pc'[r] = "refused", PerMinute > 0
        PROVE  \E i \in 1..Len(granted[client[r]]) :
                   ((Len(granted[client[r]]) + 1) - i + 1) * Cost
                       > Burst + Gained(granted[client[r]][i],
                                        [at |-> at[r], back |-> Back(granted[client[r]], at[r])])
    <2>1. Allow(r)
      <3>1. ASSUME NEW q \in Requests, NEW a \in Addresses, Get(q, a) PROVE FALSE
        BY <1>1, <3>1 DEF Get, Goto, Inv, TypeOK
      <3>2. ASSUME NEW q \in Requests, Clock(q) PROVE FALSE
        BY <1>1, <3>2 DEF Clock, Goto, Inv, TypeOK
      <3>3. ASSUME NEW q \in Requests, Allow(q) PROVE q = r
        BY <1>1, <3>3 DEF Allow, Goto, Inv, TypeOK
      <3>4. CASE Tick \/ UNCHANGED vars
        BY <1>1, <3>4 DEF Tick, vars
      <3> QED
        BY <1>1, <3>1, <3>2, <3>3, <3>4 DEF Next
    <2>2. ~(Refilled(bucket[mine[r]], at[r]) - Cost >= 0)
      BY <1>1, <2>1 DEF Allow, Goto, Inv, TypeOK
    <2> QED
      BY <1>1, <2>2, AtBucket, RefusalForced
  <1>2. Inv /\ [Next]_vars => [\A r \in Requests :
          LET grants == granted[client[r]]
              n      == Len(grants)
              next   == [at |-> at[r], back |-> Back(grants, at[r])]
          IN
          pc[r] = "allow" /\ pc'[r] = "refused" /\ PerMinute > 0 =>
              \E i \in 1..n : (n + 1 - i + 1) * Cost > Burst + Gained(grants[i], next)]_vars
    BY <1>1
  <1> QED
    BY Invariance, <1>2, PTL DEF Spec, NeverTooFew

\* What may pass in minutes: the burst, and the rate once for each of them.
MinuteLimit ==
    \A a \in Addresses :
        \A j \in 1..Len(granted[a]) : \A i \in 1..j : \A n \in Nat :
            LET g == granted[a][i]
                h == granted[a][j]
            IN  h.back = g.back /\ h.at - g.at <= n * Minute => j - i + 1 <= (n + 1) * PerMinute

\* Products with a positive number compare as their factors do.
LEMMA Cancel ==
    ASSUME NEW x \in Int, NEW y \in Int, NEW m \in Nat \ {0}, x * m <= y * m
    PROVE  x <= y
  <1> SUFFICES ASSUME x >= y + 1 PROVE FALSE
    OBVIOUS
  <1>1. x * m = (y + 1) * m + (x - (y + 1)) * m
    OBVIOUS
  <1>2. (x - (y + 1)) * m >= 0
    <2>1. x - (y + 1) \in Nat
      OBVIOUS
    <2> QED
      BY <2>1
  <1>3. (y + 1) * m = y * m + m
    OBVIOUS
  <1> QED
    BY <1>1, <1>2, <1>3

\* AUTH_RATE_LIMIT_RPM is not a limit for every minute: an address may be
\* granted twice as many in one, and n + 1 times as many in n, but no more
\* (NewIPRateLimiter, as long as the times read do not run backwards).
THEOREM GrantsInMinutes == Spec => []MinuteLimit
  <1>1. TypeOK /\ NeverTooMany => MinuteLimit
    <2> SUFFICES ASSUME TypeOK, NeverTooMany, NEW a \in Addresses,
                        NEW j \in 1..Len(granted[a]), NEW i \in 1..j, NEW n \in Nat,
                        granted[a][j].back = granted[a][i].back,
                        granted[a][j].at - granted[a][i].at <= n * Minute
                 PROVE  j - i + 1 <= (n + 1) * PerMinute
      BY DEF MinuteLimit
    <2> DEFINE g == granted[a][i]
               h == granted[a][j]
               span == h.at - g.at
               count == j - i + 1
    <2>1. granted[a] \in Seq(Grant) /\ i \in 1..Len(granted[a])
      BY DEF TypeOK
    <2>2. g \in Grant /\ h \in Grant
      BY <2>1
    <2>3. /\ span \in Int /\ span <= n * Minute
          /\ (h.at - g.at) + (h.back - g.back) = span
      BY <2>2, RateAssumption DEF Grant
    <2>4. count * Minute <= PerMinute * Minute + PerMinute * span
      BY <2>3 DEF NeverTooMany, Cost, Burst, Gained
    <2>5. count \in Int
      OBVIOUS
    <2> HIDE DEF g, h, span, count
    <2>6. PerMinute * span <= PerMinute * (n * Minute)
      <3>1. n * Minute - span \in Nat /\ n * Minute \in Int
        BY <2>3, RateAssumption
      <3>2. PerMinute * (n * Minute - span) \in Nat
        BY <3>1, RateAssumption
      <3>3. PerMinute * (n * Minute) = PerMinute * span + PerMinute * (n * Minute - span)
        <4>1. n * Minute = span + (n * Minute - span)
          BY <2>3, <3>1
        <4> QED
          BY <4>1, <2>3, <3>1, Times
      <3> DEFINE p == PerMinute * (n * Minute)
                 q == PerMinute * span
                 d == PerMinute * (n * Minute - span)
      <3>4. q \in Int
        BY <2>3, RateAssumption
      <3> HIDE DEF p, q, d
      <3> QED
        BY <3>2, <3>3, <3>4 DEF p, q, d
    <2>7. PerMinute * Minute + PerMinute * (n * Minute) = ((n + 1) * PerMinute) * Minute
      BY RateAssumption
    <2>8. count * Minute <= ((n + 1) * PerMinute) * Minute
      <3> DEFINE b == PerMinute * Minute
                 q == PerMinute * span
                 p == PerMinute * (n * Minute)
                 x == count * Minute
      <3>1. b \in Int /\ q \in Int /\ p \in Int /\ x \in Int
        BY <2>3, <2>5, RateAssumption
      <3>2. x <= b + q /\ q <= p
        BY <2>4, <2>6
      <3>3. x <= b + p
        <4> HIDE DEF b, q, p, x
        <4> QED
          BY <3>1, <3>2
      <3> QED
        BY <2>7, <3>3
    <2>9. (n + 1) * PerMinute \in Int /\ Minute \in Nat \ {0}
      BY RateAssumption
    <2>10. count <= (n + 1) * PerMinute
      BY <2>5, <2>8, <2>9, Cancel
    <2> QED
      BY <2>10 DEF count
  <1> QED
    BY <1>1, TypeCorrect, NotTooMany, PTL

=============================================================================

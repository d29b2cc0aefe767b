--------------------------- MODULE EnricherProofs ---------------------------
(***************************************************************************)
(* For any pull requests and any width of the pool: no more requests are   *)
(* on their way than there are slots, none waits while a slot is free, and *)
(* no pull request is asked for twice at a time.                           *)
(***************************************************************************)
EXTENDS Enricher, FiniteSetTheorems, SequenceTheorems, TLAPS

-----------------------------------------------------------------------------
(* Sequences of requests.                                                  *)

\* The numbers of a set one after the other: each of them once.
LEMMA InOrderEnumerates ==
    ASSUME NEW S \in SUBSET Prs
    PROVE  /\ InOrder(S) \in Seq(S)
           /\ \A i, j \in DOMAIN InOrder(S) : InOrder(S)[i] = InOrder(S)[j] => i = j
           /\ \A n \in S : \E i \in DOMAIN InOrder(S) : InOrder(S)[i] = n
  <1> DEFINE upTo(n) == {m \in S : m <= n}
  <1> DEFINE c(n) == Cardinality(upTo(n))
  <1>1. IsFiniteSet(S) /\ S \subseteq Nat /\ Cardinality(S) \in Nat
    BY EnricherAssumption, FS_Subset, FS_CardinalityType
  <1>2. ASSUME NEW n \in S PROVE IsFiniteSet(upTo(n)) /\ c(n) \in 1..Cardinality(S)
    <2>1. upTo(n) \in SUBSET S /\ n \in upTo(n)
      BY <1>1
    <2> HIDE DEF upTo
    <2>2. IsFiniteSet(upTo(n)) /\ c(n) <= Cardinality(S) /\ c(n) \in Nat /\ c(n) # 0
      BY <1>1, <2>1, FS_Subset, FS_CardinalityType, FS_EmptySet
    <2> QED BY <1>1, <2>2
  <1>3. ASSUME NEW m \in S, NEW n \in S, m < n PROVE c(m) # c(n)
    <2>0. m \in Nat /\ n \in Nat /\ \A x \in S : x \in Nat
      BY <1>1
    <2>1. upTo(m) \in SUBSET upTo(n) /\ n \in upTo(n) /\ n \notin upTo(m)
      <3>1. \A x \in S : x <= m => x <= n
        BY <1>3, <2>0
      <3>2. n <= n /\ ~(n <= m)
        BY <1>3, <2>0
      <3> QED BY <3>1, <3>2
    <2> HIDE DEF upTo
    <2> QED BY <1>2, <2>1, FS_Subset
  <1> DEFINE f == [n \in S |-> c(n)]
  <1>4. f \in [S -> 1..Cardinality(S)] /\ \A m, n \in S : f[m] = f[n] => m = n
    <2>1. \A m, n \in S : m < n \/ n < m \/ m = n
      BY <1>1
    <2> HIDE DEF c
    <2> QED BY <1>2, <1>3, <2>1
  <1>5. \A i \in 1..Cardinality(S) : \E n \in S : f[n] = i
    <2> HIDE DEF f
    <2>1. f \in Injection(S, 1..Cardinality(S))
      BY <1>4 DEF Injection, IsInjective
    <2>2. IsFiniteSet(1..Cardinality(S)) /\ Cardinality(1..Cardinality(S)) = Cardinality(S)
      BY <1>1, FS_Interval
    <2>3. f \in Surjection(S, 1..Cardinality(S))
      BY <2>1, <2>2, FS_Injection
    <2> QED BY <2>3 DEF Surjection
  <1>6. ASSUME NEW i \in 1..Cardinality(S)
        PROVE  InOrder(S)[i] \in S /\ c(InOrder(S)[i]) = i
    <2>1. \E n \in S : c(n) = i
      BY <1>5
    <2>2. InOrder(S)[i] = CHOOSE n \in S : c(n) = i
      BY DEF InOrder
    <2> HIDE DEF c
    <2> QED BY <2>1, <2>2
  <1>7. DOMAIN InOrder(S) = 1..Cardinality(S)
    BY DEF InOrder
  <1>8. InOrder(S) \in Seq(S)
    <2>1. InOrder(S) = [i \in 1..Cardinality(S) |-> InOrder(S)[i]]
      BY DEF InOrder
    <2>2. InOrder(S) \in [1..Cardinality(S) -> S]
      BY <1>6, <2>1
    <2> QED BY <1>1, <2>2
  <1> HIDE DEF c
  <1>9. \A i, j \in DOMAIN InOrder(S) : InOrder(S)[i] = InOrder(S)[j] => i = j
    BY <1>6, <1>7
  <1>10. ASSUME NEW n \in S PROVE \E i \in DOMAIN InOrder(S) : InOrder(S)[i] = n
    <2>1. c(n) \in 1..Cardinality(S)
      BY <1>2 DEF c
    <2>2. InOrder(S)[c(n)] \in S /\ c(InOrder(S)[c(n)]) = c(n)
      BY <1>6, <2>1
    <2>3. InOrder(S)[c(n)] = n
      BY <1>4, <2>2
    <2> QED BY <1>7, <2>1, <2>3
  <1> QED BY <1>8, <1>9, <1>10

\* The pull requests asked for by the requests of a on their way and q waiting.
Asked(a, q) == a \cup (ToSet(q) \ {Left})

\* None of them is asked for twice.
Once(a, q) ==
    /\ \A i, j \in DOMAIN q : q[i] = q[j] /\ q[i] # Left => i = j
    /\ \A i \in DOMAIN q : q[i] \notin a

\* The requests of q among the first k: as many as there are left over ones and
\* pull requests.
LEMMA FirstRequests ==
    ASSUME NEW q \in Seq(Prs \cup {Left}), NEW k \in 0..Len(q),
           \A i, j \in DOMAIN q : q[i] = q[j] /\ q[i] # Left => i = j
    PROVE  LET L == {i \in 1..k : q[i] = Left}
               T == {q[i] : i \in 1..k} \ {Left}
           IN  /\ IsFiniteSet(T) /\ T \subseteq Prs
               /\ Cardinality(L) \in Nat /\ Cardinality(T) \in Nat
               /\ Cardinality(L) + Cardinality(T) = k
  <1> DEFINE L == {i \in 1..k : q[i] = Left}
  <1> DEFINE P == (1..k) \ L
  <1> DEFINE T == {q[i] : i \in 1..k} \ {Left}
  <1>1. IsFiniteSet(1..k) /\ Cardinality(1..k) = k /\ k \in Nat
    BY FS_Interval
  <1>2. IsFiniteSet(L) /\ IsFiniteSet(P) /\ Cardinality(L) \in Nat /\ Cardinality(P) \in Nat
    BY <1>1, FS_Subset, FS_CardinalityType
  <1>3. Cardinality(P) = k - Cardinality(L)
    <2>1. (1..k) \cap L = L
      OBVIOUS
    <2> DEFINE S == 1..k
    <2>2. IsFiniteSet(S) /\ Cardinality(S) = k /\ S \cap L = L /\ P = S \ L
      BY <1>1, <2>1
    <2> HIDE DEF L, P, S
    <2>3. Cardinality(S \ L) = Cardinality(S) - Cardinality(S \cap L)
      BY <2>2, FS_Difference, Zenon
    <2> QED BY <2>2, <2>3
  <1> DEFINE f == [i \in P |-> q[i]]
  <1>4. \A i \in 1..k : i \in DOMAIN q /\ q[i] \in Prs \cup {Left}
    OBVIOUS
  <1>5. f \in Bijection(P, T)
    <2>1. f \in [P -> T] /\ \A i, j \in P : f[i] = f[j] => i = j
      BY <1>4
    <2>2. \A t \in T : \E i \in P : f[i] = t
      OBVIOUS
    <2> HIDE DEF f, P, T
    <2> QED BY <2>1, <2>2 DEF Bijection, Injection, Surjection, IsInjective
  <1>6. IsFiniteSet(T) /\ Cardinality(T) = Cardinality(P)
    <2>1. ExistsBijection(P, T)
      BY <1>5 DEF ExistsBijection
    <2> HIDE DEF P, T
    <2> QED BY <1>2, <2>1, FS_Bijection
  <1>7. T \subseteq Prs
    BY <1>4
  <1> HIDE DEF L, P, T
  <1>8. Cardinality(L) + Cardinality(T) = k
    BY <1>1, <1>2, <1>3, <1>6
  <1> QED BY <1>2, <1>6, <1>7, <1>8 DEF L, T

-----------------------------------------------------------------------------
(* The pool.                                                               *)

Requests == Prs \cup {Left}

\* A pool with a and l on their way and q waiting, before the free slots are taken.
Fits(a, l, q) ==
    /\ a \subseteq Prs /\ l \in Nat /\ Cardinality(a) + l <= Limit
    /\ q \in Seq(Requests) /\ Once(a, q)

\* Pull requests are finitely many.
LEMMA PrsAreFinite ==
    ASSUME NEW a \in SUBSET Prs PROVE IsFiniteSet(a) /\ Cardinality(a) \in Nat
  BY EnricherAssumption, FS_Subset, FS_CardinalityType

\* Filling the free slots serves the pool, and changes nothing about who is asked
\* for.
LEMMA FillServes ==
    ASSUME NEW a, NEW l, NEW q, Fits(a, l, q), Fill(a, l, q)
    PROVE  /\ Fits(active', left', queue') /\ left' \in 0..Limit
           /\ queue' # <<>> => Cardinality(active') + left' = Limit
           /\ Asked(active', queue') = Asked(a, q)
  <1> DEFINE free == Limit - Cardinality(a) - l
  <1> DEFINE k == IF Len(q) < free THEN Len(q) ELSE free
  <1> DEFINE taken == SubSeq(q, 1, k)
  <1> DEFINE L == {i \in 1..k : q[i] = Left}
  <1> DEFINE T == {q[i] : i \in 1..k} \ {Left}
  <1>1. /\ Cardinality(a) \in Nat /\ IsFiniteSet(a) /\ a \subseteq Prs /\ l \in Nat /\ Limit \in Nat
        /\ q \in Seq(Requests) /\ Len(q) \in Nat /\ DOMAIN q = 1..Len(q)
        /\ \A i \in 1..Len(q) : q[i] \in Requests
    BY PrsAreFinite, EnricherAssumption DEF Fits
  <1>2. free \in Nat /\ k \in 0..Len(q) /\ k <= free /\ (k # Len(q) => k = free)
    BY <1>1 DEF Fits
  <1> HIDE DEF free
  <1>3. Once(a, q)
    BY DEF Fits
  <1>4. /\ IsFiniteSet(T) /\ T \subseteq Prs
        /\ Cardinality(L) \in Nat /\ Cardinality(T) \in Nat /\ Cardinality(L) + Cardinality(T) = k
    <2> HIDE DEF k
    <2> QED BY <1>1, <1>2, <1>3, FirstRequests DEF Once, Requests
  <1> DEFINE n == Len(q)
  <1>a. k \in Nat /\ n \in Nat /\ k <= n /\ free \in Nat /\ k <= free /\ (k # n => k = free)
    <2>1. n \in Nat /\ free \in Nat
      BY <1>1, <1>2
    <2>2. k = IF n < free THEN n ELSE free
      OBVIOUS
    <2> HIDE DEF n, k
    <2> QED BY <2>1, <2>2
  <1> HIDE DEF k
  <1>b. /\ q \in Seq(Requests) /\ DOMAIN q = 1..n /\ \A i \in 1..n : q[i] \in Requests
    BY <1>1
  <1> HIDE DEF n
  <1>5. Len(taken) = k /\ DOMAIN taken = 1..k /\ \A i \in 1..k : taken[i] = q[i]
    <2>1. \A i \in 1..k : q[i] \in Requests
      BY <1>a, <1>b
    <2>2. taken \in Seq(Requests) /\ Len(taken) = IF 1 <= k THEN k - 1 + 1 ELSE 0
      BY <1>a, <2>1, SubSeqProperties
    <2>3. \A i \in 1..(k - 1 + 1) : taken[i] = q[1 + i - 1]
      BY <1>a, <2>1, SubSeqProperties
    <2> HIDE DEF taken
    <2>4. Len(taken) = k /\ k - 1 + 1 = k
      BY <1>a, <2>2
    <2>5. \A i \in 1..k : 1 + i - 1 = i
      BY <1>a
    <2> QED BY <2>2, <2>3, <2>4, <2>5
  <1>6. active' = a \cup T /\ left' = l + Cardinality(L) /\ queue' = SubSeq(q, k + 1, n)
    <2>1. /\ active' = a \cup (ToSet(taken) \ {Left})
          /\ left' = l + Cardinality({i \in DOMAIN taken : taken[i] = Left})
          /\ queue' = SubSeq(q, k + 1, n)
      BY DEF Fill, k, free, n
    <2> HIDE DEF taken
    <2>2. ToSet(taken) = {q[i] : i \in 1..k}
      BY <1>5 DEF ToSet
    <2>3. {i \in DOMAIN taken : taken[i] = Left} = L
      BY <1>5
    <2> QED BY <2>1, <2>2, <2>3
  <1>7. /\ queue' \in Seq(Requests) /\ Len(queue') = n - k
        /\ DOMAIN queue' = 1..(n - k)
        /\ \A i \in 1..(n - k) : queue'[i] = q[k + i]
    <2>1. \A i \in (k + 1)..n : q[i] \in Requests
      BY <1>a, <1>b
    <2> DEFINE rest == SubSeq(q, k + 1, n)
    <2>2. k + 1 \in Int /\ n \in Int
      BY <1>a, <1>b
    <2>3. /\ rest \in Seq(Requests)
          /\ Len(rest) = IF k + 1 <= n THEN n - (k + 1) + 1 ELSE 0
          /\ \A i \in 1..(n - (k + 1) + 1) : rest[i] = q[k + 1 + i - 1]
      BY <2>1, <2>2, SubSeqProperties
    <2> HIDE DEF rest
    <2>4. Len(rest) = n - k /\ n - (k + 1) + 1 = n - k
      BY <1>a, <2>3
    <2>5. \A i \in 1..(n - k) : k + 1 + i - 1 = k + i
      BY <1>a, <1>b
    <2>6. \A i \in 1..(n - k) : rest[i] = q[k + i]
      BY <2>3, <2>4, <2>5
    <2> QED BY <1>6, <2>3, <2>4, <2>6 DEF rest
  <1>8. T \cap a = {} /\ Cardinality(active') = Cardinality(a) + Cardinality(T)
    <2>1. T \cap a = {}
      BY <1>a, <1>b, <1>3 DEF Once
    <2> HIDE DEF T
    <2>2. Cardinality(a \cap T) = 0
      BY <2>1, FS_EmptySet
    <2>3. Cardinality(a \cup T) = Cardinality(a) + Cardinality(T) - Cardinality(a \cap T)
      BY <1>1, <1>4, FS_Union
    <2> QED BY <1>1, <1>4, <1>6, <2>1, <2>2, <2>3
  <1>9. Cardinality(active') + left' = Cardinality(a) + l + k /\ left' \in Nat
    <2> HIDE DEF L, T
    <2> QED BY <1>1, <1>4, <1>6, <1>8
  <1>10. Cardinality(active') + left' <= Limit /\ (k = free => Cardinality(active') + left' = Limit)
    BY <1>1, <1>a, <1>9 DEF free
  <1>11. left' \in 0..Limit
    <2>1. active' \in SUBSET Prs
      BY <1>1, <1>4, <1>6
    <2>2. Cardinality(active') \in Nat
      BY <2>1, PrsAreFinite
    <2> QED BY <1>1, <1>9, <1>10, <2>2
  <1>12. queue' # <<>> => k = free
    <2>1. queue' # <<>> => Len(queue') # 0
      BY <1>7, EmptySeq
    <2> QED BY <1>a, <1>7, <2>1
  <1>13. Once(active', queue')
    <2>1. \A i \in 1..(n - k) : k + i \in 1..n /\ k + i \notin 1..k
      BY <1>a, <1>b
    <2>2. \A i, j \in 1..(n - k) : k + i = k + j => i = j
      BY <1>a, <1>b
    <2>3. ASSUME NEW i \in 1..(n - k) PROVE queue'[i] \notin active'
      <3>1. queue'[i] = q[k + i] /\ k + i \in 1..n /\ q[k + i] \notin a
        BY <1>b, <1>3, <1>7, <2>1 DEF Once
      <3>2. q[k + i] \notin T
        <4> SUFFICES ASSUME NEW j \in 1..k, q[k + i] = q[j], q[j] # Left PROVE FALSE
          OBVIOUS
        <4>1. j \in 1..n
          BY <1>a, <1>b
        <4>2. k + i = j
          BY <1>b, <1>3, <3>1, <4>1 DEF Once
        <4> QED BY <2>1, <4>2
      <3> QED BY <1>6, <3>1, <3>2
    <2>4. \A i, j \in 1..(n - k) : queue'[i] = queue'[j] /\ queue'[i] # Left => i = j
      BY <1>b, <1>3, <1>7, <2>1, <2>2 DEF Once
    <2> QED BY <1>7, <2>3, <2>4 DEF Once
  <1>14. Asked(active', queue') = Asked(a, q)
    <2>1. \A i \in 1..n : i \in 1..k \/ (i - k \in 1..(n - k) /\ k + (i - k) = i)
      BY <1>a, <1>b
    <2>2. \A i \in 1..k : i \in 1..n
      BY <1>a, <1>b
    <2>3. \A i \in 1..(n - k) : k + i \in 1..n
      BY <1>a, <1>b
    <2>4. ToSet(q) = {q[i] : i \in 1..k} \cup ToSet(queue')
      <3>1. ToSet(queue') = {q[k + i] : i \in 1..(n - k)}
        BY <1>7 DEF ToSet
      <3>2. ToSet(q) = {q[i] : i \in 1..n}
        BY <1>b DEF ToSet
      <3> QED BY <2>1, <2>2, <2>3, <3>1, <3>2
    <2> QED BY <1>6, <2>4 DEF Asked
  <1>15. active' \subseteq Prs
    BY <1>1, <1>4, <1>6
  <1> QED BY <1>7, <1>9, <1>10, <1>11, <1>12, <1>13, <1>14, <1>15 DEF Fits

-----------------------------------------------------------------------------
(* The inductive invariant.                                                *)

\* The pull requests of the fetch whose info is not there yet.
Missing == {n \in fetch.numbers : fetch.infos[n] = NoEntry}

\* What is asked for is what the fetch waits for: every info that is missing, then
\* the checks of the entry to be stored next.
FetchHasItsRequests ==
    /\ ~fetching => Asked(active, queue) = {}
    /\ fetching =>
          /\ fetch.todo # {} /\ fetch.todo \subseteq fetch.numbers
          /\ Missing # {} => Asked(active, queue) = Missing
          /\ Missing = {} => Asked(active, queue) = {Min(fetch.todo)}

\* No pull request has two requests on their way or waiting.
AskedOnce == Once(active, queue)

IInv == TypeOK /\ PoolIsServed /\ AskedOnce /\ FetchHasItsRequests

\* The invariant in two parts: what the fetch and its requests are, and the rest.
OuterTyped ==
    /\ forge \in [Prs -> Views] /\ tracked \in [Prs -> States]
    /\ prs \in [Prs -> Views \cup {NoEntry}] /\ changed \subseteq Prs
    /\ visible \in BOOLEAN /\ due \in BOOLEAN /\ backoff \in BOOLEAN

Served ==
    /\ Fits(active, left, queue) /\ left \in 0..Limit
    /\ queue # <<>> => Cardinality(active) + left = Limit

FetchTyped == fetching \in BOOLEAN /\ fetch \in Fetches /\ (~fetching => fetch = NoFetch)

Inner == FetchTyped /\ Served /\ FetchHasItsRequests

\* The two parts are the invariant.
LEMMA InvariantParts ==
    /\ IInv <=> OuterTyped /\ Inner
    /\ IInv' <=> (OuterTyped /\ Inner)'
  <1>1. IInv <=> OuterTyped /\ Inner
    BY EnricherAssumption DEF IInv, OuterTyped, Inner, TypeOK, FetchTyped, Served, Fits, PoolIsServed,
       AskedOnce, Requests
  <1>2. IInv' <=> (OuterTyped /\ Inner)'
    BY EnricherAssumption DEF IInv, OuterTyped, Inner, TypeOK, FetchTyped, Served, Fits, PoolIsServed,
       AskedOnce, Requests
  <1> QED BY <1>1, <1>2

\* Nothing is tracked, nothing asked for.
LEMMA InitIInv == Init => IInv
  <1> SUFFICES ASSUME Init PROVE IInv
    OBVIOUS
  <1>1. OuterTyped
    BY EnricherAssumption DEF Init, OuterTyped
  <1>2. FetchTyped
    BY DEF Init, FetchTyped, NoFetch, Fetches
  <1>3. Asked({}, <<>>) = {} /\ Once({}, <<>>) /\ <<>> \in Seq(Requests)
    BY DEF Asked, Once, ToSet
  <1>4. Served
    BY <1>3, FS_EmptySet, EnricherAssumption DEF Init, Served, Fits
  <1>5. FetchHasItsRequests
    BY <1>3 DEF Init, FetchHasItsRequests
  <1> QED BY <1>1, <1>2, <1>4, <1>5, InvariantParts DEF Inner

\* Filling the slots of a pool that fits serves it, whoever it asks for.
LEMMA FillIsServed ==
    ASSUME NEW a, NEW l, NEW q, Fits(a, l, q), Fill(a, l, q)
    PROVE  Served' /\ Asked(active', queue') = Asked(a, q)
  BY FillServes DEF Served

\* Some pull requests have a first one.
LEMMA MinIsOneOf ==
    ASSUME NEW S \in SUBSET Prs, S # {} PROVE Min(S) \in S
  <1>1. S \subseteq Nat
    BY EnricherAssumption
  <1>2. PICK x \in S : \A y \in S : <<y, x>> \notin OpToRel(<, Nat)
    BY <1>1, NatLessThanWellFounded, WFMin
  <1>3. ASSUME NEW y \in S PROVE x <= y
    <2> SUFFICES ASSUME y < x PROVE FALSE
      BY <1>1
    <2>1. <<y, x>> \in OpToRel(<, Nat)
      BY <1>1 DEF OpToRel
    <2> QED BY <1>2, <2>1
  <1> QED BY <1>3 DEF Min

\* When nothing is asked for, what waits in the pool was left by failed fetches.
LEMMA OnlyLeftWait ==
    ASSUME NEW a, NEW q \in Seq(Requests), Asked(a, q) = {}
    PROVE  a = {} /\ \A i \in DOMAIN q : q[i] = Left
  BY DEF Asked, ToSet

\* The requests of a new fetch come on top of what failed ones have left.
LEMMA RequestServes ==
    ASSUME Inner, ~fetching, NEW N \in SUBSET Prs, Request(N)
    PROVE  Served' /\ Asked(active', queue') = N
  <1> DEFINE s == InOrder(N)
  <1> DEFINE q == queue \o s
  <1>1. active = {} /\ queue \in Seq(Requests) /\ \A i \in DOMAIN queue : queue[i] = Left
    BY OnlyLeftWait DEF Inner, FetchHasItsRequests, Served, Fits
  <1>2. /\ s \in Seq(Requests) /\ \A i \in DOMAIN s : s[i] \in N
        /\ \A i, j \in DOMAIN s : s[i] = s[j] => i = j
        /\ \A n \in N : \E i \in DOMAIN s : s[i] = n
    <2>1. s \in Seq(N)
      BY InOrderEnumerates
    <2>2. \A i \in DOMAIN s : s[i] \in N
      <3> HIDE DEF s
      <3> QED BY <2>1
    <2>3. s \in Seq(Requests)
      <3> HIDE DEF s
      <3> QED BY <2>1, SeqMonotonic DEF Requests
    <2> QED BY <2>2, <2>3, InOrderEnumerates
  <1> DEFINE m == Len(queue)
  <1> DEFINE n == Len(s)
  <1> HIDE DEF s
  <1>3. m \in Nat /\ n \in Nat /\ DOMAIN queue = 1..m /\ DOMAIN s = 1..n
    BY <1>1, <1>2
  <1>4. /\ q \in Seq(Requests) /\ Len(q) = m + n
        /\ \A i \in 1..(m + n) : q[i] = IF i <= m THEN queue[i] ELSE s[i - m]
    BY <1>1, <1>2, ConcatProperties
  <1>5. DOMAIN q = 1..(m + n)
    BY <1>3, <1>4
  <1> HIDE DEF q, m, n
  <1>6. Left \notin N
    BY EnricherAssumption
  <1>7. \A i \in 1..(m + n) : IF i <= m THEN q[i] = Left ELSE i - m \in 1..n /\ q[i] = s[i - m]
    <2> TAKE i \in 1..(m + n)
    <2>1. CASE i <= m
      <3>1. i \in DOMAIN queue /\ q[i] = queue[i]
        BY <1>3, <1>4, <2>1
      <3> QED BY <1>1, <2>1, <3>1
    <2>2. CASE ~(i <= m)
      BY <1>3, <1>4, <2>2
    <2> QED BY <2>1, <2>2
  <1>8. Once(active, q)
    <2>1. ASSUME NEW i \in 1..(m + n), NEW j \in 1..(m + n), q[i] = q[j], q[i] # Left PROVE i = j
      <3>1. i - m \in 1..n /\ j - m \in 1..n /\ s[i - m] = s[j - m]
        BY <1>7, <2>1
      <3>2. i - m = j - m
        BY <1>2, <1>3, <3>1
      <3> QED BY <1>3, <3>2
    <2> QED BY <1>1, <1>5, <2>1 DEF Once
  <1>9. Asked(active, q) = N
    <2>1. ASSUME NEW x \in N PROVE \E i \in 1..(m + n) : q[i] = x
      <3>1. PICK i \in 1..n : s[i] = x
        BY <1>2, <1>3
      <3>2. i + m \in 1..(m + n) /\ ~(i + m <= m) /\ (i + m) - m = i
        BY <1>3
      <3> QED BY <1>7, <3>1, <3>2
    <2>2. \A i \in 1..(m + n) : q[i] = Left \/ q[i] \in N
      BY <1>2, <1>3, <1>7
    <2> QED BY <1>1, <1>5, <1>6, <2>1, <2>2 DEF Asked, ToSet
  <1>10. Fits(active, left, q)
    BY <1>4, <1>8 DEF Inner, Served, Fits
  <1>11. Fill(active, left, q)
    BY DEF Request, q, s
  <1> QED BY <1>9, <1>10, <1>11, FillIsServed

\* A refresh starts a fetch with all its requests, or leaves everything as it is.
LEMMA RefreshKeeps ==
    ASSUME IInv, NEW all \in BOOLEAN, NEW C \in SUBSET Prs, Refresh(all, C)
    PROVE  Inner'
  <1> DEFINE N == Numbers(all, C)
  <1>1. Inner /\ N \in SUBSET Prs
    BY InvariantParts DEF Numbers
  <1> HIDE DEF N
  <1>2. CASE fetching \/ backoff \/ N = {}
    BY <1>1, <1>2 DEF Refresh, N, Inner, pool, FetchTyped, Served, Fits, FetchHasItsRequests, Missing
  <1>3. CASE ~(fetching \/ backoff \/ N = {})
    <2>1. /\ fetching' = TRUE /\ Request(N)
          /\ fetch' = [numbers |-> N, infos |-> [n \in Prs |-> NoEntry], todo |-> N, all |-> all]
      BY <1>3 DEF Refresh, N
    <2>2. Served' /\ Asked(active', queue') = N
      BY <1>1, <1>3, <2>1, RequestServes
    <2>3. FetchTyped'
      BY <1>1, <2>1 DEF FetchTyped, Fetches
    <2>4. Missing' = N
      BY <1>1, <2>1 DEF Missing
    <2>5. FetchHasItsRequests'
      BY <1>3, <2>1, <2>2, <2>4 DEF FetchHasItsRequests
    <2> QED BY <2>2, <2>3, <2>5 DEF Inner
  <1> QED BY <1>2, <1>3

\* A request that ends gives its slot back: the others stay asked for.
LEMMA OneLess ==
    ASSUME Inner, NEW n \in active
    PROVE  /\ Fits(active \ {n}, left, queue) /\ n \in Prs
           /\ Asked(active \ {n}, queue) = Asked(active, queue) \ {n}
           /\ n \in Asked(active, queue)
  <1>1. Fits(active, left, queue) /\ IsFiniteSet(active) /\ Cardinality(active) \in Nat
    BY PrsAreFinite DEF Inner, Served, Fits
  <1>2. Cardinality(active \ {n}) \in Nat /\ Cardinality(active \ {n}) <= Cardinality(active)
    BY <1>1, FS_Subset, FS_CardinalityType
  <1>3. \A i \in DOMAIN queue : queue[i] # n
    BY <1>1 DEF Fits, Once
  <1>4. Once(active \ {n}, queue)
    BY <1>1 DEF Fits, Once
  <1>5. Cardinality(active \ {n}) + left <= Limit
    BY <1>1, <1>2, EnricherAssumption DEF Fits
  <1> QED BY <1>1, <1>3, <1>4, <1>5 DEF Fits, Asked, ToSet

\* The checks of the next entry are asked for when nothing else is.
LEMMA ChecksAskedFor ==
    ASSUME NEW a, NEW l, NEW q, Fits(a, l, q), Asked(a, q) = {}, NEW m \in Prs
    PROVE  Fits(a, l, Append(q, m)) /\ Asked(a, Append(q, m)) = {m}
  <1>1. a = {} /\ q \in Seq(Requests) /\ \A i \in DOMAIN q : q[i] = Left
    BY OnlyLeftWait DEF Fits
  <1> DEFINE r == Append(q, m)
  <1> DEFINE k == Len(q)
  <1>2. /\ r \in Seq(Requests) /\ k \in Nat /\ Len(r) = k + 1 /\ r[k + 1] = m
        /\ DOMAIN q = 1..k /\ \A i \in 1..k : r[i] = q[i]
    BY <1>1, AppendProperties DEF Requests
  <1>3. DOMAIN r = 1..(k + 1)
    BY <1>2
  <1> HIDE DEF r, k
  <1>4. m # Left
    BY EnricherAssumption
  <1>5. \A i \in 1..(k + 1) : i = k + 1 \/ i \in 1..k
    BY <1>2
  <1>6. \A i \in 1..(k + 1) : IF i = k + 1 THEN r[i] = m ELSE r[i] = Left
    BY <1>1, <1>2, <1>5
  <1>7. k + 1 \in 1..(k + 1)
    BY <1>2
  <1>8. Once(a, r)
    BY <1>1, <1>3, <1>6 DEF Once
  <1>9. Asked(a, r) = {m}
    BY <1>1, <1>3, <1>4, <1>6, <1>7 DEF Asked, ToSet
  <1>10. Fits(a, l, r)
    BY <1>2, <1>8 DEF Fits
  <1> QED BY <1>9, <1>10 DEF r

\* Who answers is one the fetch waits for: while infos are missing it is one of
\* those, then the entry to be stored next.
LEMMA AnswersAreAwaited ==
    ASSUME Inner, NEW n \in active
    PROVE  /\ fetching = TRUE /\ fetch \in Fetches /\ n \in fetch.numbers
           /\ fetch.todo # {} /\ fetch.todo \subseteq fetch.numbers
           /\ Missing # {} => Asked(active, queue) = Missing
           /\ Missing = {} => Asked(active, queue) = {n} /\ n \in fetch.todo
           /\ fetch.infos[n] = NoEntry <=> Missing # {}
  <1>1. n \in Asked(active, queue)
    BY OneLess
  <1>2. /\ fetching = TRUE /\ fetch \in Fetches /\ fetch.todo # {} /\ fetch.todo \subseteq fetch.numbers
        /\ Missing # {} => Asked(active, queue) = Missing
        /\ Missing = {} => Asked(active, queue) = {Min(fetch.todo)}
    BY <1>1 DEF Inner, FetchTyped, FetchHasItsRequests
  <1>3. fetch.todo \in SUBSET Prs
    BY <1>2 DEF Fetches
  <1>4. CASE Missing # {}
    BY <1>1, <1>2, <1>4 DEF Missing
  <1>5. CASE Missing = {}
    <2>1. Min(fetch.todo) \in fetch.todo
      BY <1>2, <1>3, MinIsOneOf
    <2>2. Min(fetch.todo) = n
      BY <1>1, <1>2, <1>5
    <2>3. n \in fetch.numbers /\ fetch.infos[n] # NoEntry
      BY <1>2, <1>5, <2>1, <2>2 DEF Missing
    <2> QED BY <1>2, <1>5, <2>1, <2>2, <2>3
  <1> QED BY <1>4, <1>5

\* An answer brings an info or the checks of the entry being stored; the fetch goes
\* on with what it then waits for, or is over with nothing left to ask for.
LEMMA AnswerKeeps ==
    ASSUME IInv, NEW n \in Prs, Answer(n) PROVE IInv'
  <1> DEFINE listing == fetch.infos[n] = NoEntry
  <1> DEFINE infos == IF listing THEN [fetch.infos EXCEPT ![n] = forge[n]] ELSE fetch.infos
  <1> DEFINE todo  == IF listing THEN fetch.todo ELSE fetch.todo \ {n}
  <1> DEFINE ready == \A m \in fetch.numbers : infos[m] # NoEntry
  <1> DEFINE gone  == IF ready THEN Unknown(todo, infos) ELSE {}
  <1> DEFINE rest  == todo \ gone
  <1>1. OuterTyped /\ Inner /\ n \in active
    BY InvariantParts DEF Answer
  <1>2. /\ Fits(active \ {n}, left, queue)
        /\ Asked(active \ {n}, queue) = Asked(active, queue) \ {n}
    BY <1>1, OneLess
  <1>3. /\ fetching = TRUE /\ fetch \in Fetches /\ fetch.todo # {} /\ fetch.todo \subseteq fetch.numbers
        /\ Missing # {} => Asked(active, queue) = Missing
        /\ Missing = {} => Asked(active, queue) = {n}
    BY <1>1, AnswersAreAwaited
  <1>4. /\ fetch.numbers \in SUBSET Prs /\ fetch.todo \in SUBSET Prs /\ fetch.all \in BOOLEAN
        /\ fetch.infos \in [Prs -> Views \cup {NoEntry}]
    BY <1>3 DEF Fetches
  <1>5. n \in fetch.numbers
    BY <1>1, AnswersAreAwaited
  <1>6. listing <=> Missing # {}
    BY <1>1, AnswersAreAwaited
  <1>7. infos \in [Prs -> Views \cup {NoEntry}]
    BY <1>1, <1>4 DEF OuterTyped
  <1>8. {m \in fetch.numbers : infos[m] = NoEntry} = Missing \ {n}
    <2>1. CASE listing
      <3>1. forge[n] # NoEntry
        BY <1>1, EnricherAssumption DEF OuterTyped, Views
      <3> QED BY <1>4, <2>1, <3>1 DEF Missing
    <2>2. CASE ~listing
      BY <1>6, <2>2 DEF Missing
    <2> QED BY <2>1, <2>2
  <1>9. ready <=> Missing \ {n} = {}
    BY <1>8
  <1>10. ready => Asked(active \ {n}, queue) = {}
    <2>1. CASE Missing # {}
      BY <1>2, <1>3, <1>9, <2>1
    <2>2. CASE Missing = {}
      BY <1>2, <1>3, <2>2
    <2> QED BY <2>1, <2>2
  <1>11. ~ready => listing /\ Asked(active \ {n}, queue) = Missing \ {n} /\ rest = fetch.todo
    BY <1>2, <1>3, <1>6, <1>9
  <1>12. /\ gone \in SUBSET Prs /\ rest \subseteq fetch.todo
         /\ prs' = [m \in Prs |-> IF m \in gone THEN "gone"
                                  ELSE IF m = n /\ ~listing THEN infos[n] ELSE prs[m]]
         /\ IF rest = {}
            THEN /\ Done /\ Release(active \ {n}, left)
                 /\ backoff' = FALSE /\ due' = (due /\ ~fetch.all)
            ELSE /\ fetch' = [fetch EXCEPT !.infos = infos, !.todo = rest]
                 /\ IF ready THEN Fill(active \ {n}, left, Append(queue, Min(rest)))
                    ELSE Release(active \ {n}, left)
                 /\ UNCHANGED <<fetching, backoff, due>>
         /\ UNCHANGED <<forge, tracked, changed, visible>>
    BY <1>4 DEF Answer, Unknown
  <1> HIDE DEF listing, infos, todo, ready, gone, rest
  <1>13. OuterTyped'
    <2>1. prs' \in [Prs -> Views \cup {NoEntry}]
      BY <1>1, <1>7, <1>12 DEF OuterTyped, Views
    <2>2. due' \in BOOLEAN /\ backoff' \in BOOLEAN
      BY <1>1, <1>4, <1>12 DEF OuterTyped
    <2> QED BY <1>1, <1>12, <2>1, <2>2 DEF OuterTyped
  <1>14. CASE rest = {}
    <2>1. fetching' = FALSE /\ fetch' = NoFetch /\ Fill(active \ {n}, left, queue)
      BY <1>12, <1>14 DEF Done, Release
    <2>2. ready
      BY <1>3, <1>11, <1>14
    <2>3. Served' /\ Asked(active', queue') = {}
      BY <1>2, <1>10, <2>1, <2>2, FillIsServed
    <2>4. FetchTyped'
      BY <2>1, EnricherAssumption DEF FetchTyped, NoFetch, Fetches
    <2>5. FetchHasItsRequests'
      BY <2>1, <2>3 DEF FetchHasItsRequests
    <2> QED BY <1>13, <2>3, <2>4, <2>5, InvariantParts DEF Inner
  <1>15. CASE rest # {}
    <2>1. /\ fetch' = [fetch EXCEPT !.infos = infos, !.todo = rest] /\ fetching' = TRUE
          /\ ready => Fill(active \ {n}, left, Append(queue, Min(rest)))
          /\ ~ready => Fill(active \ {n}, left, queue)
      BY <1>3, <1>12, <1>15 DEF Release
    <2>2. /\ fetch'.numbers = fetch.numbers /\ fetch'.todo = rest /\ fetch'.infos = infos
          /\ fetch' \in Fetches
      BY <1>3, <1>4, <1>7, <1>12, <2>1 DEF Fetches
    <2>3. Missing' = Missing \ {n}
      BY <1>8, <2>2 DEF Missing
    <2>4. FetchTyped'
      BY <2>1, <2>2 DEF FetchTyped
    <2>5. CASE ready
      <3>1. Min(rest) \in Prs
        BY <1>4, <1>12, <1>15, MinIsOneOf
      <3>2. /\ Fits(active \ {n}, left, Append(queue, Min(rest)))
            /\ Asked(active \ {n}, Append(queue, Min(rest))) = {Min(rest)}
        BY <1>2, <1>10, <2>5, <3>1, ChecksAskedFor
      <3>3. Served' /\ Asked(active', queue') = {Min(rest)}
        BY <2>1, <2>5, <3>2, FillIsServed
      <3>4. FetchHasItsRequests'
        BY <1>3, <1>9, <1>12, <1>15, <2>1, <2>2, <2>3, <2>5, <3>3 DEF FetchHasItsRequests
      <3> QED BY <1>13, <2>4, <3>3, <3>4, InvariantParts DEF Inner
    <2>6. CASE ~ready
      <3>1. Served' /\ Asked(active', queue') = Missing \ {n}
        BY <1>2, <1>11, <2>1, <2>6, FillIsServed
      <3>2. FetchHasItsRequests'
        BY <1>3, <1>9, <1>12, <1>15, <2>1, <2>2, <2>3, <2>6, <3>1 DEF FetchHasItsRequests
      <3> QED BY <1>13, <2>4, <3>1, <3>2, InvariantParts DEF Inner
    <2> QED BY <2>5, <2>6
  <1> QED BY <1>14, <1>15

\* A failed fetch leaves its requests to the pool: nothing is asked for any more.
LEMMA RejectKeeps ==
    ASSUME IInv, NEW n \in Prs, Reject(n) PROVE IInv'
  <1> DEFINE q == [i \in DOMAIN queue |-> Left]
  <1> DEFINE l == left + Cardinality(active) - 1
  <1>1. OuterTyped /\ Inner /\ n \in active /\ Fits(active, left, queue)
    BY InvariantParts DEF Reject, Inner, Served
  <1>2. Fill({}, l, q) /\ fetching' = FALSE /\ fetch' = NoFetch
    BY DEF Reject, Done
  <1>3. q \in Seq(Requests) /\ \A i \in DOMAIN q : q[i] = Left
    BY <1>1 DEF Fits, Requests
  <1>4. Cardinality(active) \in Nat /\ Cardinality(active) # 0 /\ Cardinality({}) = 0
    BY <1>1, PrsAreFinite, FS_EmptySet DEF Fits
  <1>5. l \in Nat /\ Cardinality({}) + l <= Limit
    BY <1>1, <1>4, EnricherAssumption DEF Fits
  <1> HIDE DEF q, l
  <1>6. Asked({}, q) = {} /\ Once({}, q)
    BY <1>3 DEF Asked, Once, ToSet
  <1>7. Fits({}, l, q)
    BY <1>3, <1>5, <1>6 DEF Fits
  <1>8. Served' /\ Asked(active', queue') = {}
    BY <1>2, <1>6, <1>7, FillIsServed
  <1>9. OuterTyped'
    BY <1>1 DEF Reject, OuterTyped, timers
  <1>10. FetchTyped'
    BY <1>2, EnricherAssumption DEF FetchTyped, NoFetch, Fetches
  <1>11. FetchHasItsRequests'
    BY <1>2, <1>8 DEF FetchHasItsRequests
  <1> QED BY <1>8, <1>9, <1>10, <1>11, InvariantParts DEF Inner

\* A slot that a failed fetch held is free for who waits.
LEMMA LeftEndsKeeps ==
    ASSUME IInv, LeftEnds PROVE IInv'
  <1>1. OuterTyped /\ Inner /\ Fits(active, left, queue)
    BY InvariantParts DEF Inner, Served
  <1>2. Fill(active, left - 1, queue) /\ left > 0
    BY DEF LeftEnds, Release
  <1>3. Cardinality(active) \in Nat
    BY <1>1, PrsAreFinite DEF Fits
  <1>4. left - 1 \in Nat /\ Cardinality(active) + (left - 1) <= Limit
    BY <1>1, <1>2, <1>3, EnricherAssumption DEF Fits
  <1>5. Fits(active, left - 1, queue)
    BY <1>1, <1>4 DEF Fits
  <1>6. Served' /\ Asked(active', queue') = Asked(active, queue)
    BY <1>2, <1>5, FillIsServed
  <1>7. OuterTyped' /\ FetchTyped'
    BY <1>1 DEF LeftEnds, OuterTyped, Inner, FetchTyped, timers
  <1>8. FetchHasItsRequests'
    <2>1. fetching' = fetching /\ fetch' = fetch /\ Missing' = Missing
      BY DEF LeftEnds, Missing
    <2> QED BY <1>1, <1>6, <2>1 DEF Inner, FetchHasItsRequests
  <1> QED BY <1>6, <1>7, <1>8, InvariantParts DEF Inner

\* Nothing is asked for after a reload.
LEMMA ReloadKeeps ==
    ASSUME IInv, Reloaded PROVE IInv'
  <1>1. OuterTyped'
    BY EnricherAssumption, InvariantParts DEF Reloaded, OuterTyped
  <1>2. fetching' = FALSE /\ fetch' = NoFetch /\ active' = {} /\ left' = 0 /\ queue' = <<>>
    BY DEF Reloaded, Done
  <1>3. FetchTyped'
    BY <1>2, EnricherAssumption DEF FetchTyped, NoFetch, Fetches
  <1>4. Asked({}, <<>>) = {} /\ Once({}, <<>>) /\ <<>> \in Seq(Requests)
    BY DEF Asked, Once, ToSet
  <1>5. Served'
    BY <1>2, <1>4, FS_EmptySet, EnricherAssumption DEF Served, Fits
  <1>6. FetchHasItsRequests'
    BY <1>2, <1>4 DEF FetchHasItsRequests
  <1> QED BY <1>1, <1>3, <1>5, <1>6, InvariantParts DEF Inner

\* What neither starts nor feeds a fetch leaves it and its requests as they are.
LEMMA QuietSteps ==
    ASSUME IInv, UNCHANGED <<fetching, fetch, pool>>
    PROVE  Inner'
  BY InvariantParts DEF Inner, FetchTyped, Served, Fits, FetchHasItsRequests, Missing, pool

\* Every step keeps the invariant.
LEMMA NextIInv == IInv /\ [Next]_vars => IInv'
  <1> SUFFICES ASSUME IInv, [Next]_vars PROVE IInv'
    OBVIOUS
  <1>1. OuterTyped /\ Inner
    BY InvariantParts
  <1>2. CASE LeftEnds
    BY <1>2, LeftEndsKeeps
  <1>3. CASE BackoffEnds
    BY <1>1, <1>3, QuietSteps, InvariantParts DEF BackoffEnds, OuterTyped, timers
  <1>4. CASE PollTick \/ FocusRegained \/ ForceRefresh
    <2>1. Refresh(TRUE, {}) /\ UNCHANGED <<forge, tracked, prs, backoff, timers>>
      BY <1>4 DEF PollTick, FocusRegained, ForceRefresh
    <2>2. OuterTyped'
      BY <1>1, <2>1 DEF OuterTyped, timers
    <2> QED BY <2>1, <2>2, RefreshKeeps, InvariantParts
  <1>5. CASE Coalesced
    <2>1. Refresh(FALSE, changed) /\ changed \in SUBSET Prs
      BY <1>1, <1>5 DEF Coalesced, OuterTyped
    <2>2. OuterTyped'
      BY <1>1, <1>5 DEF Coalesced, OuterTyped
    <2> QED BY <2>1, <2>2, RefreshKeeps, InvariantParts
  <1>6. CASE SetVisible \/ TimePasses
    <2>1. OuterTyped'
      BY <1>1, <1>6 DEF SetVisible, TimePasses, OuterTyped
    <2> QED BY <1>6, <2>1, QuietSteps, InvariantParts DEF SetVisible, TimePasses
  <1>7. CASE Reloaded
    BY <1>7, ReloadKeeps
  <1>8. ASSUME NEW n \in Prs, Answer(n) \/ Reject(n) PROVE IInv'
    BY <1>8, AnswerKeeps, RejectKeeps
  <1>9. ASSUME NEW n \in Prs, NEW s \in States, TicketChanges(n, s) PROVE IInv'
    <2>1. OuterTyped'
      BY <1>1, <1>9 DEF TicketChanges, OuterTyped
    <2> QED BY <1>9, <2>1, QuietSteps, InvariantParts DEF TicketChanges
  <1>10. ASSUME NEW n \in Prs, NEW v \in Views, ForgeChanges(n, v) PROVE IInv'
    <2>1. OuterTyped'
      BY <1>1, <1>10 DEF ForgeChanges, OuterTyped, timers
    <2> QED BY <1>10, <2>1, QuietSteps, InvariantParts DEF ForgeChanges
  <1>11. CASE UNCHANGED vars
    <2>1. OuterTyped'
      BY <1>1, <1>11 DEF vars, timers, OuterTyped
    <2> QED BY <1>11, <2>1, QuietSteps, InvariantParts DEF vars
  <1> QED BY <1>2, <1>3, <1>4, <1>5, <1>6, <1>7, <1>8, <1>9, <1>10, <1>11 DEF Next

-----------------------------------------------------------------------------
(* What is final.                                                          *)

\* A fetch has stored nothing while infos are missing, and nothing it has still to
\* store is final in the cache.
StoredOnce ==
    /\ Missing # {} => fetch.todo = fetch.numbers
    /\ \A n \in fetch.todo : prs[n] # "final"

\* A pull request the cache holds as final is not asked for.
FinalRests == \A n \in Asked(active, queue) : prs[n] # "final"

\* A final entry stays as it is.
FinalStays == [][\A n \in Prs : prs[n] = "final" => prs'[n] = "final"]_vars

\* An answer stores only what the fetch had still to store.
LEMMA AnswerStores ==
    ASSUME IInv, StoredOnce, NEW n \in Prs, Answer(n)
    PROVE  StoredOnce' /\ \A m \in Prs : prs[m] = "final" => prs'[m] = "final"
  <1> DEFINE listing == fetch.infos[n] = NoEntry
  <1> DEFINE infos == IF listing THEN [fetch.infos EXCEPT ![n] = forge[n]] ELSE fetch.infos
  <1> DEFINE todo  == IF listing THEN fetch.todo ELSE fetch.todo \ {n}
  <1> DEFINE ready == \A m \in fetch.numbers : infos[m] # NoEntry
  <1> DEFINE gone  == IF ready THEN Unknown(todo, infos) ELSE {}
  <1> DEFINE rest  == todo \ gone
  <1>1. /\ fetch \in Fetches /\ (listing <=> Missing # {})
        /\ Missing = {} => n \in fetch.todo
    BY InvariantParts, AnswersAreAwaited DEF Answer
  <1>2. /\ prs' = [m \in Prs |-> IF m \in gone THEN "gone"
                                 ELSE IF m = n /\ ~listing THEN infos[n] ELSE prs[m]]
        /\ \/ rest = {} /\ fetch' = NoFetch
           \/ rest # {} /\ fetch' = [fetch EXCEPT !.infos = infos, !.todo = rest]
    BY DEF Answer, Done
  <1>3. /\ gone \subseteq fetch.todo /\ rest \subseteq fetch.todo /\ rest \cap gone = {}
        /\ ~listing => n \notin rest
        /\ listing /\ ~ready => rest = fetch.todo
        /\ ~listing => infos = fetch.infos
    BY DEF Unknown
  <1>4. fetch.todo \in SUBSET Prs
    BY <1>1 DEF Fetches
  <1>5. ready <=> \A m \in fetch.numbers : infos[m] # NoEntry
    OBVIOUS
  <1> HIDE DEF listing, infos, todo, ready, gone, rest
  <1>6. \A m \in Prs : prs[m] = "final" => prs'[m] = "final"
    BY <1>1, <1>2, <1>3 DEF StoredOnce
  <1>7. CASE rest = {}
    BY <1>2, <1>6, <1>7 DEF StoredOnce, Missing, NoFetch
  <1>8. CASE rest # {}
    <2>1. fetch'.numbers = fetch.numbers /\ fetch'.todo = rest /\ fetch'.infos = infos
      BY <1>1, <1>2, <1>8 DEF Fetches
    <2>2. \A m \in rest : prs'[m] = prs[m] /\ prs[m] # "final"
      BY <1>2, <1>3, <1>4 DEF StoredOnce
    <2>3. Missing' # {} => listing /\ ~ready
      <3>1. Missing' # {} => ~ready
        BY <1>5, <2>1 DEF Missing
      <3>2. ~listing => ready
        BY <1>1, <1>3, <1>5 DEF Missing
      <3> QED BY <3>1, <3>2
    <2>4. Missing' # {} => rest = fetch.numbers
      BY <1>1, <1>3, <2>3 DEF StoredOnce
    <2> QED BY <1>6, <2>1, <2>2, <2>4 DEF StoredOnce
  <1> QED BY <1>7, <1>8

\* Every step stores something only once, and nothing over a final entry.
LEMMA NextStoresOnce ==
    ASSUME IInv, StoredOnce, [Next]_vars
    PROVE  StoredOnce' /\ \A m \in Prs : prs[m] = "final" => prs'[m] = "final"
  <1>1. ASSUME UNCHANGED <<prs, fetch>> PROVE StoredOnce'
    BY <1>1 DEF StoredOnce, Missing
  <1>2. ASSUME NEW all \in BOOLEAN, NEW C \in SUBSET Prs, Refresh(all, C), prs' = prs
        PROVE  StoredOnce'
    <2>1. \A n \in Numbers(all, C) : prs[n] # "final"
      BY DEF Numbers, Frozen
    <2>2. \/ fetch' = fetch
          \/ /\ fetch'.numbers = Numbers(all, C) /\ fetch'.todo = Numbers(all, C)
      BY <1>2 DEF Refresh
    <2> QED BY <1>1, <1>2, <2>1, <2>2 DEF StoredOnce
  <1>3. ASSUME prs' = prs, fetch' = NoFetch PROVE StoredOnce'
    BY <1>3 DEF StoredOnce, Missing, NoFetch
  <1>4. CASE \E n \in Prs : Answer(n)
    BY <1>4, AnswerStores
  <1>5. CASE Coalesced
    <2>1. changed \in SUBSET Prs /\ Refresh(FALSE, changed) /\ prs' = prs
      BY <1>5, InvariantParts DEF OuterTyped, Coalesced
    <2> QED BY <1>2, <2>1
  <1>6. CASE PollTick \/ FocusRegained \/ ForceRefresh
    <2>1. Refresh(TRUE, {}) /\ prs' = prs
      BY <1>6 DEF PollTick, FocusRegained, ForceRefresh
    <2> QED BY <1>2, <2>1
  <1>7. CASE Reloaded \/ \E n \in Prs : Reject(n)
    BY <1>3, <1>7 DEF Reloaded, Reject, Done
  <1>8. CASE LeftEnds \/ BackoffEnds \/ SetVisible \/ TimePasses \/ UNCHANGED vars
    BY <1>1, <1>8 DEF LeftEnds, BackoffEnds, SetVisible, TimePasses, vars
  <1>9. CASE \E n \in Prs : \/ \E s \in States : TicketChanges(n, s)
                            \/ \E v \in Views : ForgeChanges(n, v)
    BY <1>1, <1>9 DEF TicketChanges, ForgeChanges
  <1>10. prs' = prs \/ \E n \in Prs : Answer(n)
    BY DEF Next, LeftEnds, BackoffEnds, PollTick, FocusRegained, ForceRefresh, Coalesced, SetVisible,
       TimePasses, Reloaded, Reject, TicketChanges, ForgeChanges, vars
  <1>11. \A m \in Prs : prs[m] = "final" => prs'[m] = "final"
    BY <1>4, <1>10, AnswerStores
  <1> QED BY <1>4, <1>5, <1>6, <1>7, <1>8, <1>9, <1>11 DEF Next

\* What a fetch has still to store is not final, in every state.
LEMMA StoresOnce == Spec => [](IInv /\ StoredOnce)
  <1>1. Init => StoredOnce
    BY DEF Init, StoredOnce, Missing, NoFetch
  <1>2. IInv /\ StoredOnce /\ [Next]_vars => StoredOnce'
    BY NextStoresOnce
  <1> QED BY <1>1, <1>2, InitIInv, NextIInv, PTL DEF Spec

-----------------------------------------------------------------------------
(* The theorems.                                                           *)

\* The cache, the fetch and the pool are well typed, and no fetch means no leftovers
\* of one in entry.fetching (enricher.ts:182-224, http.ts:82-115).
THEOREM EnricherTypes == Spec => []TypeOK
  <1>1. IInv => TypeOK
    BY DEF IInv
  <1> QED BY <1>1, InitIInv, NextIInv, PTL DEF Spec

\* For any width of the pool no more requests are on their way than it has slots,
\* and none waits while one is free, however fetches fail and leave their requests
\* behind (http.ts:82-115).
THEOREM PoolStaysServed == Spec => []PoolIsServed
  <1>1. IInv => PoolIsServed
    BY DEF IInv
  <1> QED BY <1>1, InitIInv, NextIInv, PTL DEF Spec

\* A pull request has one request at a time on its way or waiting, though polls,
\* focus, force refreshes and ticket changes ask for it at once (enricher.ts:182-224).
THEOREM NobodyAskedTwice == Spec => []AskedOnce
  <1>1. IInv => AskedOnce
    BY DEF IInv
  <1> QED BY <1>1, InitIInv, NextIInv, PTL DEF Spec

\* A fetch under way always has a request on its way or waiting, for exactly what it
\* needs next, and no request is out for a fetch that is over: entry.fetching cannot
\* be left set with nothing to reset it (enricher.ts:188-224, bitbucket.ts:104-140).
THEOREM FetchesKeepTheirRequests == Spec => []FetchHasItsRequests
  <1>1. IInv => FetchHasItsRequests
    BY DEF IInv
  <1> QED BY <1>1, InitIInv, NextIInv, PTL DEF Spec

\* A pull request that the cache holds as merged or closed is asked for no more, by
\* no poll, change or fetch under way (enricher.ts:182-195).
THEOREM FinalsAreNotAskedFor == Spec => []FinalRests
  <1>1. IInv /\ StoredOnce => FinalRests
    <2> SUFFICES ASSUME IInv, StoredOnce, NEW n \in Asked(active, queue) PROVE prs[n] # "final"
      BY DEF FinalRests
    <2>1. fetching /\ Inner
      BY InvariantParts DEF Inner, FetchHasItsRequests, FetchTyped
    <2>2. fetch \in Fetches /\ fetch.todo # {}
      BY <2>1 DEF Inner, FetchTyped, FetchHasItsRequests
    <2>3. n \in fetch.todo
      <3>1. CASE Missing # {}
        BY <2>1, <3>1 DEF Inner, FetchHasItsRequests, StoredOnce, Missing
      <3>2. CASE Missing = {}
        BY <2>1, <2>2, <3>2, MinIsOneOf DEF Inner, FetchHasItsRequests, Fetches
      <3> QED BY <3>1, <3>2
    <2> QED BY <2>3 DEF StoredOnce
  <1> QED BY <1>1, StoresOnce, PTL

\* A merged or closed pull request is never shown as anything else again, whatever
\* answers arrive late (enricher.ts:182-195, 216-240).
THEOREM FinalsStay == Spec => FinalStays
  <1>1. IInv /\ StoredOnce /\ [Next]_vars => [\A n \in Prs : prs[n] = "final" => prs'[n] = "final"]_vars
    BY NextStoresOnce
  <1> QED BY <1>1, StoresOnce, PTL DEF Spec, FinalStays

=============================================================================

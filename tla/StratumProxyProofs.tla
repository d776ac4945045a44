------------------------- MODULE StratumProxyProofs -------------------------
(* Proofs about StratumProxy, for any sets of machines, clients and pools, *)
(* and about WebControl, which is composed with it and commands it.        *)
EXTENDS WebControl, FiniteSetTheorems, FunctionTheorems, SequenceTheorems,
        WellFoundedInduction, TLAPS

-----------------------------------------------------------------------------
(* Induction over the turns of a loop, the events of a handler, the entries of a list *)

\* Every set of numbers that is not empty has a least one.
LEMMA LeastNumber ==
    ASSUME NEW S, S \subseteq Nat, S # {}
    PROVE  \E m \in S : \A k \in S : m <= k
<1> DEFINE R == OpToRel(<, Nat)
<1>1. IsWellFoundedOn(R, Nat)
  BY NatLessThanWellFounded
<1>2. \A x, y \in Nat : <<x, y>> \in R <=> x < y
  BY DEF OpToRel
<1> HIDE DEF R
<1>3. PICK m \in S : \A k \in S : ~(<<k, m>> \in R)
  BY <1>1, WFMin
<1>4. ASSUME NEW k \in S PROVE m <= k
  <2>1. k \in Nat /\ m \in Nat
    OBVIOUS
  <2>2. ~(k < m)
    BY <1>2, <1>3, <2>1
  <2> QED BY <2>1, <2>2
<1> QED BY <1>4

\* A set that holds 0 and with each number up to n its successor holds them all.
LEMMA UpTo ==
    ASSUME NEW n \in Nat, NEW S, 0 \in S, \A i \in 1..n : i - 1 \in S => i \in S
    PROVE  \A i \in 0..n : i \in S
<1> SUFFICES ASSUME (0..n) \ S # {} PROVE FALSE
  OBVIOUS
<1>1. (0..n) \ S \subseteq Nat
  OBVIOUS
<1>2. PICK m \in (0..n) \ S : \A k \in (0..n) \ S : m <= k
  BY <1>1, LeastNumber
<1>3. m \in 1..n /\ m - 1 \in 0..n /\ ~(m <= m - 1)
  BY <1>2
<1>4. m - 1 \in S
  BY <1>2, <1>3
<1> QED BY <1>2, <1>3, <1>4

-----------------------------------------------------------------------------
(* Queues without duplicates *)

IsQueue(q) ==
    /\ q \in Seq(Workers)
    /\ \A i, j \in DOMAIN q : q[i] = q[j] => i = j

\* Dropping the first k entries of a queue leaves a queue of the others.
LEMMA DropFirstOfQueue ==
    ASSUME NEW q, IsQueue(q), NEW k \in 0..Len(q)
    PROVE  /\ IsQueue(SubSeq(q, k + 1, Len(q)))
           /\ Range(SubSeq(q, k + 1, Len(q))) = Range(q) \ {q[i] : i \in 1..k}
<1> DEFINE r == SubSeq(q, k + 1, Len(q))
<1>1. /\ q \in Seq(Workers) /\ Len(q) \in Nat /\ DOMAIN q = 1..Len(q)
      /\ \A i \in 1..Len(q) : q[i] \in Workers
  BY LenProperties, ElementOfSeq DEF IsQueue
<1>2. /\ r \in Seq(Workers)
      /\ Len(r) = Len(q) - k
      /\ \A i \in 1..(Len(q) - k) : r[i] = q[i + k]
  <2>1. k + 1 \in Int /\ Len(q) \in Int /\ \A i \in (k + 1)..Len(q) : q[i] \in Workers
    BY <1>1
  <2>2. /\ r \in Seq(Workers)
        /\ Len(r) = IF k + 1 <= Len(q) THEN Len(q) - (k + 1) + 1 ELSE 0
        /\ \A i \in 1..(Len(q) - (k + 1) + 1) : r[i] = q[k + 1 + i - 1]
    BY <2>1, SubSeqProperties
  <2> HIDE DEF r
  <2>3. Len(r) = Len(q) - k
    <3>1. Len(q) \in Nat /\ k \in 0..Len(q)
      BY <1>1
    <3>2. Len(r) = IF k + 1 <= Len(q) THEN Len(q) - (k + 1) + 1 ELSE 0
      BY <2>2
    <3> QED BY <3>1, <3>2
  <2>4. ASSUME NEW i \in 1..(Len(q) - k) PROVE r[i] = q[i + k]
    <3>1. i \in 1..(Len(q) - (k + 1) + 1) /\ k + 1 + i - 1 = i + k
      BY <1>1
    <3> QED BY <2>2, <3>1
  <2> QED BY <2>2, <2>3, <2>4
<1> HIDE DEF r
<1>3. DOMAIN r = 1..(Len(q) - k)
  BY <1>2, LenProperties
<1>4. IsQueue(r)
  <2>1. ASSUME NEW i \in 1..(Len(q) - k), NEW j \in 1..(Len(q) - k), r[i] = r[j]
        PROVE  i = j
    <3>1. q[i + k] = q[j + k] /\ i + k \in DOMAIN q /\ j + k \in DOMAIN q
      BY <1>1, <1>2, <2>1
    <3>2. i + k = j + k
      BY <3>1 DEF IsQueue
    <3> QED BY <1>1, <3>2
  <2> QED BY <1>2, <1>3, <2>1 DEF IsQueue
<1>5. ASSUME NEW w \in Range(r) PROVE w \in Range(q) \ {q[i] : i \in 1..k}
  <2>1. PICK i \in 1..(Len(q) - k) : r[i] = w
    BY <1>3 DEF Range
  <2>2. q[i + k] = w /\ i + k \in DOMAIN q /\ i + k > k
    BY <1>1, <1>2, <2>1
  <2>3. ASSUME NEW j \in 1..k, q[j] = w PROVE FALSE
    <3>1. j \in DOMAIN q
      BY <1>1
    <3> QED BY <2>2, <2>3, <3>1 DEF IsQueue
  <2> QED BY <2>2, <2>3 DEF Range
<1>6. ASSUME NEW w \in Range(q) \ {q[i] : i \in 1..k} PROVE w \in Range(r)
  <2>1. PICK i \in 1..Len(q) : q[i] = w
    BY <1>1, <1>6 DEF Range
  <2>2. i > k
    BY <1>1, <1>6, <2>1
  <2>3. i - k \in 1..(Len(q) - k) /\ (i - k) + k = i
    BY <1>1, <2>1, <2>2
  <2>4. r[i - k] = w
    BY <1>2, <2>1, <2>3
  <2> QED BY <1>3, <2>3, <2>4 DEF Range
<1> QED BY <1>4, <1>5, <1>6 DEF r

\* The entries of a sequence without its i-th.
LEMMA RemoveAtFacts ==
    ASSUME NEW X, NEW q \in Seq(X), NEW i \in 1..Len(q)
    PROVE  /\ RemoveAt(q, i) \in Seq(X)
           /\ Len(RemoveAt(q, i)) = Len(q) - 1
           /\ \A j \in 1..(Len(q) - 1) : RemoveAt(q, i)[j] = q[IF j < i THEN j ELSE j + 1]
<1> DEFINE n == Len(q)
           r == RemoveAt(q, i)
<1>0. n \in Nat /\ DOMAIN q = 1..n /\ i \in 1..n /\ \A j \in 1..n : q[j] \in X
  BY LenProperties, ElementOfSeq
<1> DEFINE a == SubSeq(q, 1, i - 1)
           b == SubSeq(q, i + 1, n)
<1>1. /\ 1 \in Int /\ i - 1 \in Int /\ i + 1 \in Int /\ n \in Int
      /\ \A j \in 1..(i - 1) : q[j] \in X
      /\ \A j \in (i + 1)..n : q[j] \in X
  BY <1>0
<1>2. /\ a \in Seq(X)
      /\ Len(a) = IF 1 <= i - 1 THEN i - 1 - 1 + 1 ELSE 0
      /\ \A j \in 1..(i - 1 - 1 + 1) : a[j] = q[1 + j - 1]
  BY <1>1, SubSeqProperties
<1>3. /\ b \in Seq(X)
      /\ Len(b) = IF i + 1 <= n THEN n - (i + 1) + 1 ELSE 0
      /\ \A j \in 1..(n - (i + 1) + 1) : b[j] = q[(i + 1) + j - 1]
  BY <1>1, SubSeqProperties
<1>4. r = a \o b
  BY DEF RemoveAt
<1> HIDE DEF a, b, r
<1>5. Len(a) = i - 1 /\ Len(b) = n - i
  <2>1. n \in Nat /\ i \in 1..n
    BY <1>0
  <2>2. /\ Len(a) = IF 1 <= i - 1 THEN i - 1 - 1 + 1 ELSE 0
        /\ Len(b) = IF i + 1 <= n THEN n - (i + 1) + 1 ELSE 0
    BY <1>2, <1>3
  <2> QED BY <2>1, <2>2
<1>6. /\ r \in Seq(X)
      /\ Len(r) = Len(a) + Len(b)
      /\ \A j \in 1..(Len(a) + Len(b)) :
           r[j] = IF j <= Len(a) THEN a[j] ELSE b[j - Len(a)]
  BY <1>2, <1>3, <1>4, ConcatProperties
<1>7. Len(r) = n - 1
  <2>1. n \in Nat /\ i \in 1..n
    BY <1>0
  <2>2. Len(r) = Len(a) + Len(b)
    BY <1>6
  <2> QED BY <1>5, <2>1, <2>2
<1>8. ASSUME NEW j \in 1..(n - 1) PROVE r[j] = q[IF j < i THEN j ELSE j + 1]
  <2>1. n \in Nat /\ i \in 1..n /\ Len(a) + Len(b) = n - 1
    BY <1>0, <1>6, <1>7
  <2>2. r[j] = IF j <= Len(a) THEN a[j] ELSE b[j - Len(a)]
    BY <1>6, <2>1
  <2>3. CASE j < i
    <3>1. j \in 1..(i - 1 - 1 + 1) /\ 1 + j - 1 = j /\ j <= Len(a)
      BY <1>5, <2>1, <2>3
    <3> QED BY <1>2, <2>2, <2>3, <3>1
  <2>4. CASE j >= i
    <3>1. /\ j - Len(a) \in 1..(n - (i + 1) + 1)
          /\ (i + 1) + (j - Len(a)) - 1 = j + 1
          /\ ~(j <= Len(a)) /\ ~(j < i)
      <4>1. Len(a) = i - 1 /\ n \in Nat /\ i \in 1..n /\ j \in 1..(n - 1) /\ j >= i
        BY <1>5, <2>1, <2>4
      <4> QED BY <4>1
    <3> QED BY <1>3, <2>2, <3>1
  <2> QED BY <2>1, <2>3, <2>4
<1> QED BY <1>6, <1>7, <1>8 DEF r

\* Removing the entry of a worker leaves a queue of the others.
LEMMA RemoveFromQueue ==
    ASSUME NEW q, IsQueue(q), NEW i \in DOMAIN q
    PROVE  /\ IsQueue(RemoveAt(q, i))
           /\ Range(RemoveAt(q, i)) = Range(q) \ {q[i]}
<1> DEFINE n == Len(q)
           r == RemoveAt(q, i)
<1>1. /\ q \in Seq(Workers) /\ n \in Nat /\ DOMAIN q = 1..n /\ i \in 1..n
      /\ \A j \in 1..n : q[j] \in Workers
  BY LenProperties, ElementOfSeq DEF IsQueue
<1>2. /\ r \in Seq(Workers)
      /\ Len(r) = n - 1
      /\ \A j \in 1..(n - 1) : r[j] = q[IF j < i THEN j ELSE j + 1]
  BY <1>1, RemoveAtFacts
<1> HIDE DEF r
<1>3. DOMAIN r = 1..(n - 1)
  BY <1>2, LenProperties
<1> DEFINE at(j) == IF j < i THEN j ELSE j + 1
<1>a. ASSUME NEW j \in 1..(n - 1)
      PROVE  at(j) \in 1..n /\ at(j) # i /\ r[j] = q[at(j)]
  <2>1. n \in Nat /\ i \in 1..n
    BY <1>1
  <2>2. at(j) \in 1..n /\ at(j) # i
    BY <2>1
  <2> QED BY <1>2, <2>2
<1>4. IsQueue(r)
  <2>1. ASSUME NEW j \in 1..(n - 1), NEW l \in 1..(n - 1), r[j] = r[l]
        PROVE  j = l
    <3>1. at(j) = at(l)
      <4> HIDE DEF at
      <4> QED BY <1>1, <1>a, <2>1 DEF IsQueue
    <3>2. n \in Nat /\ i \in 1..n
      BY <1>1
    <3> QED BY <3>1, <3>2
  <2> QED BY <1>2, <1>3, <2>1 DEF IsQueue
<1>5. ASSUME NEW w \in Range(r) PROVE w \in Range(q) \ {q[i]}
  <2>1. PICK j \in 1..(n - 1) : r[j] = w
    BY <1>3 DEF Range
  <2> HIDE DEF at
  <2>2. at(j) \in DOMAIN q /\ at(j) # i /\ q[at(j)] = w
    BY <1>1, <1>a, <2>1
  <2> QED BY <1>1, <2>2 DEF IsQueue, Range
<1>6. ASSUME NEW w \in Range(q) \ {q[i]} PROVE w \in Range(r)
  <2>1. PICK j \in 1..n : q[j] = w
    BY <1>1, <1>6 DEF Range
  <2>2. j # i /\ n \in Nat /\ i \in 1..n
    BY <1>1, <1>6, <2>1
  <2>3. \E l \in 1..(n - 1) : at(l) = j
    <3>1. CASE j < i
      <4>1. j \in 1..(n - 1) /\ at(j) = j
        BY <2>2, <3>1
      <4> QED BY <4>1
    <3>2. CASE j > i
      <4>1. j - 1 \in 1..(n - 1) /\ at(j - 1) = j
        BY <2>2, <3>2
      <4> QED BY <4>1
    <3> QED BY <2>2, <3>1, <3>2
  <2>4. PICK l \in 1..(n - 1) : at(l) = j
    BY <2>3
  <2>5. r[l] = w
    BY <1>a, <2>1, <2>4
  <2> QED BY <1>3, <2>5 DEF Range
<1> QED BY <1>4, <1>5, <1>6 DEF r

-----------------------------------------------------------------------------
(* The distribution of the queue over the pools *)

\* The assignment part of the invariant, for any values of its variables:
\* queue, connected machines, wrappers, pools, their machines, their counters.
Placed(q, ws, wp, ps, pw, wc) ==
    /\ IsQueue(q)
    /\ wp \in [Workers -> Clients \cup {NoPool}]
    /\ pw \in [Clients -> SUBSET Workers]
    /\ wc \in [Clients -> Nat]
    /\ Range(q) = {w \in ws : wp[w] = NoPool}
    /\ \A w \in Workers \ ws : wp[w] = NoPool
    /\ \A w \in Workers, c \in Clients : w \in pw[c] <=> w \in ws /\ wp[w] = c
    /\ \A c \in Clients : pw[c] # {} => c \in ps
    /\ \A c \in Clients : wc[c] = Cardinality(pw[c]) /\ wc[c] <= MaxWorkersCount

LEMMA DistributionFacts ==
    ASSUME NEW n \in Nat, NEW ps, NEW cnt, NEW to \in Distributions(n, ps, cnt)
    PROVE  /\ Len(to) \in 0..n
           /\ DOMAIN to = 1..Len(to)
           /\ to \in [1..Len(to) -> ps]
           /\ \A p \in ps : Taken(to, p) = {}
                \/ cnt[p] + Cardinality(Taken(to, p)) <= MaxWorkersCount
<1>1. PICK k \in 0..n : to \in [1..k -> ps]
  BY DEF Distributions
<1>2. k \in Nat /\ to \in Seq(ps)
  BY <1>1
<1>3. Len(to) = k
  BY <1>1, <1>2, LenProperties
<1> QED BY <1>1, <1>3 DEF Distributions

\* The machines a pool takes are as many as the entries it takes.
LEMMA TakenCardinality ==
    ASSUME NEW q, IsQueue(q), NEW ps, NEW k \in 0..Len(q), NEW to \in [1..k -> ps], NEW p
    PROVE  LET given == {q[i] : i \in Taken(to, p)}
           IN  /\ IsFiniteSet(given)
               /\ Cardinality(given) = Cardinality(Taken(to, p))
               /\ Cardinality(Taken(to, p)) \in Nat
<1> DEFINE T == Taken(to, p)
           given == {q[i] : i \in T}
           f == [i \in T |-> q[i]]
<1>1. Len(q) \in Nat /\ DOMAIN q = 1..Len(q) /\ k \in Int /\ 1 \in Int
  BY LenProperties DEF IsQueue
<1>2. T \subseteq 1..k /\ 1..k \subseteq DOMAIN q
  BY <1>1 DEF Taken
<1>3. IsFiniteSet(T) /\ Cardinality(T) \in Nat
  BY <1>1, <1>2, FS_Interval, FS_Subset, FS_CardinalityType
<1>4. f \in Bijection(T, given)
  <2>1. f \in [T -> given]
    OBVIOUS
  <2>2. \A i, j \in T : f[i] = f[j] => i = j
    BY <1>2 DEF IsQueue
  <2>3. \A w \in given : \E i \in T : f[i] = w
    OBVIOUS
  <2> QED BY <2>1, <2>2, <2>3 DEF Bijection, Injection, Surjection, IsInjective
<1>5. ExistsBijection(T, given)
  BY <1>4 DEF ExistsBijection
<1> QED BY <1>3, <1>5, FS_Bijection

\* Whatever the distribution, the assignment stays consistent.
LEMMA DistributeKeepsPlaced ==
    ASSUME NEW q, NEW ws, ws \subseteq Workers, NEW wp, NEW ps, ps \subseteq Clients,
           NEW pw, NEW wc, Placed(q, ws, wp, ps, pw, wc),
           NEW to \in Distributions(Len(q), ps, wc)
    PROVE  Placed(SubSeq(q, Len(to) + 1, Len(q)), ws, PoolsGiven(to, q, wp), ps,
                  WorkersGiven(to, q, pw), CountsGiven(to, wc))
<1> DEFINE k == Len(to)
           r == SubSeq(q, k + 1, Len(q))
           wp2 == PoolsGiven(to, q, wp)
           pw2 == WorkersGiven(to, q, pw)
           wc2 == CountsGiven(to, wc)
           given(c) == {q[i] : i \in Taken(to, c)}
<1>q. IsQueue(q) /\ Len(q) \in Nat /\ DOMAIN q = 1..Len(q) /\ \A i \in DOMAIN q : q[i] \in Workers
  BY LenProperties, ElementOfSeq DEF Placed, IsQueue
<1>t. /\ k \in 0..Len(q)
      /\ DOMAIN to = 1..k
      /\ to \in [1..k -> ps]
      /\ \A p \in ps : Taken(to, p) = {} \/ wc[p] + Cardinality(Taken(to, p)) <= MaxWorkersCount
  BY <1>q, DistributionFacts
<1>d. DOMAIN to \subseteq DOMAIN q
  <2>1. 1..k \subseteq 1..Len(q)
    BY <1>q, <1>t
  <2> QED BY <1>q, <1>t, <2>1
<1> HIDE DEF k, wp2, pw2, wc2, r
<1>1. IsQueue(r) /\ Range(r) = Range(q) \ {q[i] : i \in 1..k}
  BY <1>q, <1>t, DropFirstOfQueue DEF r
<1>2. ASSUME NEW i \in DOMAIN to
      PROVE  /\ wp2[q[i]] = to[i] /\ to[i] \in ps /\ q[i] \in ws /\ wp[q[i]] = NoPool
  <2>1. q[i] \in Workers /\ i \in DOMAIN q /\ q[i] \in Range(q)
    BY <1>q, <1>d DEF Range
  <2>2. q[i] \in ws /\ wp[q[i]] = NoPool
    BY <2>1 DEF Placed
  <2>3. (CHOOSE j \in DOMAIN to : q[j] = q[i]) = i
    <3>1. \A j \in DOMAIN to : q[j] = q[i] => j = i
      BY <1>q, <1>d, <2>1 DEF IsQueue
    <3> QED BY <3>1
  <2>4. wp2[q[i]] = to[i]
    BY <2>1, <2>3 DEF wp2, PoolsGiven
  <2> QED BY <1>t, <2>2, <2>4
<1>3. ASSUME NEW w \in Workers, w \notin {q[i] : i \in DOMAIN to} PROVE wp2[w] = wp[w]
  BY <1>3 DEF wp2, PoolsGiven
<1>4. wp2 \in [Workers -> Clients \cup {NoPool}]
  <2>1. \A w \in Workers : wp2[w] \in Clients \cup {NoPool}
    BY <1>2, <1>3 DEF Placed
  <2> QED BY <2>1 DEF wp2, PoolsGiven
<1>5. ASSUME NEW c \in Clients
      PROVE  /\ pw2[c] = pw[c] \cup given(c)
             /\ given(c) \subseteq Workers
             /\ wc2[c] = wc[c] + Cardinality(Taken(to, c))
             /\ given(c) # {} => c \in ps
  BY <1>q, <1>t, <1>d DEF pw2, wc2, WorkersGiven, CountsGiven, Taken
<1>6. Range(r) = {w \in ws : wp2[w] = NoPool}
  <2>1. ASSUME NEW w \in Range(r) PROVE w \in ws /\ wp2[w] = NoPool
    <3>1. w \in Range(q) /\ w \notin {q[i] : i \in DOMAIN to}
      BY <1>1, <1>t, <2>1
    <3>2. w \in ws /\ wp[w] = NoPool
      BY <3>1 DEF Placed
    <3> QED BY <1>3, <3>1, <3>2
  <2>2. ASSUME NEW w \in ws, wp2[w] = NoPool PROVE w \in Range(r)
    <3>1. w \notin {q[i] : i \in DOMAIN to}
      BY <1>2, <2>2, NoPoolAssumption
    <3>2. w \in Range(q)
      BY <1>3, <2>2, <3>1 DEF Placed
    <3> QED BY <1>1, <1>t, <3>1, <3>2
  <2> QED BY <2>1, <2>2
<1>7. ASSUME NEW w \in Workers, NEW c \in Clients
      PROVE  w \in pw2[c] <=> w \in ws /\ wp2[w] = c
  <2>0. w \in pw[c] <=> w \in ws /\ wp[w] = c
    BY DEF Placed
  <2>1. CASE w \in {q[i] : i \in DOMAIN to}
    <3>1. PICK i \in DOMAIN to : q[i] = w
      BY <2>1
    <3>2. wp2[w] = to[i] /\ w \in ws /\ wp[w] = NoPool /\ w \notin pw[c]
      BY <1>2, <2>0, <3>1, NoPoolAssumption
    <3>3. w \in given(c) <=> to[i] = c
      BY <1>q, <1>d, <3>1 DEF Taken, IsQueue
    <3> QED BY <1>5, <3>2, <3>3
  <2>2. CASE w \notin {q[i] : i \in DOMAIN to}
    <3>1. w \notin given(c)
      BY <2>2 DEF Taken
    <3> QED BY <1>3, <1>5, <2>0, <2>2, <3>1
  <2> QED BY <2>1, <2>2
<1>8. ASSUME NEW c \in Clients
      PROVE  /\ pw2[c] # {} => c \in ps
             /\ wc2[c] \in Nat /\ wc2[c] = Cardinality(pw2[c]) /\ wc2[c] <= MaxWorkersCount
  <2>1. /\ pw[c] # {} => c \in ps
        /\ pw[c] \subseteq Workers /\ wc[c] \in Nat
        /\ wc[c] = Cardinality(pw[c]) /\ wc[c] <= MaxWorkersCount
    BY DEF Placed
  <2>2. IsFiniteSet(pw[c])
    BY <2>1, WorkersAssumption, FS_Subset
  <2>3. /\ IsFiniteSet(given(c))
        /\ Cardinality(given(c)) = Cardinality(Taken(to, c))
        /\ Cardinality(Taken(to, c)) \in Nat
    BY <1>q, <1>t, TakenCardinality
  <2>4. pw[c] \cap given(c) = {}
    <3>1. \A i \in Taken(to, c) : q[i] \in Workers /\ wp[q[i]] = NoPool
      BY <1>2, <1>q, <1>d DEF Taken
    <3>2. \A i \in Taken(to, c) : q[i] \notin pw[c]
      BY <3>1, NoPoolAssumption DEF Placed
    <3> QED BY <3>2
  <2>5. Cardinality(pw2[c]) = wc[c] + Cardinality(Taken(to, c))
    <3>1. Cardinality(pw[c] \cup given(c)) =
             Cardinality(pw[c]) + Cardinality(given(c)) - Cardinality(pw[c] \cap given(c))
      BY <2>2, <2>3, FS_Union
    <3>2. Cardinality(pw[c] \cap given(c)) = 0
      BY <2>4, FS_EmptySet
    <3>3. pw2[c] = pw[c] \cup given(c) /\ wc[c] = Cardinality(pw[c])
      BY <1>5, <2>1
    <3>4. Cardinality(pw2[c]) =
             wc[c] + Cardinality(given(c)) - Cardinality(pw[c] \cap given(c))
      BY <3>1, <3>3
    <3> HIDE DEF given
    <3> QED BY <2>1, <2>3, <3>2, <3>4
  <2>6. wc2[c] <= MaxWorkersCount
    <3>1. CASE given(c) = {}
      <4>1. Cardinality(Taken(to, c)) = 0
        BY <2>3, <3>1, FS_EmptySet
      <4> QED BY <1>5, <2>1, <4>1
    <3>2. CASE given(c) # {}
      <4>1. c \in ps /\ Taken(to, c) # {}
        BY <1>5, <3>2
      <4> QED BY <1>5, <1>t, <4>1
    <3> QED BY <3>1, <3>2
  <2> QED BY <1>5, <2>1, <2>3, <2>5, <2>6
<1>9. pw2 \in [Clients -> SUBSET Workers] /\ wc2 \in [Clients -> Nat]
  <2>1. \A c \in Clients : pw2[c] \subseteq Workers
    BY <1>5 DEF Placed
  <2>2. pw2 = [c \in Clients |-> pw2[c]] /\ wc2 = [c \in Clients |-> wc2[c]]
    BY DEF pw2, wc2, WorkersGiven, CountsGiven
  <2> QED BY <1>8, <2>1, <2>2
<1>a. ASSUME NEW w \in Workers \ ws PROVE wp2[w] = NoPool
  BY <1>2, <1>3 DEF Placed
<1> HIDE DEF given
<1>10. Placed(r, ws, wp2, ps, pw2, wc2)
  BY <1>1, <1>4, <1>6, <1>7, <1>8, <1>9, <1>a DEF Placed
<1> QED BY <1>10 DEF r, k, wp2, pw2, wc2

\* A machine that connects joins the queue.
LEMMA JoinKeepsPlaced ==
    ASSUME NEW q, NEW ws, ws \subseteq Workers, NEW wp, NEW ps, NEW pw, NEW wc,
           Placed(q, ws, wp, ps, pw, wc), NEW w \in Workers \ ws
    PROVE  Placed(Append(q, w), ws \cup {w}, wp, ps, pw, wc)
<1> DEFINE r == Append(q, w)
<1>1. q \in Seq(Workers) /\ Len(q) \in Nat /\ DOMAIN q = 1..Len(q)
  BY LenProperties DEF Placed, IsQueue
<1>2. /\ r \in Seq(Workers) /\ DOMAIN r = 1..(Len(q) + 1)
      /\ \A i \in 1..Len(q) : r[i] = q[i]
      /\ r[Len(q) + 1] = w
  BY <1>1
<1>3. \A i \in 1..(Len(q) + 1) : i \in DOMAIN q \/ i = Len(q) + 1
  BY <1>1
<1>4. w \notin Range(q) /\ wp[w] = NoPool
  BY DEF Placed
<1>5. \A i \in DOMAIN q : q[i] # w
  BY <1>4 DEF Range
<1> HIDE DEF r
<1>6. \A i, j \in DOMAIN r : r[i] = r[j] => i = j
  BY <1>1, <1>2, <1>3, <1>5 DEF Placed, IsQueue
<1>7. Range(r) = Range(q) \cup {w}
  <2>1. ASSUME NEW x \in Range(r) PROVE x \in Range(q) \cup {w}
    BY <1>1, <1>2, <1>3 DEF Range
  <2>2. ASSUME NEW x \in Range(q) PROVE x \in Range(r)
    <3>1. PICK i \in DOMAIN q : q[i] = x
      BY DEF Range
    <3>2. i \in DOMAIN r /\ r[i] = x
      BY <1>1, <1>2, <3>1
    <3> QED BY <3>2 DEF Range
  <2>3. w \in Range(r)
    <3>1. Len(q) + 1 \in DOMAIN r
      BY <1>1, <1>2
    <3> QED BY <1>2, <3>1 DEF Range
  <2> QED BY <2>1, <2>2, <2>3
<1>8. Placed(r, ws \cup {w}, wp, ps, pw, wc)
  <2>1. IsQueue(r)
    BY <1>2, <1>6 DEF IsQueue
  <2>2. Range(r) = {x \in ws \cup {w} : wp[x] = NoPool}
    BY <1>4, <1>7 DEF Placed
  <2>3. \A x \in Workers, c \in Clients : x \in pw[c] <=> x \in ws \cup {w} /\ wp[x] = c
    BY <1>4, NoPoolAssumption DEF Placed
  <2> QED BY <2>1, <2>2, <2>3 DEF Placed
<1> QED BY <1>8 DEF r

\* The machines of a lost pool join the queue.
LEMMA LosePoolKeepsPlaced ==
    ASSUME NEW q, NEW ws, ws \subseteq Workers, NEW wp, NEW ps, NEW pw, NEW wc,
           Placed(q, ws, wp, ps, pw, wc), NEW c \in Clients, NEW back \in InKeyOrder(pw[c])
    PROVE  Placed(q \o back, ws, [w \in Workers |-> IF w \in pw[c] THEN NoPool ELSE wp[w]],
                  ps \ {c}, [pw EXCEPT ![c] = {}], [wc EXCEPT ![c] = 0])
<1> DEFINE r == q \o back
           n == Cardinality(pw[c])
           wp2 == [w \in Workers |-> IF w \in pw[c] THEN NoPool ELSE wp[w]]
           pw2 == [pw EXCEPT ![c] = {}]
           wc2 == [wc EXCEPT ![c] = 0]
<1>0. pw[c] \subseteq Workers /\ n \in Nat
  BY DEF Placed
<1>1. q \in Seq(Workers) /\ Len(q) \in Nat /\ DOMAIN q = 1..Len(q)
  BY LenProperties DEF Placed, IsQueue
<1> HIDE DEF n
<1>2. /\ back \in [1..n -> pw[c]]
      /\ \A i, j \in 1..n : i < j => back[i] < back[j]
      /\ pw[c] \subseteq {back[i] : i \in 1..n}
  BY DEF InKeyOrder, n
<1>3. back \in Seq(Workers) /\ Len(back) = n
  BY <1>0, <1>2
<1>4. \A i, j \in 1..n : back[i] = back[j] => i = j
  <2> SUFFICES ASSUME NEW i \in 1..n, NEW j \in 1..n, back[i] = back[j], i # j PROVE FALSE
    OBVIOUS
  <2>1. back[i] \in Nat /\ back[j] \in Nat
    BY <1>0, <1>2, WorkersAssumption
  <2>2. i < j \/ j < i
    BY <1>0
  <2> QED BY <1>2, <2>1, <2>2
<1>5. /\ r \in Seq(Workers)
      /\ Len(r) = Len(q) + n
      /\ \A i \in 1..(Len(q) + n) : r[i] = IF i <= Len(q) THEN q[i] ELSE back[i - Len(q)]
  BY <1>1, <1>3, ConcatProperties
<1>6. DOMAIN r = 1..(Len(q) + n)
  BY <1>5, LenProperties
<1> HIDE DEF r
<1>7. ASSUME NEW i \in DOMAIN r
      PROVE  \/ i \in DOMAIN q /\ r[i] = q[i]
             \/ i - Len(q) \in 1..n /\ r[i] = back[i - Len(q)]
  <2>1. i <= Len(q) => i \in 1..Len(q)
    BY <1>0, <1>1, <1>6
  <2>2. ~(i <= Len(q)) => i - Len(q) \in 1..n
    BY <1>0, <1>1, <1>6
  <2> QED BY <1>1, <1>5, <1>6, <2>1, <2>2
<1>8. ASSUME NEW w \in pw[c] PROVE w \notin Range(q)
  BY <1>0, NoPoolAssumption DEF Placed
<1>9. IsQueue(r)
  <2> SUFFICES ASSUME NEW i \in DOMAIN r, NEW j \in DOMAIN r, r[i] = r[j] PROVE i = j
    BY <1>5 DEF IsQueue
  <2>1. \A a \in DOMAIN q, b \in 1..n : q[a] # back[b]
    BY <1>2, <1>8 DEF Range
  <2>2. CASE i \in DOMAIN q /\ r[i] = q[i]
    <3>1. j \in DOMAIN q /\ r[j] = q[j]
      BY <1>7, <2>1, <2>2
    <3> QED BY <2>2, <3>1 DEF Placed, IsQueue
  <2>3. CASE i - Len(q) \in 1..n /\ r[i] = back[i - Len(q)]
    <3>1. j - Len(q) \in 1..n /\ r[j] = back[j - Len(q)]
      BY <1>7, <2>1, <2>3
    <3>2. i - Len(q) = j - Len(q)
      BY <1>4, <2>3, <3>1
    <3>3. i \in Int /\ j \in Int
      BY <1>6
    <3> QED BY <1>1, <3>2, <3>3
  <2> QED BY <1>7, <2>2, <2>3
<1>10. Range(r) = Range(q) \cup pw[c]
  <2>1. ASSUME NEW w \in Range(r) PROVE w \in Range(q) \cup pw[c]
    BY <1>2, <1>7 DEF Range
  <2>2. ASSUME NEW w \in Range(q) PROVE w \in Range(r)
    <3>1. PICK i \in 1..Len(q) : q[i] = w
      BY <1>1 DEF Range
    <3>2. i \in 1..(Len(q) + n) /\ i <= Len(q)
      BY <1>0, <1>1
    <3> QED BY <1>5, <1>6, <3>1, <3>2 DEF Range
  <2>3. ASSUME NEW w \in pw[c] PROVE w \in Range(r)
    <3>1. PICK i \in 1..n : back[i] = w
      BY <1>2
    <3>2. i + Len(q) \in 1..(Len(q) + n) /\ ~(i + Len(q) <= Len(q)) /\ (i + Len(q)) - Len(q) = i
      BY <1>0, <1>1
    <3>3. r[i + Len(q)] = w
      BY <1>5, <3>1, <3>2
    <3> QED BY <1>6, <3>2, <3>3 DEF Range
  <2> QED BY <2>1, <2>2, <2>3
<1>11. /\ wp2 \in [Workers -> Clients \cup {NoPool}]
       /\ pw2 \in [Clients -> SUBSET Workers]
       /\ wc2 \in [Clients -> Nat]
  BY DEF Placed
<1>12. Range(r) = {w \in ws : wp2[w] = NoPool}
  BY <1>0, <1>10 DEF Placed
<1>13. \A w \in Workers \ ws : wp2[w] = NoPool
  BY DEF Placed
<1>14. \A w \in Workers, d \in Clients : w \in pw2[d] <=> w \in ws /\ wp2[w] = d
  BY NoPoolAssumption DEF Placed
<1>15. \A d \in Clients : /\ pw2[d] # {} => d \in ps \ {c}
                          /\ wc2[d] = Cardinality(pw2[d]) /\ wc2[d] <= MaxWorkersCount
  BY MaxWorkersCountAssumption, FS_EmptySet DEF Placed
<1> HIDE DEF wp2, pw2, wc2
<1>16. Placed(r, ws, wp2, ps \ {c}, pw2, wc2)
  BY <1>9, <1>11, <1>12, <1>13, <1>14, <1>15 DEF Placed
<1> QED BY <1>16 DEF r, wp2, pw2, wc2

\* A machine that disconnects leaves the queue, or the pool it mines for.
LEMMA LeaveQueueKeepsPlaced ==
    ASSUME NEW q, NEW ws, ws \subseteq Workers, NEW wp, NEW ps, NEW pw, NEW wc,
           Placed(q, ws, wp, ps, pw, wc), NEW i \in DOMAIN q
    PROVE  Placed(RemoveAt(q, i), ws \ {q[i]}, wp, ps, pw, wc)
<1>1. IsQueue(RemoveAt(q, i)) /\ Range(RemoveAt(q, i)) = Range(q) \ {q[i]}
  BY RemoveFromQueue DEF Placed
<1>2. q[i] \in ws /\ wp[q[i]] = NoPool
  BY DEF Placed, Range
<1> QED BY <1>1, <1>2, NoPoolAssumption DEF Placed

LEMMA LeavePoolKeepsPlaced ==
    ASSUME NEW q, NEW ws, ws \subseteq Workers, NEW wp, NEW ps, NEW pw, NEW wc,
           Placed(q, ws, wp, ps, pw, wc), NEW w \in ws, wp[w] # NoPool
    PROVE  Placed(q, ws \ {w}, [wp EXCEPT ![w] = NoPool], ps,
                  [pw EXCEPT ![wp[w]] = @ \ {w}], [wc EXCEPT ![wp[w]] = @ - 1])
<1> DEFINE c == wp[w]
           wp2 == [wp EXCEPT ![w] = NoPool]
           pw2 == [pw EXCEPT ![c] = @ \ {w}]
           wc2 == [wc EXCEPT ![c] = @ - 1]
<1>1. w \in Workers /\ c \in Clients /\ w \in pw[c]
  BY DEF Placed
<1>2. /\ IsFiniteSet(pw[c]) /\ wc[c] = Cardinality(pw[c]) /\ wc[c] \in Nat
      /\ wc[c] <= MaxWorkersCount
  BY <1>1, WorkersAssumption, FS_Subset DEF Placed
<1>3. Cardinality(pw[c] \ {w}) = wc[c] - 1 /\ Cardinality(pw[c] \ {w}) \in Nat
  BY <1>1, <1>2, FS_RemoveElement, FS_CardinalityType
<1>4. /\ wp2 \in [Workers -> Clients \cup {NoPool}]
      /\ pw2 \in [Clients -> SUBSET Workers]
      /\ wc2 \in [Clients -> Nat]
  BY <1>1, <1>3 DEF Placed
<1>5. Range(q) = {x \in ws \ {w} : wp2[x] = NoPool}
  BY <1>1 DEF Placed
<1>6. \A x \in Workers \ (ws \ {w}) : wp2[x] = NoPool
  BY <1>1 DEF Placed
<1>7. \A x \in Workers, d \in Clients : x \in pw2[d] <=> x \in ws \ {w} /\ wp2[x] = d
  BY <1>1, NoPoolAssumption DEF Placed
<1>8. ASSUME NEW d \in Clients
      PROVE  /\ pw2[d] # {} => d \in ps
             /\ wc2[d] = Cardinality(pw2[d]) /\ wc2[d] <= MaxWorkersCount
  <2>1. CASE d = c
    <3>1. pw2[d] = pw[c] \ {w} /\ wc2[d] = wc[c] - 1 /\ c \in ps
      BY <1>1, <2>1 DEF Placed
    <3>2. wc[c] - 1 <= MaxWorkersCount
      BY <1>2, MaxWorkersCountAssumption
    <3> QED BY <1>3, <2>1, <3>1, <3>2
  <2>2. CASE d # c
    BY <1>1, <2>2 DEF Placed
  <2> QED BY <2>1, <2>2
<1> HIDE DEF wp2, pw2, wc2
<1>9. Placed(q, ws \ {w}, wp2, ps, pw2, wc2)
  BY <1>4, <1>5, <1>6, <1>7, <1>8 DEF Placed
<1> QED BY <1>9 DEF wp2, pw2, wc2

-----------------------------------------------------------------------------
(* The inductive invariant *)

\* The clients: the two maps hold the live ones, and only those opened for
\* the selected pool were not told to close.
ClientInv ==
    /\ phase \in [Clients -> {"none", "opening", "connected"}]
    /\ destroyed \subseteq Clients
    /\ options \in [Clients -> PoolInfos \cup {NoPool}]
    /\ pool_connect_info \in PoolInfos \cup {NoPool}
    /\ workers \subseteq Workers
    /\ pools \subseteq Clients
    /\ openNoConnectPools \subseteq Clients
    /\ HeldIsLive
    /\ OnlySelectedPool

IInv ==
    /\ ClientInv
    /\ Placed(freeWorkers, workers, workerPool, pools, poolWorkers, workersCount)

LEMMA IInvImpliesAll ==
    IInv => TypeOK /\ HeldIsLive /\ WorkersPlaced /\ CountsAgree /\ OnlySelectedPool
BY DEF IInv, ClientInv, Placed, IsQueue, TypeOK, WorkersPlaced, CountsAgree

LEMMA InitEstablishesIInv == Init => IInv
<1> SUFFICES ASSUME Init PROVE IInv
  OBVIOUS
<1>1. ClientInv
  BY DEF Init, ClientInv, HeldIsLive, OnlySelectedPool, Live
<1>2. IsQueue(freeWorkers) /\ Range(freeWorkers) = {}
  BY DEF Init, IsQueue, Range
<1>3. Placed(freeWorkers, workers, workerPool, pools, poolWorkers, workersCount)
  BY <1>2, NoPoolAssumption, MaxWorkersCountAssumption, FS_EmptySet DEF Init, Placed
<1> QED BY <1>1, <1>3 DEF IInv

\* Opening clients with the selected settings keeps the client part.
LEMMA AddPoolAutoKeepsClientInv ==
    ASSUME ClientInv, NEW info \in PoolInfos \cup {NoPool}, AddPoolAuto(info),
           pool_connect_info' = info, workers' = workers, pools' = pools,
           \/ destroyed' = destroyed /\ pool_connect_info = info
           \/ DisconnectHeld
    PROVE  ClientInv'
<1>1. Live = Held
  BY DEF ClientInv, HeldIsLive, Live, Held
<1>2. destroyed \subseteq destroyed' /\ destroyed' \subseteq Live
  BY <1>1 DEF ClientInv, HeldIsLive, DisconnectHeld
<1>3. \A c \in Live \ destroyed' : options[c] = info
  BY <1>1 DEF ClientInv, OnlySelectedPool, DisconnectHeld
<1>4. CASE UNCHANGED <<phase, options, openNoConnectPools>>
  BY <1>2, <1>3, <1>4 DEF ClientInv, HeldIsLive, OnlySelectedPool, Live
<1>5. CASE info \in PoolInfos /\ \E count : OpenClients(count, info)
  <2>1. PICK new \in SUBSET (Clients \ Live) :
          /\ phase' = [c \in Clients |-> IF c \in new THEN "opening" ELSE phase[c]]
          /\ options' = [c \in Clients |-> IF c \in new THEN info ELSE options[c]]
          /\ openNoConnectPools' = openNoConnectPools \cup new
    BY <1>5 DEF OpenClients
  <2>2. Live' = Live \cup new
    BY <2>1 DEF Live
  <2>3. OnlySelectedPool'
    BY <1>3, <2>1, <2>2 DEF OnlySelectedPool, Live
  <2>4. HeldIsLive'
    BY <1>2, <2>1, <2>2 DEF ClientInv, HeldIsLive, Live
  <2> QED BY <1>2, <1>5, <2>1, <2>3, <2>4 DEF ClientInv, Live
<1>6. \/ UNCHANGED <<phase, options, openNoConnectPools>>
      \/ info \in PoolInfos /\ \E count : OpenClients(count, info)
  BY DEF AddPoolAuto
<1> QED BY <1>4, <1>5, <1>6

\* A whole distribution, as the handlers call it.
LEMMA FreeWorkersToPoolsKeepsPlaced ==
    ASSUME NEW q, NEW ws, ws \subseteq Workers, NEW wp, NEW ps, ps \subseteq Clients,
           NEW pw, NEW wc, Placed(q, ws, wp, ps, pw, wc),
           FreeWorkersToPools(q, ps, wp, pw, wc)
    PROVE  Placed(freeWorkers', ws, workerPool', ps, poolWorkers', workersCount')
<1>1. PICK to \in Distributions(Len(q), ps, wc) :
        /\ freeWorkers' = SubSeq(q, Len(to) + 1, Len(q))
        /\ workerPool' = PoolsGiven(to, q, wp)
        /\ poolWorkers' = WorkersGiven(to, q, pw)
        /\ workersCount' = CountsGiven(to, wc)
  BY Zenon DEF FreeWorkersToPools
<1>2. Placed(SubSeq(q, Len(to) + 1, Len(q)), ws, PoolsGiven(to, q, wp), ps,
             WorkersGiven(to, q, pw), CountsGiven(to, wc))
  BY DistributeKeepsPlaced
<1> QED BY <1>1, <1>2, Zenon

\* Every step keeps the invariant: one case per handler.
LEMMA NextKeepsIInv == IInv /\ [Next]_vars => IInv'
<1> SUFFICES ASSUME IInv, [Next]_vars PROVE IInv'
  OBVIOUS
<1> DEFINE P == Placed(freeWorkers, workers, workerPool, pools, poolWorkers, workersCount)
<1>0. ClientInv /\ P /\ workers \subseteq Workers /\ pools \subseteq Clients
  BY DEF IInv, ClientInv
<1>1. CASE Loop
  <2>1. ClientInv'
    <3>1. pool_connect_info \in PoolInfos \cup {NoPool}
      BY <1>0 DEF ClientInv
    <3> QED BY <1>0, <1>1, <3>1, AddPoolAutoKeepsClientInv DEF Loop, assignVars
  <2>2. P'
    BY <1>0, <1>1 DEF Loop, assignVars
  <2> QED BY <2>1, <2>2 DEF IInv
<1>2. ASSUME NEW info \in PoolInfos, ControlPoolConnect(info) PROVE IInv'
  <2>1. ClientInv'
    BY <1>0, <1>2, AddPoolAutoKeepsClientInv DEF ControlPoolConnect, assignVars
  <2>2. P'
    BY <1>0, <1>2 DEF ControlPoolConnect, assignVars
  <2> QED BY <2>1, <2>2 DEF IInv
<1>3. CASE ControlPoolDisconnect
  <2>1. ClientInv'
    BY <1>0, <1>3 DEF ControlPoolDisconnect, DisconnectHeld, ClientInv, HeldIsLive,
       OnlySelectedPool, Live, Held
  <2>2. P'
    BY <1>0, <1>3 DEF ControlPoolDisconnect, assignVars
  <2> QED BY <2>1, <2>2 DEF IInv
<1>4. ASSUME NEW c \in Clients, PoolConnect(c) PROVE IInv'
  <2>1. ClientInv'
    BY <1>0, <1>4 DEF PoolConnect, ClientInv, HeldIsLive, OnlySelectedPool, Live
  <2>2. c \notin pools
    BY <1>0, <1>4 DEF PoolConnect, ClientInv, HeldIsLive
  <2>3. poolWorkers[c] = {} /\ workersCount[c] = 0
    BY <1>0, <2>2, FS_EmptySet DEF Placed
  <2>4. [poolWorkers EXCEPT ![c] = {}] = poolWorkers /\ [workersCount EXCEPT ![c] = 0] = workersCount
    BY <1>0, <2>3 DEF Placed
  <2>5. Placed(freeWorkers, workers, workerPool, pools', poolWorkers, workersCount)
    BY <1>0, <1>4 DEF PoolConnect, Placed
  <2>6. pools' \subseteq Clients /\ workers' = workers
    BY <1>0, <1>4 DEF PoolConnect
  <2>7. FreeWorkersToPools(freeWorkers, pools', workerPool, poolWorkers, workersCount)
    BY <1>4, <2>4 DEF PoolConnect
  <2>8. Placed(freeWorkers', workers, workerPool', pools', poolWorkers', workersCount')
    BY <1>0, <2>5, <2>6, <2>7, FreeWorkersToPoolsKeepsPlaced
  <2>9. P'
    BY <2>6, <2>8
  <2> QED BY <2>1, <2>9 DEF IInv
<1>5. ASSUME NEW c \in Clients, ClientError(c) PROVE IInv'
  <2>1. ClientInv'
    BY <1>0, <1>5 DEF ClientError, ClientInv, HeldIsLive, OnlySelectedPool, Live
  <2>2. P'
    BY <1>0, <1>5 DEF ClientError, assignVars
  <2> QED BY <2>1, <2>2 DEF IInv
<1>6. ASSUME NEW c \in Clients, SocketClose(c) PROVE IInv'
  <2>1. ClientInv'
    <3>1. pools' = pools \ {c}
      BY <1>0, <1>6 DEF SocketClose, PoolDisconnect, ClientInv, HeldIsLive
    <3> QED BY <1>0, <1>6, <3>1 DEF SocketClose, ClientInv, HeldIsLive, OnlySelectedPool, Live
  <2>2. CASE phase[c] = "connected"
    <3>1. PoolDisconnect(c) /\ workers' = workers
      BY <1>6, <2>2 DEF SocketClose
    <3>2. PICK back \in InKeyOrder(poolWorkers[c]) : freeWorkers' = freeWorkers \o back
      BY <3>1 DEF PoolDisconnect
    <3>3. Placed(freeWorkers \o back, workers,
                 [w \in Workers |-> IF w \in poolWorkers[c] THEN NoPool ELSE workerPool[w]],
                 pools \ {c}, [poolWorkers EXCEPT ![c] = {}], [workersCount EXCEPT ![c] = 0])
      BY <1>0, LosePoolKeepsPlaced
    <3>4. P'
      BY <3>1, <3>2, <3>3 DEF PoolDisconnect
    <3> QED BY <2>1, <3>4 DEF IInv
  <2>3. CASE phase[c] # "connected"
    <3>1. P'
      BY <1>0, <1>6, <2>3 DEF SocketClose, assignVars
    <3> QED BY <2>1, <3>1 DEF IInv
  <2> QED BY <2>2, <2>3
<1>7. ASSUME NEW w \in Workers, WorkerConnect(w) PROVE IInv'
  <2>1. ClientInv'
    BY <1>0, <1>7 DEF WorkerConnect, clientVars, ClientInv, HeldIsLive, OnlySelectedPool, Live
  <2>2. Placed(Append(freeWorkers, w), workers', workerPool, pools, poolWorkers, workersCount)
    BY <1>0, <1>7, JoinKeepsPlaced DEF WorkerConnect
  <2>3. workers' \subseteq Workers /\ pools' = pools
    BY <1>0, <1>7 DEF WorkerConnect
  <2>4. FreeWorkersToPools(Append(freeWorkers, w), pools, workerPool, poolWorkers, workersCount)
    BY <1>7 DEF WorkerConnect
  <2>5. Placed(freeWorkers', workers', workerPool', pools, poolWorkers', workersCount')
    BY <1>0, <2>2, <2>3, <2>4, FreeWorkersToPoolsKeepsPlaced
  <2>6. P'
    BY <2>3, <2>5
  <2> QED BY <2>1, <2>6 DEF IInv
<1>8. ASSUME NEW w \in Workers, WorkerDisconnect(w) PROVE IInv'
  <2>1. ClientInv'
    BY <1>0, <1>8 DEF WorkerDisconnect, clientVars, ClientInv, HeldIsLive, OnlySelectedPool, Live
  <2>2. pools' = pools /\ workers' = workers \ {w} /\ w \in workers
    BY <1>8 DEF WorkerDisconnect
  <2>3. CASE workerPool[w] # NoPool
    <3>1. \A i \in DOMAIN freeWorkers : freeWorkers[i] # w
      BY <1>0, <2>3 DEF Placed, Range
    <3>2. /\ freeWorkers' = freeWorkers
          /\ workerPool' = [workerPool EXCEPT ![w] = NoPool]
          /\ poolWorkers' = [poolWorkers EXCEPT ![workerPool[w]] = @ \ {w}]
          /\ workersCount' = [workersCount EXCEPT ![workerPool[w]] = @ - 1]
      BY <1>8, <2>3, <3>1 DEF WorkerDisconnect, DelWorker
    <3>3. P'
      BY <1>0, <2>2, <2>3, <3>2, LeavePoolKeepsPlaced
    <3> QED BY <2>1, <3>3 DEF IInv
  <2>4. CASE workerPool[w] = NoPool
    <3>1. \E i \in DOMAIN freeWorkers : freeWorkers[i] = w
      BY <1>0, <2>2, <2>4 DEF Placed, Range
    <3> DEFINE i == CHOOSE j \in DOMAIN freeWorkers : freeWorkers[j] = w
    <3>2. i \in DOMAIN freeWorkers /\ freeWorkers[i] = w
      BY <3>1
    <3>3. /\ freeWorkers' = RemoveAt(freeWorkers, i)
          /\ UNCHANGED <<poolWorkers, workersCount>>
          /\ workerPool' = [workerPool EXCEPT ![w] = NoPool]
      BY <1>8, <2>4, <3>1 DEF WorkerDisconnect
    <3>4. workerPool' = workerPool
      BY <1>0, <2>2, <2>4, <3>3 DEF Placed
    <3> HIDE DEF i
    <3>5. P'
      BY <1>0, <2>2, <3>2, <3>3, <3>4, LeaveQueueKeepsPlaced
    <3> QED BY <2>1, <3>5 DEF IInv
  <2> QED BY <2>3, <2>4
<1>9. CASE UNCHANGED vars
  BY <1>9 DEF vars, IInv, ClientInv, HeldIsLive, OnlySelectedPool, Live, Placed
<1> QED BY <1>1, <1>2, <1>3, <1>4, <1>5, <1>6, <1>7, <1>8, <1>9 DEF Next

LEMMA InvariantHolds == Spec => []IInv
BY InitEstablishesIInv, NextKeepsIInv, PTL DEF Spec

-----------------------------------------------------------------------------
(* The number of connections *)

\* The least multiple of d that is not below n.
LEMMA CeilFacts ==
    ASSUME NEW n \in Nat, NEW d \in Nat \ {0}
    PROVE  /\ Ceil(n, d) \in Nat
           /\ n <= Ceil(n, d) * d
           /\ \A c \in Nat : n <= c * d => Ceil(n, d) <= c
<1> DEFINE a == n + d - 1
           q == a \div d
<1>1. a \in Nat /\ q \in Nat /\ a = d * q + (a % d) /\ a % d \in 0..(d - 1)
  BY SMTT(30)
<1>2. Ceil(n, d) = q
  BY DEF Ceil
<1> HIDE DEF q
<1>3. n <= q * d
  BY <1>1, SMTT(30)
<1>4. ASSUME NEW c \in Nat, n <= c * d PROVE q <= c
  <2>1. CASE q >= c + 1
    <3>1. d * q >= d * (c + 1)
      BY <1>1, <2>1, SMTT(30)
    <3>2. d * (c + 1) = c * d + d
      BY SMTT(30)
    <3>3. d * q <= n + d - 1
      BY <1>1, SMTT(30)
    <3>4. d * q \in Int /\ c * d \in Int
      BY <1>1
    <3> QED BY <1>4, <3>1, <3>2, <3>3, <3>4
  <2> QED BY <1>1, <2>1
<1> QED BY <1>1, <1>2, <1>3, <1>4

\* As many clients as all machines need, and one in any case.
Needed ==
    LET n == Ceil(Cardinality(Workers), MaxWorkersCount) IN IF n = 0 THEN 1 ELSE n

LEMMA NeededFacts ==
    /\ Cardinality(Workers) \in Nat
    /\ Needed \in Nat \ {0}
    /\ Cardinality(Workers) <= Needed * MaxWorkersCount
    /\ Cardinality(Workers) <= MaxWorkersCount => Needed = 1
<1>1. Cardinality(Workers) \in Nat
  BY WorkersAssumption, FS_CardinalityType
<1> DEFINE n == Ceil(Cardinality(Workers), MaxWorkersCount)
<1>2. /\ n \in Nat
      /\ Cardinality(Workers) <= n * MaxWorkersCount
      /\ \A c \in Nat : Cardinality(Workers) <= c * MaxWorkersCount => n <= c
  BY <1>1, MaxWorkersCountAssumption, CeilFacts
<1>3. Needed = IF n = 0 THEN 1 ELSE n
  BY DEF Needed
<1> HIDE DEF n
<1>4. Cardinality(Workers) <= Needed * MaxWorkersCount
  <2>1. CASE n = 0
    <3>1. n * MaxWorkersCount = 0 /\ Needed * MaxWorkersCount = MaxWorkersCount
      BY <1>3, <2>1, MaxWorkersCountAssumption
    <3> QED BY <1>1, <1>2, <3>1, MaxWorkersCountAssumption
  <2> QED BY <1>2, <1>3, <2>1
<1>5. ASSUME Cardinality(Workers) <= MaxWorkersCount PROVE Needed = 1
  <2>1. 1 * MaxWorkersCount = MaxWorkersCount
    BY MaxWorkersCountAssumption
  <2>2. n <= 1
    BY <1>2, <1>5, <2>1
  <2> QED BY <1>2, <1>3, <2>2
<1> QED BY <1>1, <1>2, <1>3, <1>4, <1>5

\* The entries of a queue are as many as the machines in it.
LEMMA QueueCardinality ==
    ASSUME NEW q, IsQueue(q)
    PROVE  /\ Len(q) \in Nat
           /\ IsFiniteSet(Range(q)) /\ Cardinality(Range(q)) = Len(q)
           /\ Range(q) \subseteq Workers
<1>1. /\ Len(q) \in Nat /\ DOMAIN q = 1..Len(q)
      /\ \A i \in DOMAIN q : q[i] \in Workers
      /\ q \in [1..Len(q) -> Range(q)]
  BY LenProperties, ElementOfSeq DEF IsQueue, Range
<1>2. q \in Bijection(1..Len(q), Range(q))
  BY <1>1 DEF IsQueue, Range, Bijection, Injection, Surjection, IsInjective
<1>3. IsFiniteSet(1..Len(q)) /\ Cardinality(1..Len(q)) = Len(q)
  BY <1>1, FS_Interval
<1>4. IsFiniteSet(Range(q)) /\ Cardinality(Range(q)) = Len(q)
  BY <1>2, <1>3, FS_Bijection DEF ExistsBijection
<1> QED BY <1>1, <1>4 DEF Range

\* Full pools and the queue share no machine, so they cannot hold more
\* machines than there are.
LEMMA FullPoolsBound ==
    ASSUME NEW q, NEW ws, ws \subseteq Workers, NEW wp, NEW ps, ps \subseteq Clients,
           NEW pw, NEW wc, Placed(q, ws, wp, ps, pw, wc),
           \A p \in ps : wc[p] >= MaxWorkersCount
    PROVE  /\ Cardinality(ps) \in Nat
           /\ Cardinality(ps) * MaxWorkersCount + Len(q) <= Cardinality(Workers)
<1> DEFINE M == MaxWorkersCount
           seats == ps \X (1..M)
           held == Workers \ Range(q)
           seat == [p \in ps |-> CHOOSE f : f \in Bijection(1..M, pw[p])]
           g == [s \in seats |-> seat[s[1]][s[2]]]
<1>1. ASSUME NEW p \in ps
      PROVE  seat[p] \in Bijection(1..M, pw[p])
  <2>1. /\ pw[p] \subseteq Workers /\ wc[p] \in Nat
        /\ wc[p] = Cardinality(pw[p]) /\ wc[p] <= M /\ wc[p] >= M
    BY DEF Placed
  <2>2. Cardinality(pw[p]) = M /\ IsFiniteSet(pw[p])
    BY <2>1, MaxWorkersCountAssumption, WorkersAssumption, FS_Subset
  <2>3. \E f : f \in Bijection(1..M, pw[p])
    BY <2>2, FS_CardinalityType DEF ExistsBijection
  <2> QED BY <2>3
<1> HIDE DEF seat
<1>2. g \in Injection(seats, held)
  <2>1. ASSUME NEW p \in ps, NEW i \in 1..M
        PROVE  /\ seat[p][i] \in pw[p] /\ seat[p][i] \in held /\ wp[seat[p][i]] = p
               /\ \A j \in 1..M : seat[p][i] = seat[p][j] => i = j
    <3>1. /\ seat[p][i] \in pw[p]
          /\ \A j \in 1..M : seat[p][i] = seat[p][j] => i = j
      BY <1>1 DEF Bijection, Injection, Surjection, IsInjective
    <3>2. seat[p][i] \in Workers /\ p \in Clients
      BY <3>1 DEF Placed
    <3>3. wp[seat[p][i]] = p
      BY <3>1, <3>2 DEF Placed
    <3>4. seat[p][i] \notin Range(q)
      BY <3>2, <3>3, NoPoolAssumption DEF Placed
    <3> QED BY <3>1, <3>2, <3>3, <3>4
  <2>2. \A s \in seats : s[1] \in ps /\ s[2] \in 1..M /\ s = <<s[1], s[2]>>
    OBVIOUS
  <2>3. g \in [seats -> held]
    BY <2>1, <2>2
  <2>4. ASSUME NEW s \in seats, NEW t \in seats, g[s] = g[t] PROVE s = t
    <3>1. seat[s[1]][s[2]] = seat[t[1]][t[2]]
      BY <2>4
    <3>2. s[1] = t[1]
      BY <2>1, <2>2, <3>1
    <3>3. s[2] = t[2]
      BY <2>1, <2>2, <3>1, <3>2
    <3> QED BY <2>2, <3>2, <3>3
  <2> QED BY <2>3, <2>4 DEF Injection, IsInjective
<1>3. IsFiniteSet(ps) /\ Cardinality(ps) \in Nat
  BY ClientsAssumption, FS_Subset, FS_CardinalityType
<1>4. IsFiniteSet(1..M) /\ Cardinality(1..M) = M
  BY MaxWorkersCountAssumption, FS_Interval
<1>5. Cardinality(seats) = Cardinality(ps) * M
  BY <1>3, <1>4, FS_Product
<1>6. /\ Len(q) \in Nat /\ Cardinality(Workers) \in Nat /\ IsFiniteSet(held)
      /\ Cardinality(held) = Cardinality(Workers) - Len(q)
  <2>1. IsQueue(q)
    BY DEF Placed
  <2>2. Workers \cap Range(q) = Range(q) /\ Cardinality(Range(q)) = Len(q) /\ Len(q) \in Nat
    BY <2>1, QueueCardinality
  <2>3. IsFiniteSet(Workers) /\ Cardinality(Workers) \in Nat
    BY WorkersAssumption, FS_CardinalityType
  <2>4. /\ IsFiniteSet(held)
        /\ Cardinality(held) = Cardinality(Workers) - Cardinality(Workers \cap Range(q))
    BY <2>3, FS_Difference
  <2> HIDE DEF held
  <2> QED BY <2>2, <2>3, <2>4
<1>7. Cardinality(seats) <= Cardinality(held)
  BY <1>2, <1>6, FS_Injection
<1> HIDE DEF seats, held
<1>8. Cardinality(ps) * M \in Int
  BY <1>3, MaxWorkersCountAssumption
<1> QED BY <1>3, <1>5, <1>6, <1>7, <1>8

\* After a distribution nobody waits, or every pool is full.
LEMMA DistributionFills ==
    ASSUME NEW q, NEW ws, ws \subseteq Workers, NEW wp, NEW ps, ps \subseteq Clients,
           NEW pw, NEW wc, Placed(q, ws, wp, ps, pw, wc),
           FreeWorkersToPools(q, ps, wp, pw, wc)
    PROVE  \/ Len(freeWorkers') = 0
           \/ \A p \in ps : workersCount'[p] >= MaxWorkersCount
<1>1. PICK to \in Distributions(Len(q), ps, wc) :
        /\ freeWorkers' = SubSeq(q, Len(to) + 1, Len(q))
        /\ workersCount' = CountsGiven(to, wc)
  BY Zenon DEF FreeWorkersToPools
<1>2. IsQueue(q) /\ Len(q) \in Nat
  BY QueueCardinality DEF Placed
<1>3. /\ Len(to) \in 0..Len(q) /\ DOMAIN to = 1..Len(to)
      /\ to \in [1..Len(to) -> ps]
  BY <1>2, DistributionFacts
<1>4. CASE \A p \in ps : ~(wc[p] + Cardinality(Taken(to, p)) < MaxWorkersCount)
  <2>1. ASSUME NEW p \in ps PROVE workersCount'[p] >= MaxWorkersCount
    <3>1. p \in Clients /\ wc[p] \in Nat
      BY DEF Placed
    <3>2. Cardinality(Taken(to, p)) \in Nat
      BY <1>2, <1>3, TakenCardinality
    <3>3. workersCount'[p] = wc[p] + Cardinality(Taken(to, p))
      BY <1>1, <3>1 DEF CountsGiven
    <3> QED BY <1>4, <3>1, <3>2, <3>3, MaxWorkersCountAssumption
  <2> QED BY <2>1
<1>5. CASE \E p \in ps : wc[p] + Cardinality(Taken(to, p)) < MaxWorkersCount
  <2>1. DOMAIN to = 1..Len(q)
    BY <1>5 DEF Distributions
  <2>2. Len(to) = Len(q)
    BY <1>2, <1>3, <2>1
  <2>3. Len(SubSeq(q, Len(q) + 1, Len(q))) = 0
    <3>1. /\ Len(q) + 1 \in Int /\ Len(q) \in Int
          /\ \A i \in (Len(q) + 1)..Len(q) : q[i] \in Workers
      BY <1>2
    <3>2. Len(SubSeq(q, Len(q) + 1, Len(q))) =
            IF Len(q) + 1 <= Len(q) THEN Len(q) - (Len(q) + 1) + 1 ELSE 0
      BY <3>1, SubSeqProperties
    <3> QED BY <1>2, <3>2
  <2> QED BY <1>1, <2>2, <2>3
<1> QED BY <1>4, <1>5

\* The connections held, those being opened included, are not more than the
\* machines need, and the queue would fit into those that may still be
\* opened: the second part is what makes the first inductive.
BoundInv ==
    /\ Cardinality(pools) + Cardinality(openNoConnectPools) <= Needed
    /\ Len(freeWorkers) <= (Needed - Cardinality(pools)) * MaxWorkersCount

\* The sizes the invariant speaks of.
LEMMA Sizes ==
    ASSUME IInv
    PROVE  /\ Cardinality(pools) \in Nat /\ IsFiniteSet(pools)
           /\ Cardinality(openNoConnectPools) \in Nat /\ IsFiniteSet(openNoConnectPools)
           /\ Len(freeWorkers) \in Nat
           /\ Cardinality(Live) = Cardinality(pools) + Cardinality(openNoConnectPools)
<1>1. /\ pools \subseteq Clients /\ openNoConnectPools \subseteq Clients
      /\ Live = pools \cup openNoConnectPools /\ pools \cap openNoConnectPools = {}
  BY DEF IInv, ClientInv, HeldIsLive, Live
<1>2. /\ IsFiniteSet(pools) /\ Cardinality(pools) \in Nat
      /\ IsFiniteSet(openNoConnectPools) /\ Cardinality(openNoConnectPools) \in Nat
  BY <1>1, ClientsAssumption, FS_Subset, FS_CardinalityType
<1>3. Cardinality(pools \cup openNoConnectPools) =
        Cardinality(pools) + Cardinality(openNoConnectPools)
          - Cardinality(pools \cap openNoConnectPools)
  BY <1>2, FS_Union
<1>4. Cardinality(pools \cap openNoConnectPools) = 0
  BY <1>1, FS_EmptySet
<1>5. Len(freeWorkers) \in Nat
  BY QueueCardinality DEF IInv, Placed
<1> QED BY <1>1, <1>2, <1>3, <1>4, <1>5

\* n machines fit into the k clients that may still be opened.
LEMMA RoomFacts ==
    ASSUME NEW k \in Nat, NEW n \in Nat, NEW p \in Nat, p <= Needed
    PROVE  /\ (Needed - p) * MaxWorkersCount \in Nat
           /\ (Needed - (p - 1)) * MaxWorkersCount
                = (Needed - p) * MaxWorkersCount + MaxWorkersCount
           /\ p * MaxWorkersCount + n <= Cardinality(Workers)
                => n <= (Needed - p) * MaxWorkersCount
<1>1. MaxWorkersCount \in Nat \ {0} /\ Needed \in Nat /\ Needed - p \in Nat
  BY MaxWorkersCountAssumption, NeededFacts
<1> DEFINE M == MaxWorkersCount
<1>2. M \in Nat /\ (Needed - p) * M \in Nat
  BY <1>1, SMTT(30)
<1>3. (Needed - (p - 1)) * M = (Needed - p) * M + M
  BY <1>1, SMTT(30)
<1>4. (Needed - p) * M = Needed * M - p * M /\ Needed * M \in Int /\ p * M \in Int
  BY <1>1, SMTT(30)
<1>5. Cardinality(Workers) \in Nat /\ Cardinality(Workers) <= Needed * M
  BY NeededFacts
<1> QED BY <1>2, <1>3, <1>4, <1>5

\* The queue a distribution leaves fits into the clients still to be opened.
LEMMA DistributionBound ==
    ASSUME NEW q, NEW ws, ws \subseteq Workers, NEW wp, NEW ps, ps \subseteq Clients,
           NEW pw, NEW wc, Placed(q, ws, wp, ps, pw, wc),
           FreeWorkersToPools(q, ps, wp, pw, wc), Cardinality(ps) <= Needed
    PROVE  Len(freeWorkers') <= (Needed - Cardinality(ps)) * MaxWorkersCount
<1>1. Placed(freeWorkers', ws, workerPool', ps, poolWorkers', workersCount')
  BY FreeWorkersToPoolsKeepsPlaced
<1>2. Cardinality(ps) \in Nat /\ Len(freeWorkers') \in Nat
  BY <1>1, QueueCardinality, ClientsAssumption, FS_Subset, FS_CardinalityType DEF Placed
<1>3. /\ (Needed - Cardinality(ps)) * MaxWorkersCount \in Nat
      /\ Cardinality(ps) * MaxWorkersCount + Len(freeWorkers') <= Cardinality(Workers)
           => Len(freeWorkers') <= (Needed - Cardinality(ps)) * MaxWorkersCount
  BY <1>2, RoomFacts
<1>4. CASE Len(freeWorkers') = 0
  BY <1>3, <1>4
<1>5. CASE \A p \in ps : workersCount'[p] >= MaxWorkersCount
  <2>1. Cardinality(ps) * MaxWorkersCount + Len(freeWorkers') <= Cardinality(Workers)
    BY <1>1, <1>5, FullPoolsBound
  <2> QED BY <1>3, <2>1
<1> QED BY <1>4, <1>5, DistributionFills

\* addPoolAuto opens no more clients than the queue needs.
LEMMA AddPoolAutoKeepsBound ==
    ASSUME IInv, BoundInv, NEW info, AddPoolAuto(info),
           pools' = pools, freeWorkers' = freeWorkers
    PROVE  BoundInv'
<1> DEFINE wanted == Ceil(Len(freeWorkers), MaxWorkersCount) - Cardinality(openNoConnectPools)
           count  == IF Held = {} /\ wanted = 0 THEN 1 ELSE wanted
<1>1. CASE UNCHANGED <<phase, options, openNoConnectPools>>
  BY <1>1 DEF BoundInv
<1>2. CASE ~(count <= 0) /\ OpenClients(count, info)
  <2>1. PICK new \in SUBSET (Clients \ Live) :
          Cardinality(new) = count /\ openNoConnectPools' = openNoConnectPools \cup new
    BY <1>2 DEF OpenClients
  <2>2. /\ Cardinality(pools) \in Nat /\ IsFiniteSet(openNoConnectPools)
        /\ Cardinality(openNoConnectPools) \in Nat /\ Len(freeWorkers) \in Nat
    BY Sizes
  <2>3. IsFiniteSet(new) /\ openNoConnectPools \cap new = {}
    <3>1. IsFiniteSet(Clients) /\ new \subseteq Clients
      BY ClientsAssumption
    <3>2. openNoConnectPools \subseteq Live
      BY DEF IInv, ClientInv, HeldIsLive, Live
    <3> QED BY <3>1, <3>2, FS_Subset
  <2>4. Cardinality(openNoConnectPools') = Cardinality(openNoConnectPools) + count
    <3>1. Cardinality(openNoConnectPools \cup new) =
            Cardinality(openNoConnectPools) + Cardinality(new)
              - Cardinality(openNoConnectPools \cap new)
      BY <2>2, <2>3, FS_Union
    <3>2. Cardinality(openNoConnectPools \cap new) = 0 /\ Cardinality(new) \in Nat
      BY <2>3, FS_EmptySet, FS_CardinalityType
    <3> HIDE DEF count
    <3> QED BY <2>1, <2>2, <3>1, <3>2
  <2>5. /\ Needed \in Nat \ {0} /\ MaxWorkersCount \in Nat \ {0}
        /\ Cardinality(pools) <= Needed /\ Needed - Cardinality(pools) \in Nat
    BY <2>2, NeededFacts, MaxWorkersCountAssumption DEF BoundInv
  <2>6. /\ Ceil(Len(freeWorkers), MaxWorkersCount) \in Nat
        /\ Ceil(Len(freeWorkers), MaxWorkersCount) <= Needed - Cardinality(pools)
    BY <2>2, <2>5, CeilFacts DEF BoundInv
  <2>7. CASE Held = {} /\ wanted = 0
    <3>1. Cardinality(pools) = 0 /\ Cardinality(openNoConnectPools) = 0
      BY <2>7, FS_EmptySet DEF Held
    <3>2. Cardinality(openNoConnectPools') = 1
      BY <2>4, <2>7, <3>1
    <3> QED BY <2>5, <3>1, <3>2 DEF BoundInv
  <2>8. CASE ~(Held = {} /\ wanted = 0)
    <3>1. Cardinality(openNoConnectPools') = Ceil(Len(freeWorkers), MaxWorkersCount)
      BY <2>2, <2>4, <2>6, <2>8
    <3>2. Cardinality(pools) + Cardinality(openNoConnectPools') <= Needed
      BY <2>2, <2>5, <2>6, <3>1
    <3> QED BY <3>2 DEF BoundInv
  <2> QED BY <2>7, <2>8
<1> QED BY <1>1, <1>2 DEF AddPoolAuto

LEMMA InitEstablishesBound == Init => BoundInv
<1> SUFFICES ASSUME Init PROVE BoundInv
  OBVIOUS
<1>1. /\ Cardinality(pools) = 0 /\ Cardinality(openNoConnectPools) = 0
      /\ Len(freeWorkers) = 0
  BY FS_EmptySet DEF Init
<1>2. Needed \in Nat /\ (Needed - 0) * MaxWorkersCount \in Nat
  BY NeededFacts, MaxWorkersCountAssumption, SMTT(30)
<1> QED BY <1>1, <1>2 DEF BoundInv

\* Every step keeps the bound: a connection that opens was counted, one that
\* is lost makes room for the machines it leaves behind.
LEMMA NextKeepsBound == IInv /\ BoundInv /\ [Next]_vars => BoundInv'
<1> SUFFICES ASSUME IInv, BoundInv, [Next]_vars PROVE BoundInv'
  OBVIOUS
<1> DEFINE n == Cardinality(pools)
           o == Cardinality(openNoConnectPools)
<1>0. /\ n \in Nat /\ o \in Nat /\ IsFiniteSet(pools) /\ IsFiniteSet(openNoConnectPools)
      /\ Len(freeWorkers) \in Nat /\ Needed \in Nat /\ n + o <= Needed /\ n <= Needed
      /\ Placed(freeWorkers, workers, workerPool, pools, poolWorkers, workersCount)
      /\ workers \subseteq Workers /\ pools \subseteq Clients
  <2>1. /\ n \in Nat /\ o \in Nat /\ IsFiniteSet(pools) /\ IsFiniteSet(openNoConnectPools)
        /\ Len(freeWorkers) \in Nat /\ Needed \in Nat /\ n + o <= Needed
    BY Sizes, NeededFacts DEF BoundInv
  <2> QED BY <2>1 DEF IInv, ClientInv
<1>1. CASE \/ Loop
           \/ \E info \in PoolInfos : ControlPoolConnect(info)
  BY <1>1, AddPoolAutoKeepsBound DEF Loop, ControlPoolConnect, assignVars
<1>2. CASE UNCHANGED <<pools, openNoConnectPools, freeWorkers>>
  BY <1>2 DEF BoundInv
<1>3. ASSUME NEW c \in Clients, PoolConnect(c) PROVE BoundInv'
  <2>1. c \in openNoConnectPools /\ c \notin pools
    BY <1>3 DEF PoolConnect, IInv, ClientInv, HeldIsLive
  <2>2. pools' = pools \cup {c} /\ openNoConnectPools' = openNoConnectPools \ {c}
    BY <1>3 DEF PoolConnect
  <2>3. Cardinality(pools') = n + 1 /\ Cardinality(openNoConnectPools') = o - 1
    BY <1>0, <2>1, <2>2, FS_AddElement, FS_RemoveElement
  <2>4. Cardinality(pools') + Cardinality(openNoConnectPools') <= Needed
        /\ Cardinality(pools') <= Needed
    <3>1. o # 0
      BY <1>0, <2>1, FS_EmptySet
    <3> QED BY <1>0, <2>3, <3>1
  <2>5. Placed(freeWorkers, workers, workerPool, pools',
               [poolWorkers EXCEPT ![c] = {}], [workersCount EXCEPT ![c] = 0])
    <3>1. poolWorkers[c] = {} /\ workersCount[c] = 0
      BY <1>0, <2>1, FS_EmptySet DEF Placed
    <3>2. [poolWorkers EXCEPT ![c] = {}] = poolWorkers
          /\ [workersCount EXCEPT ![c] = 0] = workersCount
      BY <1>0, <3>1 DEF Placed
    <3>3. Placed(freeWorkers, workers, workerPool, pools', poolWorkers, workersCount)
      BY <1>0, <2>2 DEF Placed
    <3> QED BY <3>2, <3>3
  <2>6. /\ pools' \subseteq Clients
        /\ FreeWorkersToPools(freeWorkers, pools', workerPool,
             [poolWorkers EXCEPT ![c] = {}], [workersCount EXCEPT ![c] = 0])
    BY <1>0, <1>3, <2>2 DEF PoolConnect
  <2>7. Len(freeWorkers') <= (Needed - Cardinality(pools')) * MaxWorkersCount
    BY <1>0, <2>4, <2>5, <2>6, DistributionBound
  <2> QED BY <2>4, <2>7 DEF BoundInv
<1>4. ASSUME NEW c \in Clients, SocketClose(c) PROVE BoundInv'
  <2>1. CASE phase[c] = "connected"
    <3>1. c \in pools /\ c \notin openNoConnectPools
      BY <2>1 DEF IInv, ClientInv, HeldIsLive
    <3>2. PoolDisconnect(c) /\ openNoConnectPools' = openNoConnectPools
      BY <1>4, <2>1, <3>1 DEF SocketClose
    <3>3. Cardinality(pools') = n - 1
      BY <1>0, <3>1, <3>2, FS_RemoveElement DEF PoolDisconnect
    <3>4. PICK back \in InKeyOrder(poolWorkers[c]) : freeWorkers' = freeWorkers \o back
      BY <3>2 DEF PoolDisconnect
    <3>5. /\ workersCount[c] \in Nat /\ workersCount[c] = Cardinality(poolWorkers[c])
          /\ workersCount[c] <= MaxWorkersCount /\ freeWorkers \in Seq(Workers)
          /\ poolWorkers[c] \subseteq Workers
      BY <1>0 DEF Placed, IsQueue
    <3>6. back \in Seq(Workers) /\ Len(back) = workersCount[c]
      <4>1. back \in [1..workersCount[c] -> poolWorkers[c]]
        BY <3>5 DEF InKeyOrder
      <4>2. back \in [1..workersCount[c] -> Workers]
        BY <3>5, <4>1
      <4> QED BY <3>5, <4>2, LenProperties
    <3>7. Len(freeWorkers') = Len(freeWorkers) + workersCount[c]
      <4>1. Len(freeWorkers \o back) = Len(freeWorkers) + Len(back)
        BY <3>5, <3>6, ConcatProperties
      <4> QED BY <3>4, <3>6, <4>1
    <3>8. Len(freeWorkers') <= (Needed - (n - 1)) * MaxWorkersCount
      <4> DEFINE room == (Needed - n) * MaxWorkersCount
      <4>1. /\ room \in Nat /\ (Needed - (n - 1)) * MaxWorkersCount = room + MaxWorkersCount
        BY <1>0, RoomFacts
      <4>2. Len(freeWorkers) <= room
        BY DEF BoundInv
      <4> HIDE DEF room
      <4> QED BY <1>0, <3>5, <3>7, <4>1, <4>2, MaxWorkersCountAssumption
    <3> QED BY <1>0, <3>2, <3>3, <3>8 DEF BoundInv
  <2>2. CASE phase[c] # "connected"
    <3>1. pools' = pools /\ freeWorkers' = freeWorkers
          /\ openNoConnectPools' = openNoConnectPools \ {c}
      BY <1>4, <2>2 DEF SocketClose, assignVars
    <3>2. Cardinality(openNoConnectPools') <= o /\ Cardinality(openNoConnectPools') \in Nat
      <4>1. openNoConnectPools' \in SUBSET openNoConnectPools
        BY <3>1
      <4> QED BY <1>0, <4>1, FS_Subset, FS_CardinalityType
    <3>3. n + Cardinality(openNoConnectPools') <= Needed
      BY <1>0, <3>2
    <3> QED BY <3>1, <3>3 DEF BoundInv
  <2> QED BY <2>1, <2>2
<1>5. ASSUME NEW w \in Workers, WorkerConnect(w) PROVE BoundInv'
  <2>1. pools' = pools /\ openNoConnectPools' = openNoConnectPools
    BY <1>5 DEF WorkerConnect
  <2>2. Placed(Append(freeWorkers, w), workers', workerPool, pools, poolWorkers, workersCount)
    BY <1>0, <1>5, JoinKeepsPlaced DEF WorkerConnect
  <2>3. /\ workers' \subseteq Workers
        /\ FreeWorkersToPools(Append(freeWorkers, w), pools, workerPool, poolWorkers,
                              workersCount)
    BY <1>0, <1>5 DEF WorkerConnect
  <2>4. Len(freeWorkers') <= (Needed - n) * MaxWorkersCount
    BY <1>0, <2>2, <2>3, DistributionBound
  <2> QED BY <2>1, <2>4 DEF BoundInv
<1>6. ASSUME NEW w \in Workers, WorkerDisconnect(w) PROVE BoundInv'
  <2>1. pools' = pools /\ openNoConnectPools' = openNoConnectPools
    BY <1>6 DEF WorkerDisconnect
  <2>2. IsQueue(freeWorkers') /\ Range(freeWorkers') \subseteq Range(freeWorkers)
    <3>1. CASE \E i \in DOMAIN freeWorkers : freeWorkers[i] = w
      <4> DEFINE i == CHOOSE j \in DOMAIN freeWorkers : freeWorkers[j] = w
      <4>1. i \in DOMAIN freeWorkers /\ freeWorkers' = RemoveAt(freeWorkers, i)
        BY <1>6, <3>1 DEF WorkerDisconnect
      <4> HIDE DEF i
      <4> QED BY <1>0, <4>1, RemoveFromQueue DEF Placed
    <3>2. CASE ~\E i \in DOMAIN freeWorkers : freeWorkers[i] = w
      <4>1. freeWorkers' = freeWorkers
        BY <1>6, <3>2 DEF WorkerDisconnect
      <4> QED BY <1>0, <4>1 DEF Placed
    <3> QED BY <3>1, <3>2
  <2>3. Len(freeWorkers') <= Len(freeWorkers) /\ Len(freeWorkers') \in Nat
    <3>1. IsQueue(freeWorkers)
      BY <1>0 DEF Placed
    <3>2. /\ IsFiniteSet(Range(freeWorkers)) /\ Cardinality(Range(freeWorkers)) = Len(freeWorkers)
          /\ Cardinality(Range(freeWorkers')) = Len(freeWorkers') /\ Len(freeWorkers') \in Nat
      BY <2>2, <3>1, QueueCardinality
    <3>3. Cardinality(Range(freeWorkers')) <= Cardinality(Range(freeWorkers))
      BY <2>2, <3>2, FS_Subset
    <3> QED BY <3>2, <3>3
  <2>4. Len(freeWorkers') <= (Needed - n) * MaxWorkersCount
    <3> DEFINE room == (Needed - n) * MaxWorkersCount
    <3>1. room \in Nat /\ Len(freeWorkers) <= room
      BY <1>0, RoomFacts DEF BoundInv
    <3> HIDE DEF room
    <3>2. Len(freeWorkers') <= room
      BY <1>0, <2>3, <3>1
    <3> QED BY <3>2 DEF room
  <2> QED BY <2>1, <2>4 DEF BoundInv
<1>7. CASE \/ ControlPoolDisconnect
           \/ \E c \in Clients : ClientError(c)
           \/ UNCHANGED vars
  <2>1. UNCHANGED <<pools, openNoConnectPools, freeWorkers>>
    BY <1>7 DEF ControlPoolDisconnect, ClientError, vars, assignVars
  <2> QED BY <1>2, <2>1
<1> QED BY <1>1, <1>3, <1>4, <1>5, <1>6, <1>7 DEF Next

\* With room for all machines in one client there is at most one, and the
\* queue has to fit beside it.
LEMMA BoundImplies == IInv /\ BoundInv => ConnectionBound /\ NoneWaitsBesidePool
<1> SUFFICES ASSUME IInv, BoundInv PROVE ConnectionBound /\ NoneWaitsBesidePool
  OBVIOUS
<1>1. /\ Cardinality(pools) \in Nat /\ IsFiniteSet(pools)
      /\ Cardinality(openNoConnectPools) \in Nat /\ Len(freeWorkers) \in Nat
      /\ Cardinality(Live) = Cardinality(pools) + Cardinality(openNoConnectPools)
      /\ Needed \in Nat \ {0}
  BY Sizes, NeededFacts
<1>2. ConnectionBound
  BY <1>1 DEF ConnectionBound, BoundInv, Needed
<1>3. ASSUME Cardinality(Workers) <= MaxWorkersCount, pools # {}
      PROVE  freeWorkers = <<>>
  <2>1. Needed = 1 /\ Cardinality(pools) # 0
    BY <1>1, <1>3, NeededFacts, FS_EmptySet
  <2>2. Cardinality(pools) = 1
    BY <1>1, <2>1 DEF BoundInv
  <2>3. (Needed - Cardinality(pools)) * MaxWorkersCount = 0
    BY <2>1, <2>2, MaxWorkersCountAssumption
  <2>4. Len(freeWorkers) = 0
    BY <1>1, <2>3 DEF BoundInv
  <2>5. freeWorkers \in Seq(Workers)
    BY DEF IInv, Placed, IsQueue
  <2> QED BY <2>4, <2>5, EmptySeq
<1> QED BY <1>2, <1>3 DEF NoneWaitsBesidePool

LEMMA BoundHolds == Spec => []BoundInv
BY InvariantHolds, InitEstablishesBound, NextKeepsBound, PTL DEF Spec

-----------------------------------------------------------------------------
(* The theorems *)

\* Every variable of the proxy keeps its type; the counters never go negative.
THEOREM TypeCorrect == Spec => []TypeOK
BY InvariantHolds, IInvImpliesAll, PTL

\* Every live client is in exactly the proxy map for its phase, so that a
\* disconnect command reaches all of them.
THEOREM HeldClientsAreLive == Spec => []HeldIsLive
BY InvariantHolds, IInvImpliesAll, PTL

\* Every connected machine is in exactly one place.
THEOREM WorkersArePlaced == Spec => []WorkersPlaced
BY InvariantHolds, IInvImpliesAll, PTL

\* WrapperPool's counter is the size of its map and respects the limit.
THEOREM CountsAreRight == Spec => []CountsAgree
BY InvariantHolds, IInvImpliesAll, PTL

\* No client opened for another pool stays in use after a switch or a stop.
THEOREM OnlySelectedPoolUsed == Spec => []OnlySelectedPool
BY InvariantHolds, IInvImpliesAll, PTL

\* Reconnects, switches of pools and the 5 s loop never pile up connections:
\* the closing ones included there are no more than the machines could fill.
THEOREM ConnectionsAreBounded == Spec => []ConnectionBound
BY InvariantHolds, BoundHolds, BoundImplies, PTL

\* As deployed, with room for all machines on one connection, no machine
\* waits while a pool is connected.
THEOREM NoneWaitsWhileConnected == Spec => []NoneWaitsBesidePool
BY InvariantHolds, BoundHolds, BoundImplies, PTL

-----------------------------------------------------------------------------
(* StratumProxy implements Assignment: every handler is a step of the     *)
(* promise or leaves what it speaks of alone, for any machines and clients *)

\* The promise counts and removes as the proxy does.
LEMMA SameOperators ==
    /\ \A S : Promise!Cardinality(S) = Cardinality(S)
    /\ \A s, i : Promise!RemoveAt(s, i) = RemoveAt(s, i)
BY DEF Promise!Cardinality, Cardinality, Promise!RemoveAt, RemoveAt

-----------------------------------------------------------------------------
(* A distribution serves a prefix of the queue *)

\* The machines the invariant has on a pool are those whose wrapper names it.
LEMMA MembersOfPool ==
    ASSUME NEW q, NEW ws, NEW wp, NEW ps, NEW pw, NEW wc, Placed(q, ws, wp, ps, pw, wc),
           NEW c \in Clients
    PROVE  pw[c] = Promise!Members(c, wp)
BY NoPoolAssumption DEF Placed, Promise!Members

LEMMA DistributionServes ==
    ASSUME NEW q, NEW ws, ws \subseteq Workers, NEW ps, ps \subseteq Clients, NEW pw, NEW wc,
           Placed(q, ws, workerPool, ps, pw, wc),
           FreeWorkersToPools(q, ps, workerPool, pw, wc)
    PROVE  Promise!Serve(q, ps)
<1>1. PICK to \in Distributions(Len(q), ps, wc) :
        /\ freeWorkers' = SubSeq(q, Len(to) + 1, Len(q))
        /\ workerPool' = PoolsGiven(to, q, workerPool)
        /\ poolWorkers' = WorkersGiven(to, q, pw)
        /\ workersCount' = CountsGiven(to, wc)
  BY Zenon DEF FreeWorkersToPools
<1> DEFINE k == Len(to)
<1>2. IsQueue(q) /\ Len(q) \in Nat
  BY LenProperties DEF Placed, IsQueue
<1>3. k \in 0..Len(q) /\ to \in [1..k -> ps]
  BY <1>2, DistributionFacts
<1> HIDE DEF k
<1>4. freeWorkers' = SubSeq(q, k + 1, Len(q))
  BY <1>1 DEF k
<1>5. Placed(freeWorkers', ws, workerPool', ps, poolWorkers', workersCount')
  BY FreeWorkersToPoolsKeepsPlaced
<1>6. workerPool' \in [Workers -> Clients \cup {NoPool}]
  BY <1>5 DEF Placed
<1>7. ASSUME NEW w \in Workers
      PROVE  IF \E i \in 1..k : q[i] = w
             THEN workerPool'[w] \in ps ELSE workerPool'[w] = workerPool[w]
  <2>1. DOMAIN to = 1..k /\ workerPool' = PoolsGiven(to, q, workerPool)
    BY <1>1, <1>3
  <2>2. CASE \E i \in 1..k : q[i] = w
    <3>1. (CHOOSE i \in DOMAIN to : q[i] = w) \in 1..k
      BY <2>1, <2>2
    <3>2. workerPool'[w] = to[CHOOSE i \in DOMAIN to : q[i] = w]
      BY <2>1, <2>2 DEF PoolsGiven
    <3>3. workerPool'[w] \in ps
      BY <1>3, <3>1, <3>2
    <3> QED BY <2>2, <3>3
  <2>3. CASE ~\E i \in 1..k : q[i] = w
    <3>1. workerPool'[w] = workerPool[w]
      BY <2>1, <2>3 DEF PoolsGiven
    <3> QED BY <2>3, <3>1
  <2> QED BY <2>2, <2>3
<1>8. \A c \in ps : Cardinality(Promise!Members(c, workerPool')) <= MaxWorkersCount
  <2> SUFFICES ASSUME NEW c \in ps
               PROVE  Cardinality(Promise!Members(c, workerPool')) <= MaxWorkersCount
    OBVIOUS
  <2>1. poolWorkers'[c] = Promise!Members(c, workerPool')
    BY <1>5, MembersOfPool
  <2>2. Cardinality(poolWorkers'[c]) <= MaxWorkersCount
    BY <1>5 DEF Placed
  <2> QED BY <2>1, <2>2
<1> QED BY <1>3, <1>4, <1>6, <1>7, <1>8, SameOperators DEF Promise!Serve

-----------------------------------------------------------------------------
(* The steps *)

LEMMA InitIsPromised == Init => Promise!Init
BY DEF Init, Promise!Init

LEMMA NextIsPromised == IInv /\ IInv' /\ [Next]_vars => [Promise!Next]_Promise!vars
<1> SUFFICES ASSUME IInv, IInv', [Next]_vars PROVE [Promise!Next]_Promise!vars
  OBVIOUS
<1>0. /\ ClientInv /\ workers \subseteq Workers /\ pools \subseteq Clients
      /\ Placed(freeWorkers, workers, workerPool, pools, poolWorkers, workersCount)
  BY DEF IInv, ClientInv
<1>s. ASSUME UNCHANGED <<workers, workerPool, freeWorkers, pools>>
      PROVE  [Promise!Next]_Promise!vars
  BY <1>s DEF Promise!vars
<1>1. CASE Loop
  BY <1>1, <1>s DEF Loop, assignVars
<1>2. ASSUME NEW info \in PoolInfos, ControlPoolConnect(info) PROVE [Promise!Next]_Promise!vars
  BY <1>2, <1>s DEF ControlPoolConnect, assignVars
<1>3. CASE ControlPoolDisconnect
  BY <1>3, <1>s DEF ControlPoolDisconnect, assignVars
<1>4. ASSUME NEW c \in Clients, PoolConnect(c) PROVE Promise!Open(c)
  <2>1. c \notin pools
    BY <1>0, <1>4 DEF PoolConnect, ClientInv, HeldIsLive
  <2>2. pools' = pools \cup {c} /\ workers' = workers /\ pools' \subseteq Clients
    BY <1>0, <1>4 DEF PoolConnect
  <2>3. poolWorkers[c] = {} /\ workersCount[c] = 0
    BY <1>0, <2>1, FS_EmptySet DEF Placed
  <2>4. [poolWorkers EXCEPT ![c] = {}] = poolWorkers /\ [workersCount EXCEPT ![c] = 0] = workersCount
    BY <1>0, <2>3 DEF Placed
  <2>5. FreeWorkersToPools(freeWorkers, pools', workerPool, poolWorkers, workersCount)
    BY <1>4, <2>4 DEF PoolConnect
  <2>6. Placed(freeWorkers, workers, workerPool, pools', poolWorkers, workersCount)
    BY <1>0, <2>2 DEF Placed
  <2>7. Promise!Serve(freeWorkers, pools')
    BY <1>0, <2>2, <2>5, <2>6, DistributionServes
  <2> QED BY <2>1, <2>2, <2>7 DEF Promise!Open
<1>5. ASSUME NEW c \in Clients, ClientError(c) PROVE [Promise!Next]_Promise!vars
  BY <1>5, <1>s DEF ClientError, assignVars
<1>6. ASSUME NEW c \in Clients, SocketClose(c) PROVE [Promise!Next]_Promise!vars
  <2>1. CASE phase[c] # "connected"
    BY <1>6, <1>s, <2>1 DEF SocketClose, assignVars
  <2>2. CASE phase[c] = "connected"
    <3>1. PoolDisconnect(c) /\ workers' = workers /\ c \in pools
      BY <1>0, <1>6, <2>2 DEF SocketClose, ClientInv, HeldIsLive
    <3>2. poolWorkers[c] = Promise!Members(c, workerPool) /\ poolWorkers[c] \subseteq Workers
      <4>1. poolWorkers \in [Clients -> SUBSET Workers]
        BY <1>0 DEF Placed
      <4>2. poolWorkers[c] = Promise!Members(c, workerPool)
        BY <1>0, MembersOfPool, Zenon
      <4> QED BY <4>1, <4>2
    <3>3. workerPool' = [w \in Workers |-> IF workerPool[w] = c THEN NoPool ELSE workerPool[w]]
      BY <3>1, <3>2 DEF PoolDisconnect, Promise!Members
    <3>4. \E back \in [1..Cardinality(Promise!Members(c, workerPool)) -> Workers] :
            /\ {back[i] : i \in DOMAIN back} = Promise!Members(c, workerPool)
            /\ freeWorkers' = freeWorkers \o back
      <4> DEFINE M == Promise!Members(c, workerPool)
                 n == Cardinality(M)
      <4>1. PICK back \in InKeyOrder(poolWorkers[c]) : freeWorkers' = freeWorkers \o back
        BY <3>1 DEF PoolDisconnect
      <4>2. back \in [1..n -> M] /\ M \subseteq {back[i] : i \in 1..n}
        BY <3>2, <4>1 DEF InKeyOrder
      <4>3. M \subseteq Workers
        BY <3>2
      <4> HIDE DEF M, n
      <4>4. back \in [1..n -> Workers] /\ {back[i] : i \in DOMAIN back} = M
        BY <4>2, <4>3
      <4> QED BY <4>1, <4>4 DEF M, n
    <3>5. pools' = pools \ {c}
      BY <3>1 DEF PoolDisconnect
    <3>6. Promise!Lose(c)
      BY <3>1, <3>3, <3>4, <3>5, SameOperators DEF Promise!Lose
    <3> QED BY <3>6 DEF Promise!Next
  <2> QED BY <2>1, <2>2
<1>7. ASSUME NEW w \in Workers, WorkerConnect(w) PROVE Promise!Arrive(w)
  <2>1. Placed(Append(freeWorkers, w), workers', workerPool, pools, poolWorkers, workersCount)
    BY <1>0, <1>7, JoinKeepsPlaced DEF WorkerConnect
  <2>2. workers' = workers \cup {w} /\ workers' \subseteq Workers /\ pools' = pools /\ w \notin workers
    BY <1>0, <1>7 DEF WorkerConnect
  <2>3. FreeWorkersToPools(Append(freeWorkers, w), pools, workerPool, poolWorkers, workersCount)
    BY <1>7 DEF WorkerConnect
  <2>4. Promise!Serve(Append(freeWorkers, w), pools)
    BY <1>0, <2>1, <2>2, <2>3, DistributionServes
  <2> QED BY <2>2, <2>4 DEF Promise!Arrive
<1>8. ASSUME NEW w \in Workers, WorkerDisconnect(w) PROVE Promise!Depart(w)
  <2>1. /\ w \in workers /\ workers' = workers \ {w} /\ pools' = pools
        /\ workerPool' = [workerPool EXCEPT ![w] = NoPool]
    BY <1>8 DEF WorkerDisconnect
  <2>2. CASE workerPool[w] # NoPool
    <3>1. \A i \in DOMAIN freeWorkers : freeWorkers[i] # w
      BY <1>0, <2>2 DEF Placed, Range
    <3>2. freeWorkers' = freeWorkers
      BY <1>8, <3>1 DEF WorkerDisconnect
    <3> QED BY <2>1, <2>2, <3>2 DEF Promise!Depart
  <2>3. CASE workerPool[w] = NoPool
    <3>1. \E i \in DOMAIN freeWorkers : freeWorkers[i] = w
      BY <1>0, <2>1, <2>3 DEF Placed, Range
    <3> DEFINE i == CHOOSE j \in DOMAIN freeWorkers : freeWorkers[j] = w
    <3>2. i \in DOMAIN freeWorkers /\ freeWorkers[i] = w
      BY <3>1
    <3>3. freeWorkers' = RemoveAt(freeWorkers, i)
      BY <1>8, <3>1 DEF WorkerDisconnect
    <3> HIDE DEF i
    <3> QED BY <2>1, <2>3, <3>2, <3>3, SameOperators DEF Promise!Depart
  <2> QED BY <2>2, <2>3
<1>9. CASE UNCHANGED vars
  BY <1>9, <1>s DEF vars
<1> QED
  BY <1>1, <1>2, <1>3, <1>4, <1>5, <1>6, <1>7, <1>8, <1>9 DEF Next, Promise!Next

-----------------------------------------------------------------------------
(* The theorem *)

\* Whatever pools are selected, refused, lost or reconnected, the proxy keeps
\* the promise of Assignment.
THEOREM ProxyKeepsPromise == Spec => KeepsPromise
BY InvariantHolds, InitIsPromised, NextIsPromised, PTL DEF Spec, KeepsPromise, Promise!Spec

-----------------------------------------------------------------------------
(* The loop of freeWorkersToPools: there is one distribution, the loop's *)

\* Two distributions that agree up to place i agree at it.
LEMMA FirstDifference ==
    ASSUME NEW n \in Nat, NEW ps \in SUBSET Nat, NEW cnt, \A p \in ps : cnt[p] \in Nat,
           NEW s \in Distributions(n, ps, cnt), NEW t \in Distributions(n, ps, cnt),
           NEW i \in 1..Len(s), \A j \in 1..(i - 1) : j <= Len(t) /\ s[j] = t[j],
           i <= Len(t) => s[i] < t[i]
    PROVE  FALSE
<1> DEFINE p == s[i]
<1>1. /\ Len(s) \in 0..n /\ DOMAIN s = 1..Len(s) /\ s \in [1..Len(s) -> ps]
      /\ Taken(s, p) = {} \/ cnt[p] + Cardinality(Taken(s, p)) <= MaxWorkersCount
  <2>1. /\ Len(s) \in 0..n /\ DOMAIN s = 1..Len(s) /\ s \in [1..Len(s) -> ps]
        /\ \A q \in ps : Taken(s, q) = {}
             \/ cnt[q] + Cardinality(Taken(s, q)) <= MaxWorkersCount
    BY DistributionFacts
  <2>2. p \in ps
    BY <2>1
  <2> QED BY <2>1, <2>2
<1>2. /\ Len(t) \in 0..n /\ DOMAIN t = 1..Len(t) /\ t \in [1..Len(t) -> ps]
  BY DistributionFacts
<1>3. p \in ps /\ p \in Nat
  BY <1>1
<1>4. ASSUME NEW j \in Taken(t, p) PROVE j \in 1..(i - 1) /\ j \in Taken(s, p)
  <2>1. j \in 1..Len(t) /\ t[j] = p /\ t[j] \in Nat
    BY <1>2, <1>3 DEF Taken
  <2>2. ASSUME i <= j PROVE FALSE
    <3>1. i \in 1..Len(t)
      BY <1>2, <2>1, <2>2
    <3>2. t[i] <= t[j]
      BY <1>2, <2>1, <2>2, <3>1 DEF Distributions
    <3>3. t[i] \in ps /\ i <= Len(t)
      BY <1>2, <3>1
    <3>4. p < t[i] /\ t[i] \in Nat
      BY <3>3
    <3> QED BY <1>3, <2>1, <3>2, <3>4
  <2>3. j \in 1..(i - 1)
    BY <1>1, <1>2, <2>1, <2>2
  <2>4. s[j] = t[j] /\ j \in 1..Len(s)
    BY <1>1, <2>3
  <2> QED BY <1>1, <2>1, <2>3, <2>4 DEF Taken
<1>5. i \in Taken(s, p) /\ i \notin Taken(t, p)
  <2>1. i \notin 1..(i - 1)
    OBVIOUS
  <2> QED BY <1>1, <1>4, <2>1 DEF Taken
<1>6. /\ IsFiniteSet(Taken(s, p)) /\ Cardinality(Taken(s, p)) \in Nat
      /\ Cardinality(Taken(t, p)) \in Nat
      /\ Cardinality(Taken(t, p)) < Cardinality(Taken(s, p))
  <2>1. Taken(s, p) \subseteq 1..Len(s) /\ 1 \in Int /\ Len(s) \in Int
    BY <1>1 DEF Taken
  <2>2. IsFiniteSet(Taken(s, p))
    BY <2>1, FS_Interval, FS_Subset
  <2>3. Taken(t, p) \subseteq Taken(s, p) /\ Taken(t, p) # Taken(s, p)
    BY <1>4, <1>5
  <2> DEFINE S == Taken(s, p)
             T == Taken(t, p)
  <2> HIDE DEF S, T
  <2>4. /\ IsFiniteSet(T) /\ Cardinality(T) <= Cardinality(S)
        /\ Cardinality(S) = Cardinality(T) => S = T
    BY <2>2, <2>3, FS_Subset DEF S, T
  <2>5. Cardinality(S) \in Nat /\ Cardinality(T) \in Nat
    BY <2>2, <2>4, FS_CardinalityType DEF S
  <2>6. Cardinality(S) # Cardinality(T)
    BY <2>3, <2>4 DEF S, T
  <2>7. Cardinality(T) < Cardinality(S)
    BY <2>4, <2>5, <2>6
  <2> QED BY <2>2, <2>5, <2>7 DEF S, T
<1>7. cnt[p] + Cardinality(Taken(t, p)) < MaxWorkersCount
  <2>1. cnt[p] + Cardinality(Taken(s, p)) <= MaxWorkersCount
    BY <1>1, <1>5
  <2>2. cnt[p] \in Nat /\ MaxWorkersCount \in Nat
    BY <1>3, MaxWorkersCountAssumption
  <2> QED BY <1>6, <2>1, <2>2
<1>8. DOMAIN t = 1..n /\ \A j \in DOMAIN t : t[j] <= p
  BY <1>3, <1>7 DEF Distributions
<1>9. i \in 1..Len(t) /\ i \in DOMAIN t /\ i <= Len(t)
  <2>1. i \in 1..n
    BY <1>1
  <2> QED BY <1>2, <1>8, <2>1
<1>a. t[i] <= p /\ p < t[i] /\ t[i] \in ps
  BY <1>2, <1>8, <1>9
<1>b. \A a, b \in Nat : ~(a <= b /\ b < a)
  OBVIOUS
<1>c. t[i] \in Nat
  BY <1>a
<1> QED BY <1>3, <1>a, <1>b, <1>c

\* There is at most one distribution.
LEMMA OneDistribution ==
    ASSUME NEW n \in Nat, NEW ps \in SUBSET Nat, NEW cnt, \A p \in ps : cnt[p] \in Nat,
           NEW s \in Distributions(n, ps, cnt), NEW t \in Distributions(n, ps, cnt)
    PROVE  s = t
<1>1. /\ Len(s) \in Nat /\ DOMAIN s = 1..Len(s) /\ s \in [1..Len(s) -> ps]
      /\ Len(t) \in Nat /\ DOMAIN t = 1..Len(t) /\ t \in [1..Len(t) -> ps]
  BY DistributionFacts
<1> DEFINE Differ == {i \in 1..(Len(s) + Len(t)) :
                        \/ i <= Len(s) /\ i > Len(t)
                        \/ i <= Len(t) /\ i > Len(s)
                        \/ i <= Len(s) /\ i <= Len(t) /\ s[i] # t[i]}
<1>2. ASSUME Differ # {} PROVE FALSE
  <2>1. PICK i \in Differ : \A j \in Differ : i <= j
    <3>1. Differ \subseteq Nat
      OBVIOUS
    <3> HIDE DEF Differ
    <3> QED BY <1>2, <3>1, LeastNumber
  <2>2. i \in Nat \ {0}
    BY <1>1
  <2>3. ASSUME NEW j \in 1..(i - 1) PROVE j <= Len(s) /\ j <= Len(t) /\ s[j] = t[j]
    <3>1. j \in 1..(Len(s) + Len(t)) /\ ~(i <= j) /\ j \in Nat
      BY <1>1, <2>2
    <3>2. j \notin Differ
      <4> HIDE DEF Differ
      <4> QED BY <2>1, <3>1
    <3>3. i <= Len(s) \/ i <= Len(t)
      BY <1>1, <2>1
    <3> QED BY <1>1, <2>2, <3>1, <3>2, <3>3
  <2>4. CASE i <= Len(s) /\ (i <= Len(t) => s[i] < t[i])
    <3>1. i \in 1..Len(s)
      BY <1>1, <2>2, <2>4
    <3> QED BY <2>3, <2>4, <3>1, FirstDifference
  <2>5. CASE i <= Len(t) /\ (i <= Len(s) => t[i] < s[i])
    <3>1. i \in 1..Len(t)
      BY <1>1, <2>2, <2>5
    <3>2. \A j \in 1..(i - 1) : j <= Len(s) /\ t[j] = s[j]
      BY <2>3
    <3> QED BY <2>5, <3>1, <3>2, FirstDifference
  <2>6. ASSUME i <= Len(s), i <= Len(t) PROVE s[i] < t[i] \/ t[i] < s[i]
    <3>1. i \in 1..Len(s) /\ i \in 1..Len(t)
      BY <1>1, <2>2, <2>6
    <3>2. s[i] \in Nat /\ t[i] \in Nat
      BY <1>1, <3>1
    <3>3. s[i] # t[i]
      BY <1>1, <2>1, <2>6
    <3> QED BY <3>2, <3>3
  <2>7. \/ i <= Len(s) /\ ~(i <= Len(t))
        \/ i <= Len(t) /\ ~(i <= Len(s))
        \/ i <= Len(s) /\ i <= Len(t)
    BY <1>1, <2>1, <2>2
  <2> QED BY <2>4, <2>5, <2>6, <2>7
<1>3. Len(s) = Len(t)
  <2>1. CASE Len(s) < Len(t)
    <3>1. /\ Len(t) \in 1..(Len(s) + Len(t))
          /\ Len(t) <= Len(t) /\ Len(t) > Len(s)
      BY <1>1, <2>1
    <3>2. Len(t) \in Differ
      BY <3>1
    <3> QED BY <1>2, <3>2
  <2>2. CASE Len(t) < Len(s)
    <3>1. /\ Len(s) \in 1..(Len(s) + Len(t))
          /\ Len(s) <= Len(s) /\ Len(s) > Len(t)
      BY <1>1, <2>2
    <3>2. Len(s) \in Differ
      BY <3>1
    <3> QED BY <1>2, <3>2
  <2>3. \A a, b \in Nat : a = b \/ a < b \/ b < a
    OBVIOUS
  <2> HIDE DEF Differ
  <2> QED BY <1>1, <2>1, <2>2, <2>3
<1>4. ASSUME NEW i \in 1..Len(s) PROVE s[i] = t[i]
  <2>1. i \in 1..(Len(s) + Len(t)) /\ i <= Len(s) /\ i <= Len(t)
    BY <1>1, <1>3
  <2>2. i \notin Differ
    BY <1>2
  <2> QED BY <2>1, <2>2
<1> QED BY <1>1, <1>3, <1>4

\* What one more offer makes of c, as the loop body does.
NextOffer(order, n, cnt, c) ==
    IF c.at > Len(order) \/ Len(c.to) = n THEN c
    ELSE IF cnt[order[c.at]] + Cardinality(Taken(c.to, order[c.at])) < MaxWorkersCount
    THEN [at |-> c.at, to |-> Append(c.to, order[c.at])]
    ELSE [at |-> c.at + 1, to |-> c.to]

\* The recursive definition of the loop has a value, which is what it says.
LEMMA OffersSteps ==
    ASSUME NEW n \in Nat, NEW order, Len(order) \in Nat, NEW cnt
    PROVE  LET call == Offers(order, n, cnt)
           IN  /\ call[0] = [at |-> 1, to |-> <<>>]
               /\ \A k \in 1..(n + Len(order)) : call[k] = NextOffer(order, n, cnt, call[k - 1])
<1> DEFINE N == n + Len(order)
           next(c) == NextOffer(order, n, cnt, c)
           none == [at |-> 1, to |-> <<>>]
           Upto(f, k) == f = [i \in 0..k |-> IF i = 0 THEN none ELSE next(f[i - 1])]
           S == {k \in 0..N : \E f : Upto(f, k)}
<1>0. N \in Nat
  OBVIOUS
<1> HIDE DEF next, none, N
<1>1. 0 \in S
  <2>1. Upto([i \in 0..0 |-> none], 0)
    OBVIOUS
  <2> HIDE DEF Upto
  <2> QED BY <1>0, <2>1
<1>2. ASSUME NEW k \in 1..N, k - 1 \in S PROVE k \in S
  <2>1. PICK f : Upto(f, k - 1)
    BY <1>2
  <2> DEFINE g == [i \in 0..k |-> IF i = k THEN next(f[k - 1]) ELSE f[i]]
  <2>2. ASSUME NEW i \in 0..k PROVE g[i] = IF i = 0 THEN none ELSE next(g[i - 1])
    <3>1. CASE i = k
      <4>1. k - 1 \in 0..k /\ k - 1 # k /\ k # 0
        BY <1>0
      <4> QED BY <3>1, <4>1
    <3>2. CASE i # k
      <4>1. i \in 0..(k - 1)
        BY <1>0, <3>2
      <4>2. g[i] = f[i] /\ f[i] = IF i = 0 THEN none ELSE next(f[i - 1])
        BY <2>1, <3>2, <4>1
      <4>3. i # 0 => i - 1 \in 0..k /\ i - 1 # k
        BY <1>0, <4>1
      <4> QED BY <4>2, <4>3
    <3> QED BY <3>1, <3>2
  <2>3. Upto(g, k)
    BY <2>2
  <2> HIDE DEF Upto
  <2> QED BY <2>3
<1>3. N \in S
  <2>1. N \in 0..N
    BY <1>0
  <2> HIDE DEF S
  <2> QED BY <1>0, <1>1, <1>2, <2>1, UpTo
<1>4. PICK f : Upto(f, N)
  BY <1>3
<1> DEFINE call == Offers(order, n, cnt)
<1>5. Upto(call, N)
  BY <1>4, Zenon DEF Offers, next, NextOffer, none, N
<1> HIDE DEF call
<1>6. \A i \in 0..N : call[i] = IF i = 0 THEN none ELSE next(call[i - 1])
  BY <1>5
<1>7. call[0] = none
  BY <1>0, <1>6
<1>8. \A i \in 1..N : call[i] = next(call[i - 1])
  BY <1>0, <1>6
<1> QED BY <1>7, <1>8 DEF next, none, call, N

\* A place taken more is counted for its pool and for no other.
LEMMA TakenOfAppend ==
    ASSUME NEW X, NEW to \in Seq(X), NEW e \in X
    PROVE  /\ \A q : Cardinality(Taken(to, q)) \in Nat
           /\ \A q : q # e => Taken(Append(to, e), q) = Taken(to, q)
           /\ Cardinality(Taken(Append(to, e), e)) = Cardinality(Taken(to, e)) + 1
<1> DEFINE n == Len(to)
           more == Append(to, e)
<1>1. n \in Nat /\ DOMAIN to = 1..n
  BY LenProperties
<1>2. /\ more \in Seq(X) /\ Len(more) = n + 1
      /\ \A i \in 1..n : more[i] = to[i]
      /\ more[n + 1] = e
  BY AppendProperties
<1>3. DOMAIN more = 1..(n + 1)
  BY <1>2, LenProperties
<1> HIDE DEF more, n
<1>4. ASSUME NEW q
      PROVE  IsFiniteSet(Taken(to, q)) /\ Cardinality(Taken(to, q)) \in Nat
  <2>1. Taken(to, q) \subseteq 1..n /\ 1 \in Int /\ n \in Int
    BY <1>1 DEF Taken
  <2> QED BY <2>1, FS_Interval, FS_Subset, FS_CardinalityType
<1>5. ASSUME NEW q, q # e PROVE Taken(more, q) = Taken(to, q)
  <2>1. \A i : i \in 1..(n + 1) <=> i \in 1..n \/ i = n + 1
    BY <1>1
  <2> QED BY <1>1, <1>2, <1>3, <1>5, <2>1 DEF Taken
<1>6. Taken(more, e) = Taken(to, e) \cup {n + 1} /\ n + 1 \notin Taken(to, e)
  <2>1. \A i : i \in 1..(n + 1) <=> i \in 1..n \/ i = n + 1
    BY <1>1
  <2>2. n + 1 \notin 1..n
    BY <1>1
  <2> QED BY <1>1, <1>2, <1>3, <2>1, <2>2 DEF Taken
<1>7. Cardinality(Taken(more, e)) = Cardinality(Taken(to, e)) + 1
  BY <1>4, <1>6, FS_AddElement
<1> QED BY <1>4, <1>5, <1>7 DEF more

\* What holds after k offers: what is given away respects the order of the pools
\* and their capacity, every pool passed over has refused, and each offer has
\* given a worker away or passed over a pool until one or the other run out.
Offered(order, n, cnt, ps, k, c) ==
    /\ c.at \in 1..(Len(order) + 1) /\ c.to \in Seq(ps) /\ Len(c.to) <= n
    /\ c.at = Len(order) + 1 \/ Len(c.to) = n \/ c.at - 1 + Len(c.to) = k
    /\ \A i, j \in 1..Len(c.to) : i <= j => c.to[i] <= c.to[j]
    /\ \A i \in 1..Len(c.to), x \in c.at..Len(order) : c.to[i] <= order[x]
    /\ \A x \in 1..(c.at - 1) :
         ~(cnt[order[x]] + Cardinality(Taken(c.to, order[x])) < MaxWorkersCount)
    /\ \A p \in ps : Taken(c.to, p) = {}
         \/ cnt[p] + Cardinality(Taken(c.to, p)) <= MaxWorkersCount

LEMMA OrderFacts ==
    ASSUME NEW ps \in SUBSET Nat, IsFiniteSet(ps), NEW order \in InKeyOrder(ps)
    PROVE  /\ Len(order) \in Nat /\ Len(order) = Cardinality(ps)
           /\ DOMAIN order = 1..Len(order) /\ order \in [1..Len(order) -> ps]
           /\ \A i, j \in 1..Len(order) : i < j => order[i] < order[j]
           /\ \A p \in ps : \E x \in 1..Len(order) : order[x] = p
<1>1. Cardinality(ps) \in Nat
  BY FS_CardinalityType
<1>2. order \in [1..Cardinality(ps) -> ps]
  BY DEF InKeyOrder
<1>3. order \in Seq(ps) /\ Len(order) = Cardinality(ps)
  BY <1>1, <1>2, LenProperties
<1> QED BY <1>1, <1>2, <1>3 DEF InKeyOrder

\* One more offer keeps it so.
LEMMA NextOfferKeeps ==
    ASSUME NEW n \in Nat, NEW ps \in SUBSET Nat, IsFiniteSet(ps), NEW order \in InKeyOrder(ps),
           NEW cnt, \A p \in ps : cnt[p] \in Nat,
           NEW k \in Nat, NEW c, Offered(order, n, cnt, ps, k, c)
    PROVE  Offered(order, n, cnt, ps, k + 1, NextOffer(order, n, cnt, c))
<1> DEFINE m == Len(order)
           l == Len(c.to)
           e == order[c.at]
<1>1. /\ m \in Nat /\ order \in [1..m -> ps]
      /\ \A i, j \in 1..m : i < j => order[i] < order[j]
  BY OrderFacts
<1>2. /\ c.at \in 1..(m + 1) /\ c.to \in Seq(ps) /\ l <= n
      /\ c.at = m + 1 \/ l = n \/ c.at - 1 + l = k
      /\ \A i, j \in 1..l : i <= j => c.to[i] <= c.to[j]
      /\ \A i \in 1..l, x \in c.at..m : c.to[i] <= order[x]
      /\ \A x \in 1..(c.at - 1) :
           ~(cnt[order[x]] + Cardinality(Taken(c.to, order[x])) < MaxWorkersCount)
      /\ \A p \in ps : Taken(c.to, p) = {}
           \/ cnt[p] + Cardinality(Taken(c.to, p)) <= MaxWorkersCount
  BY DEF Offered
<1>3. l \in Nat /\ \A i \in 1..l : c.to[i] \in ps
  BY <1>2, LenProperties, ElementOfSeq
<1>4. CASE c.at > m \/ l = n
  <2>1. c.at = m + 1 \/ l = n
    BY <1>1, <1>2, <1>4
  <2>2. NextOffer(order, n, cnt, c) = c
    BY <1>4 DEF NextOffer
  <2> QED BY <1>2, <2>1, <2>2 DEF Offered
<1>5. ASSUME ~(c.at > m), l # n,
             cnt[e] + Cardinality(Taken(c.to, e)) < MaxWorkersCount
      PROVE  Offered(order, n, cnt, ps, k + 1, NextOffer(order, n, cnt, c))
  <2> DEFINE more == Append(c.to, e)
  <2>0. c.at \in 1..m /\ e \in ps /\ e \in Nat /\ c.at - 1 + l = k
    <3>1. c.at \in 1..m /\ c.at # m + 1
      BY <1>1, <1>2, <1>5
    <3>2. e \in ps
      BY <1>1, <3>1
    <3> QED BY <1>2, <1>5, <3>1, <3>2
  <2>1. NextOffer(order, n, cnt, c) = [at |-> c.at, to |-> more]
    BY <1>5 DEF NextOffer
  <2>2. /\ more \in Seq(ps) /\ Len(more) = l + 1
        /\ \A i \in 1..l : more[i] = c.to[i]
        /\ more[l + 1] = e
    BY <1>2, <2>0, AppendProperties
  <2>3. /\ \A q : q # e => Taken(more, q) = Taken(c.to, q)
        /\ Cardinality(Taken(more, e)) = Cardinality(Taken(c.to, e)) + 1
        /\ Cardinality(Taken(c.to, e)) \in Nat
    BY <1>2, <2>0, TakenOfAppend
  <2> HIDE DEF more
  <2>4. Len(more) <= n /\ c.at - 1 + Len(more) = k + 1
    <3>1. \A a, b \in Nat : b <= n /\ b # n => b + 1 <= n /\ a - 1 + (b + 1) = (a - 1 + b) + 1
      OBVIOUS
    <3>2. c.at \in Nat /\ l <= n /\ l # n
      BY <1>2, <1>5, <2>0
    <3> HIDE DEF l
    <3>3. l + 1 <= n /\ c.at - 1 + (l + 1) = (c.at - 1 + l) + 1
      BY <1>3, <3>1, <3>2
    <3> QED BY <2>0, <2>2, <3>3
  <2>5. ASSUME NEW i \in 1..(l + 1), NEW x \in c.at..m PROVE more[i] <= order[x]
    <3>1. CASE i \in 1..l
      BY <1>2, <2>2, <3>1
    <3>2. CASE i = l + 1
      <4>1. x \in 1..m /\ (x = c.at \/ c.at < x)
        BY <1>1, <2>0
      <4>2. order[x] \in ps
        BY <1>1, <4>1
      <4>3. e = order[x] \/ e < order[x]
        BY <1>1, <2>0, <4>1
      <4>4. order[x] \in Nat
        BY <4>2
      <4>5. e <= order[x]
        <5>1. \A a, b \in Nat : a = b \/ a < b => a <= b
          OBVIOUS
        <5> QED BY <2>0, <4>3, <4>4, <5>1
      <4> QED BY <2>2, <3>2, <4>5
    <3> QED BY <1>3, <3>1, <3>2
  <2>6. ASSUME NEW i \in 1..(l + 1), NEW j \in 1..(l + 1), i <= j PROVE more[i] <= more[j]
    <3>1. CASE j \in 1..l
      <4>1. i \in 1..l
        BY <1>3, <2>6, <3>1
      <4> QED BY <1>2, <2>2, <2>6, <3>1, <4>1
    <3>2. CASE j = l + 1
      <4>1. c.at \in c.at..m
        BY <2>0, <1>1
      <4> QED BY <2>2, <2>5, <3>2, <4>1
    <3> QED BY <1>3, <3>1, <3>2
  <2>7. ASSUME NEW x \in 1..(c.at - 1)
        PROVE  ~(cnt[order[x]] + Cardinality(Taken(more, order[x])) < MaxWorkersCount)
    <3>1. x \in 1..m /\ x < c.at
      BY <1>1, <2>0
    <3>2. order[x] \in ps /\ order[x] < e
      BY <1>1, <2>0, <3>1
    <3>3. order[x] \in Nat
      BY <3>2
    <3>4. order[x] # e
      BY <2>0, <3>2, <3>3
    <3>5. Taken(more, order[x]) = Taken(c.to, order[x])
      BY <2>3, <3>4
    <3> QED BY <1>2, <3>5
  <2>8. ASSUME NEW p \in ps
        PROVE  Taken(more, p) = {} \/ cnt[p] + Cardinality(Taken(more, p)) <= MaxWorkersCount
    <3>1. CASE p # e
      <4>1. Taken(more, p) = Taken(c.to, p)
        BY <2>3, <3>1
      <4> QED BY <1>2, <4>1
    <3>2. CASE p = e
      <4>1. cnt[e] \in Nat /\ MaxWorkersCount \in Nat
        BY <2>0, MaxWorkersCountAssumption
      <4>2. cnt[e] + Cardinality(Taken(more, e)) <= MaxWorkersCount
        BY <1>5, <2>3, <4>1
      <4> QED BY <3>2, <4>2
    <3> QED BY <3>1, <3>2
  <2> DEFINE d == [at |-> c.at, to |-> more]
  <2>9. d.at = c.at /\ d.to = more
    OBVIOUS
  <2> HIDE DEF d
  <2>a. Offered(order, n, cnt, ps, k + 1, d)
    BY <1>2, <2>2, <2>4, <2>5, <2>6, <2>7, <2>8, <2>9 DEF Offered
  <2> QED BY <2>1, <2>a DEF d
<1>6. ASSUME ~(c.at > m), l # n,
             ~(cnt[e] + Cardinality(Taken(c.to, e)) < MaxWorkersCount)
      PROVE  Offered(order, n, cnt, ps, k + 1, NextOffer(order, n, cnt, c))
  <2>1. NextOffer(order, n, cnt, c) = [at |-> c.at + 1, to |-> c.to]
    BY <1>6 DEF NextOffer
  <2> DEFINE d == [at |-> c.at + 1, to |-> c.to]
  <2>2. d.at = c.at + 1 /\ d.to = c.to
    OBVIOUS
  <2>3. c.at \in 1..m /\ c.at - 1 + l = k
    BY <1>1, <1>2, <1>6
  <2>4. d.at \in 1..(m + 1) /\ d.at - 1 + l = k + 1
    <3>1. \A a, b \in Nat : (a + 1) - 1 + b = (a - 1 + b) + 1
      OBVIOUS
    <3>2. c.at \in Nat /\ c.at + 1 \in 1..(m + 1)
      BY <1>1, <2>3
    <3> HIDE DEF l, d
    <3>3. (c.at + 1) - 1 + l = k + 1
      BY <1>3, <2>3, <3>1, <3>2
    <3> QED BY <2>2, <3>2, <3>3
  <2>5. \A x \in d.at..m : x \in c.at..m
    BY <2>2, <2>3
  <2>6. \A x \in 1..(d.at - 1) : x \in 1..(c.at - 1) \/ x = c.at
    BY <2>2, <2>3
  <2> HIDE DEF d
  <2>7. Offered(order, n, cnt, ps, k + 1, d)
    BY <1>2, <1>6, <2>2, <2>4, <2>5, <2>6 DEF Offered
  <2> QED BY <2>1, <2>7 DEF d
<1> QED BY <1>4, <1>5, <1>6

\* When every call has been made, what is given away is a distribution.
LEMMA OfferedAll ==
    ASSUME NEW n \in Nat, NEW ps \in SUBSET Nat, IsFiniteSet(ps), NEW order \in InKeyOrder(ps),
           NEW cnt, NEW c, Offered(order, n, cnt, ps, n + Len(order), c)
    PROVE  c.to \in Distributions(n, ps, cnt)
<1> DEFINE m == Len(order)
           to == c.to
           l == Len(to)
<1>1. m \in Nat /\ \A p \in ps : \E x \in 1..m : order[x] = p
  BY OrderFacts
<1>2. /\ c.at \in 1..(m + 1) /\ to \in Seq(ps) /\ l <= n
      /\ c.at = m + 1 \/ l = n \/ c.at - 1 + l = n + m
      /\ \A i, j \in 1..l : i <= j => to[i] <= to[j]
      /\ \A i \in 1..l, x \in c.at..m : to[i] <= order[x]
      /\ \A x \in 1..(c.at - 1) :
           ~(cnt[order[x]] + Cardinality(Taken(to, order[x])) < MaxWorkersCount)
      /\ \A p \in ps : Taken(to, p) = {}
           \/ cnt[p] + Cardinality(Taken(to, p)) <= MaxWorkersCount
  BY DEF Offered
<1>3. l \in Nat /\ DOMAIN to = 1..l /\ to \in [1..l -> ps] /\ l \in 0..n
  BY <1>2, LenProperties
<1> HIDE DEF to, l
<1>4. c.at = m + 1 \/ l = n
  <2>1. \A a, b \in Nat : a <= m + 1 /\ b <= n /\ a - 1 + b = n + m => a = m + 1 \/ b = n
    BY <1>1
  <2>2. c.at \in Nat /\ c.at <= m + 1
    BY <1>1, <1>2
  <2> QED BY <1>2, <1>3, <2>1, <2>2
<1>5. ASSUME NEW p \in ps, cnt[p] + Cardinality(Taken(to, p)) < MaxWorkersCount
      PROVE  DOMAIN to = 1..n /\ \A i \in DOMAIN to : to[i] <= p
  <2>1. PICK x \in 1..m : order[x] = p
    BY <1>1
  <2>2. x \notin 1..(c.at - 1)
    BY <1>2, <1>5, <2>1
  <2>3. x \in c.at..m /\ c.at # m + 1
    BY <1>1, <1>2, <2>1, <2>2
  <2> QED BY <1>2, <1>3, <1>4, <2>1, <2>3
<1>6. to \in UNION {[1..k -> ps] : k \in 0..n}
  BY <1>3
<1> QED BY <1>2, <1>3, <1>5, <1>6 DEF Distributions, to

LEMMA FirstOffer ==
    ASSUME NEW n \in Nat, NEW ps, NEW order, Len(order) \in Nat, NEW cnt
    PROVE  Offered(order, n, cnt, ps, 0, [at |-> 1, to |-> <<>>])
<1> DEFINE c == [at |-> 1, to |-> <<>>]
<1>1. c.at = 1 /\ c.to = <<>>
  OBVIOUS
<1>2. <<>> \in Seq(ps) /\ Len(<<>>) = 0 /\ DOMAIN <<>> = {}
  BY EmptySeq
<1>3. \A p : Taken(<<>>, p) = {}
  BY <1>2 DEF Taken
<1>4. 1 \in 1..(Len(order) + 1) /\ 1..0 = {} /\ 1 - 1 = 0 /\ 1 - 1 + 0 = 0
  OBVIOUS
<1> HIDE DEF c
<1>5. Offered(order, n, cnt, ps, 0, c)
  BY <1>1, <1>2, <1>3, <1>4 DEF Offered
<1> QED BY <1>5 DEF c

\* The loop ends in a distribution.
LEMMA LoopIsDistribution ==
    ASSUME NEW n \in Nat, NEW ps \in SUBSET Nat, IsFiniteSet(ps), NEW order \in InKeyOrder(ps),
           NEW cnt, \A p \in ps : cnt[p] \in Nat
    PROVE  Offers(order, n, cnt)[n + Len(order)].to \in Distributions(n, ps, cnt)
<1> DEFINE N == n + Len(order)
           call == Offers(order, n, cnt)
           S == {k \in 0..N : Offered(order, n, cnt, ps, k, call[k])}
<1>1. Len(order) \in Nat
  BY OrderFacts
<1>2. N \in Nat
  BY <1>1
<1>3. /\ call[0] = [at |-> 1, to |-> <<>>]
      /\ \A k \in 1..N : call[k] = NextOffer(order, n, cnt, call[k - 1])
  BY <1>1, OffersSteps
<1> HIDE DEF call, N
<1>4. 0 \in S
  BY <1>1, <1>2, <1>3, FirstOffer
<1>5. ASSUME NEW k \in 1..N, k - 1 \in S PROVE k \in S
  <2>1. k - 1 \in Nat /\ (k - 1) + 1 = k /\ k \in 0..N
    BY <1>2
  <2>2. Offered(order, n, cnt, ps, k - 1, call[k - 1])
    BY <1>5
  <2>3. Offered(order, n, cnt, ps, (k - 1) + 1, NextOffer(order, n, cnt, call[k - 1]))
    BY <2>1, <2>2, NextOfferKeeps
  <2> QED BY <1>3, <2>1, <2>3
<1>6. N \in S
  <2>1. N \in 0..N
    BY <1>2
  <2> HIDE DEF S
  <2> QED BY <1>2, <1>4, <1>5, <2>1, UpTo
<1>7. Offered(order, n, cnt, ps, N, call[N])
  BY <1>6
<1> QED BY <1>7, OfferedAll DEF N, call

\* Keys have an order.
LEMMA SomeKeyOrder ==
    ASSUME NEW ps \in SUBSET Nat, IsFiniteSet(ps)
    PROVE  InKeyOrder(ps) # {}
<1> DEFINE S == {k \in 0..Cardinality(ps) : \A T \in SUBSET Nat :
                   IsFiniteSet(T) /\ Cardinality(T) = k => InKeyOrder(T) # {}}
<1>0. Cardinality(ps) \in Nat
  BY FS_CardinalityType
<1>1. 0 \in S
  <2>1. ASSUME NEW T \in SUBSET Nat, IsFiniteSet(T), Cardinality(T) = 0
        PROVE  InKeyOrder(T) # {}
    <3>1. T = {}
      BY <2>1, FS_EmptySet
    <3> DEFINE s == [i \in 1..0 |-> 0]
    <3>2. 1..0 = {}
      OBVIOUS
    <3>3. s \in [1..Cardinality(T) -> T] /\ DOMAIN s = {}
      BY <2>1, <3>1, <3>2
    <3> HIDE DEF s
    <3>4. s \in InKeyOrder(T)
      BY <3>1, <3>3 DEF InKeyOrder
    <3> QED BY <3>4
  <2> QED BY <1>0, <2>1
<1>2. ASSUME NEW k \in 1..Cardinality(ps), k - 1 \in S PROVE k \in S
  <2>0. k \in Nat \ {0} /\ k \in 0..Cardinality(ps)
    BY <1>0
  <2>1. ASSUME NEW T \in SUBSET Nat, IsFiniteSet(T), Cardinality(T) = k
        PROVE  InKeyOrder(T) # {}
    <3>1. T # {}
      BY <2>0, <2>1, FS_EmptySet
    <3>2. PICK e \in T : \A x \in T : e <= x
      BY <3>1, LeastNumber
    <3> DEFINE U == T \ {e}
    <3>3. U \in SUBSET Nat /\ IsFiniteSet(U) /\ Cardinality(U) = k - 1
      BY <2>1, <3>2, FS_RemoveElement
    <3>4. PICK r : r \in InKeyOrder(U)
      BY <1>2, <3>3
    <3>5. /\ Len(r) = k - 1 /\ r \in [1..(k - 1) -> U]
          /\ \A i, j \in 1..(k - 1) : i < j => r[i] < r[j]
          /\ \A p \in U : \E x \in 1..(k - 1) : r[x] = p
      BY <3>3, <3>4, OrderFacts
    <3>6. /\ U \subseteq T /\ e \in Nat /\ \A p \in T : p = e \/ p \in U
          /\ \A p \in U : p \in Nat /\ e < p
      <4>1. \A p \in U : p \in T /\ p # e /\ p \in Nat /\ e \in Nat /\ e <= p
        BY <3>2
      <4> QED BY <3>2, <4>1
    <3> HIDE DEF U
    <3> DEFINE s == [i \in 1..k |-> IF i = 1 THEN e ELSE r[i - 1]]
    <3>7. DOMAIN s = 1..k /\ s[1] = e /\ \A i \in 1..(k - 1) : s[i + 1] = r[i]
      BY <2>0
    <3>d. s = [i \in 1..k |-> s[i]]
      OBVIOUS
    <3> HIDE DEF s
    <3>8. \A i \in 1..k : i = 1 \/ \E x \in 1..(k - 1) : i = x + 1
      <4>1. ASSUME NEW i \in 1..k, i # 1 PROVE i - 1 \in 1..(k - 1) /\ i = (i - 1) + 1
        BY <2>0, <4>1
      <4> QED BY <4>1
    <3>9. s \in [1..k -> T]
      <4>1. ASSUME NEW i \in 1..k, i # 1 PROVE s[i] \in T
        <5>1. PICK x \in 1..(k - 1) : i = x + 1
          BY <3>8, <4>1
        <5>2. r[x] \in U /\ s[i] = r[x]
          BY <3>5, <3>7, <5>1
        <5> QED BY <3>6, <5>2
      <4>2. \A i \in 1..k : s[i] \in T
        BY <3>2, <3>7, <4>1
      <4> QED BY <3>d, <4>2
    <3>a. ASSUME NEW i \in 1..k, NEW j \in 1..k, i < j PROVE s[i] < s[j]
      <4>1. j # 1
        BY <3>a
      <4>2. PICK y \in 1..(k - 1) : j = y + 1
        BY <3>8, <4>1
      <4>3. CASE i = 1
        BY <3>5, <3>6, <3>7, <4>2, <4>3
      <4>4. CASE i # 1
        <5>1. PICK x \in 1..(k - 1) : i = x + 1
          BY <3>8, <4>4
        <5>2. x < y
          BY <2>0, <3>a, <4>2, <5>1
        <5> QED BY <3>5, <3>7, <4>2, <5>1, <5>2
      <4> QED BY <4>3, <4>4
    <3>b. \A p \in T : \E i \in 1..k : s[i] = p
      <4>1. 1 \in 1..k /\ \A x \in 1..(k - 1) : x + 1 \in 1..k
        BY <2>0
      <4> QED BY <3>5, <3>6, <3>7, <4>1
    <3>c. s \in InKeyOrder(T)
      BY <2>1, <3>7, <3>9, <3>a, <3>b DEF InKeyOrder
    <3> QED BY <3>c
  <2> QED BY <2>0, <2>1
<1>3. Cardinality(ps) \in S
  <2>1. Cardinality(ps) \in 0..Cardinality(ps)
    BY <1>0
  <2> HIDE DEF S
  <2> QED BY <1>0, <1>1, <1>2, <2>1, UpTo
<1> QED BY <1>3

\* Keys have only one order.
LEMMA OneKeyOrder ==
    ASSUME NEW ps \in SUBSET Nat, IsFiniteSet(ps),
           NEW s \in InKeyOrder(ps), NEW t \in InKeyOrder(ps)
    PROVE  s = t
<1> DEFINE n == Cardinality(ps)
           Differ == {i \in 1..n : s[i] # t[i]}
<1>1. /\ n \in Nat /\ Len(s) = n /\ s \in [1..n -> ps]
      /\ \A i, j \in 1..n : i < j => s[i] < s[j]
      /\ \A p \in ps : \E x \in 1..n : s[x] = p
  BY OrderFacts
<1>2. /\ Len(t) = n /\ t \in [1..n -> ps]
      /\ \A i, j \in 1..n : i < j => t[i] < t[j]
      /\ \A p \in ps : \E x \in 1..n : t[x] = p
  BY OrderFacts
<1> HIDE DEF n
<1>3. ASSUME NEW i \in 1..n, NEW j \in 1..n
      PROVE  /\ s[i] \in Nat /\ t[i] \in Nat
             /\ s[i] < t[i] \/ t[i] < s[i] \/ s[i] = t[i]
             /\ i < j \/ i = j \/ j < i
  <2>1. s[i] \in ps /\ t[i] \in ps /\ i \in Nat /\ j \in Nat
    BY <1>1, <1>2
  <2>2. s[i] \in Nat /\ t[i] \in Nat
    BY <2>1
  <2>3. \A a, b \in Nat : a < b \/ b < a \/ a = b
    OBVIOUS
  <2> QED BY <2>1, <2>2, <2>3
<1>4. ASSUME Differ # {} PROVE FALSE
  <2>1. PICK i \in Differ : \A j \in Differ : i <= j
    <3>1. Differ \subseteq Nat
      BY <1>1
    <3> HIDE DEF Differ
    <3> QED BY <1>4, <3>1, LeastNumber
  <2>2. i \in 1..n /\ s[i] # t[i]
    BY <2>1
  <2>3. ASSUME NEW j \in 1..n, j < i PROVE s[j] = t[j]
    <3>1. ~(i <= j)
      BY <1>1, <2>2, <2>3
    <3> QED BY <2>1, <3>1
  <2>4. CASE s[i] < t[i]
    <3>1. s[i] \in ps
      BY <1>1, <2>2
    <3>2. PICK j \in 1..n : t[j] = s[i]
      BY <1>2, <3>1
    <3>3. j < i => s[j] < s[i] /\ s[j] = t[j]
      BY <1>1, <2>2, <2>3, <3>2
    <3>4. i < j => t[i] < t[j]
      BY <1>2, <2>2, <3>2
    <3>5. s[i] \in Nat /\ t[i] \in Nat /\ (i < j \/ i = j \/ j < i)
      BY <1>3, <2>2, <3>2
    <3> QED BY <2>4, <3>2, <3>3, <3>4, <3>5
  <2>5. CASE t[i] < s[i]
    <3>1. t[i] \in ps
      BY <1>2, <2>2
    <3>2. PICK j \in 1..n : s[j] = t[i]
      BY <1>1, <3>1
    <3>3. j < i => t[j] < t[i] /\ s[j] = t[j]
      BY <1>2, <2>2, <2>3, <3>2
    <3>4. i < j => s[i] < s[j]
      BY <1>1, <2>2, <3>2
    <3>5. s[i] \in Nat /\ t[i] \in Nat /\ (i < j \/ i = j \/ j < i)
      BY <1>3, <2>2, <3>2
    <3> QED BY <2>5, <3>2, <3>3, <3>4, <3>5
  <2> QED BY <1>3, <2>2, <2>4, <2>5
<1>5. \A i \in 1..n : s[i] = t[i]
  BY <1>4
<1> QED BY <1>1, <1>2, <1>5

\* The distributions of StratumProxy are the outcome of the loop of
\* freeWorkersToPools and nothing else: the keys of the pools have one order,
\* and for any queue, pools and counts there is one distribution, what has been
\* given away when the loop, which offers the first worker left to the pools in
\* that order and goes to the next pool at a refusal, has made its last call of
\* addWorker.
THEOREM LoopDistributes ==
    ASSUME NEW n \in Nat, NEW ps \in SUBSET Clients, NEW cnt, \A p \in ps : cnt[p] \in Nat
    PROVE  \E order : /\ InKeyOrder(ps) = {order}
                      /\ Distributions(n, ps, cnt) = {Offers(order, n, cnt)[n + Len(order)].to}
<1>1. ps \in SUBSET Nat /\ IsFiniteSet(ps)
  BY ClientsAssumption, FS_Subset
<1>2. PICK order : order \in InKeyOrder(ps)
  BY <1>1, SomeKeyOrder
<1>3. InKeyOrder(ps) = {order}
  BY <1>1, <1>2, OneKeyOrder
<1>4. Offers(order, n, cnt)[n + Len(order)].to \in Distributions(n, ps, cnt)
  BY <1>1, <1>2, LoopIsDistribution
<1>5. Distributions(n, ps, cnt) = {Offers(order, n, cnt)[n + Len(order)].to}
  BY <1>1, <1>4, OneDistribution
<1> QED BY <1>3, <1>5

-----------------------------------------------------------------------------
(* WebControl: every step is a step of the proxy *)

LEMMA SettingsAreInfos ==
    ASSUME settings \in PoolLists, NEW i \in DOMAIN settings
    PROVE  settings[i] \in PoolInfos /\ settings[i] \notin DevInfos
<1>1. settings \in Seq(PoolInfos) /\ Range(settings) \cap DevInfos = {}
  BY PoolListsAssumption
<1>2. settings[i] \in Range(settings)
  BY DEF Range
<1>3. settings[i] \in PoolInfos
  BY <1>1, ElementOfSeq, LenProperties
<1> QED BY <1>1, <1>2, <1>3

\* The developer pool whose turn it is.
LEMMA DevPoolIsDevInfo ==
    ASSUME dev_pool_list \in DevPoolLists, dev_pool_index \in Nat
    PROVE  LET info == dev_pool_list[(dev_pool_index % Len(dev_pool_list)) + 1]
           IN info \in DevInfos /\ info \in PoolInfos
<1> DEFINE n == Len(dev_pool_list)
           k == (dev_pool_index % n) + 1
<1>1. dev_pool_list \in Seq(PoolInfos) /\ dev_pool_list # <<>>
  BY PoolListsAssumption
<1>2. n \in Nat /\ n # 0 /\ DOMAIN dev_pool_list = 1..n
  BY <1>1, LenProperties, EmptySeq
<1>3. k \in 1..n
  <2> HIDE DEF n
  <2> QED BY <1>2
<1>4. dev_pool_list[k] \in Range(dev_pool_list) /\ dev_pool_list[k] \in PoolInfos
  BY <1>1, <1>2, <1>3, ElementOfSeq DEF Range
<1> QED BY <1>4 DEF DevInfos

\* The pool after the one at index i.
LEMMA NextPoolExists ==
    ASSUME settings \in PoolLists, NEW i \in 1..Len(settings)
    PROVE  (i % Len(settings)) + 1 \in DOMAIN settings
<1> DEFINE n == Len(settings)
<1>1. n \in Nat /\ DOMAIN settings = 1..n
  BY PoolListsAssumption, LenProperties
<1>2. i \in 1..n
  OBVIOUS
<1> HIDE DEF n
<1>3. (i % n) + 1 \in 1..n
  BY <1>1, <1>2
<1> QED BY <1>1, <1>3 DEF n

-----------------------------------------------------------------------------
(* WebControl: the number of clients *)

\* The maps of clients before and after a step.
LiveOf(ph) == {c \in Clients : ph[c] # "none"}

LEMMA LiveIsFinite == IsFiniteSet(Live) /\ Cardinality(Live) \in Nat
BY ClientsAssumption, FS_Subset, FS_CardinalityType DEF Live

\* The opens of a step in which no client is lost.
LEMMA OpenedCount ==
    ASSUME \A c \in Clients : phase[c] # "none" => phase'[c] # "none"
    PROVE  /\ Cardinality(Opened) \in Nat
           /\ Cardinality(Live') = Cardinality(Live) + Cardinality(Opened)
<1>1. Live' = Live \cup Opened /\ Live \cap Opened = {}
  BY DEF Live, Opened
<1>2. IsFiniteSet(Live) /\ IsFiniteSet(Opened) /\ Cardinality(Opened) \in Nat
  BY ClientsAssumption, FS_Subset, FS_CardinalityType DEF Live, Opened
<1>3. Cardinality(Live \cup Opened) =
        Cardinality(Live) + Cardinality(Opened) - Cardinality(Live \cap Opened)
  BY <1>2, FS_Union
<1>4. Cardinality(Live \cap Opened) = 0 /\ Cardinality(Live) \in Nat
  BY <1>1, <1>2, FS_EmptySet, FS_CardinalityType
<1> QED BY <1>1, <1>2, <1>3, <1>4

\* A client more or less told to close, or connected, opens none.
LEMMA NothingOpened ==
    ASSUME \A c \in Clients : phase[c] = "none" => phase'[c] = "none"
    PROVE  Opened = {} /\ Cardinality(Opened) = 0
BY FS_EmptySet DEF Opened

LEMMA AddPoolAutoOpens ==
    ASSUME NEW info \in PoolInfos \cup {NoPool}, AddPoolAuto(info), ClientInv
    PROVE  /\ \A c \in Clients : phase[c] # "none" => phase'[c] # "none"
           /\ \A c \in Clients : phase'[c] # "none" =>
                \/ phase[c] # "none" /\ options'[c] = options[c]
                \/ options'[c] \in PoolInfos
<1>1. CASE UNCHANGED <<phase, options, openNoConnectPools>>
  BY <1>1
<1>2. CASE info # NoPool /\ \E count : OpenClients(count, info)
  <2>1. PICK new \in SUBSET (Clients \ Live) :
          /\ phase' = [c \in Clients |-> IF c \in new THEN "opening" ELSE phase[c]]
          /\ options' = [c \in Clients |-> IF c \in new THEN info ELSE options[c]]
    BY <1>2 DEF OpenClients
  <2> QED BY <1>2, <2>1 DEF Live
<1> QED BY <1>1, <1>2 DEF AddPoolAuto

-----------------------------------------------------------------------------
(* WebControl: the invariant of the proxy, and the counter that follows it *)

ProxyInv ==
    /\ IInv
    /\ \A c \in Live : options[c] \in PoolInfos
    /\ open_pool_count = Cardinality(Live)

LEMMA ConnectKeepsProxyInv ==
    ASSUME ProxyInv, NEW info \in PoolInfos, ControlPoolConnect(info), Closed(0)
    PROVE  ProxyInv' /\ pool_connect_info' = info
<1>1. IInv' /\ ClientInv
  BY NextKeepsIInv DEF Next, ProxyInv, IInv
<1>2. AddPoolAuto(info)
  BY DEF ControlPoolConnect
<1>3. /\ \A c \in Clients : phase[c] # "none" => phase'[c] # "none"
      /\ \A c \in Clients : phase'[c] # "none" =>
           \/ phase[c] # "none" /\ options'[c] = options[c]
           \/ options'[c] \in PoolInfos
  BY <1>1, <1>2, AddPoolAutoOpens
<1>4. open_pool_count' = Cardinality(Live')
  BY <1>3, OpenedCount, LiveIsFinite DEF Closed, ProxyInv
<1>5. \A c \in Live' : options'[c] \in PoolInfos
  BY <1>3 DEF ProxyInv, Live
<1> QED BY <1>1, <1>4, <1>5 DEF ProxyInv, ControlPoolConnect

LEMMA DeselectKeepsProxyInv ==
    ASSUME ProxyInv, Deselect
    PROVE  ProxyInv' /\ pool_connect_info' = NoPool
<1>1. IInv'
  BY NextKeepsIInv DEF Next, ProxyInv, Deselect
<1>2. Live' = Live /\ options' = options /\ open_pool_count' = open_pool_count
  BY DEF Deselect, ControlPoolDisconnect, Live
<1> QED BY <1>1, <1>2 DEF ProxyInv, Deselect, ControlPoolDisconnect

LEMMA LoopKeepsProxyInv ==
    ASSUME ProxyInv, Loop, Closed(0)
    PROVE  ProxyInv' /\ pool_connect_info' = pool_connect_info
<1>1. IInv' /\ ClientInv /\ pool_connect_info \in PoolInfos \cup {NoPool}
  BY NextKeepsIInv DEF Next, ProxyInv, IInv, ClientInv
<1>2. AddPoolAuto(pool_connect_info) /\ pool_connect_info' = pool_connect_info
  BY DEF Loop
<1>3. /\ \A c \in Clients : phase[c] # "none" => phase'[c] # "none"
      /\ \A c \in Clients : phase'[c] # "none" =>
           \/ phase[c] # "none" /\ options'[c] = options[c]
           \/ options'[c] \in PoolInfos
  BY <1>1, <1>2, AddPoolAutoOpens
<1>4. open_pool_count' = Cardinality(Live')
  BY <1>3, OpenedCount, LiveIsFinite DEF Closed, ProxyInv
<1>5. \A c \in Live' : options'[c] \in PoolInfos
  BY <1>3 DEF ProxyInv, Live
<1> QED BY <1>1, <1>2, <1>4, <1>5 DEF ProxyInv

LEMMA SocketCloseKeepsProxyInv ==
    ASSUME ProxyInv, NEW c \in Clients, SocketClose(c), Closed(1)
    PROVE  ProxyInv' /\ pool_connect_info' = pool_connect_info
<1>1. IInv'
  BY NextKeepsIInv DEF Next, ProxyInv
<1>2. /\ phase \in [Clients -> {"none", "opening", "connected"}]
      /\ options \in [Clients -> PoolInfos \cup {NoPool}]
  BY DEF ProxyInv, IInv, ClientInv
<1>3. /\ phase' = [phase EXCEPT ![c] = "none"]
      /\ options' = [options EXCEPT ![c] = NoPool]
      /\ phase[c] # "none"
      /\ pool_connect_info' = pool_connect_info
  BY DEF SocketClose
<1>4. Live' = Live \ {c} /\ c \in Live
  BY <1>2, <1>3 DEF Live
<1>5. Cardinality(Live') = Cardinality(Live) - 1
  BY <1>4, LiveIsFinite, FS_RemoveElement
<1>6. Cardinality(Opened) = 0
  BY <1>2, <1>3, NothingOpened
<1>7. open_pool_count' = Cardinality(Live')
  BY <1>5, <1>6, LiveIsFinite DEF Closed, ProxyInv
<1>8. \A d \in Live' : options'[d] \in PoolInfos
  BY <1>2, <1>3, <1>4 DEF ProxyInv, Live
<1> QED BY <1>1, <1>3, <1>7, <1>8 DEF ProxyInv

LEMMA QuietKeepsProxyInv ==
    ASSUME ProxyInv, StratumQuiet
    PROVE  ProxyInv' /\ pool_connect_info' = pool_connect_info
<1>1. IInv'
  BY NextKeepsIInv DEF Next, ProxyInv, StratumQuiet
<1>2. phase \in [Clients -> {"none", "opening", "connected"}]
  BY DEF ProxyInv, IInv, ClientInv
<1> DEFINE Same == Live' = Live /\ options' = options /\ pool_connect_info' = pool_connect_info
<1>3. Same
  <2>1. ASSUME NEW c \in Clients, PoolConnect(c) PROVE Same
    BY <1>2, <2>1 DEF PoolConnect, Live
  <2>2. ASSUME NEW c \in Clients, ClientError(c) PROVE Same
    BY <2>2 DEF ClientError, Live
  <2>3. ASSUME NEW w \in Workers, WorkerConnect(w) \/ WorkerDisconnect(w)
        PROVE  Same
    BY <2>3 DEF WorkerConnect, WorkerDisconnect, clientVars, Live
  <2> QED BY <2>1, <2>2, <2>3 DEF StratumQuiet
<1> QED BY <1>1, <1>3 DEF ProxyInv, StratumQuiet, webVars

-----------------------------------------------------------------------------
(* WebControl: its numbers *)

\* disconnect_count after some closes, and the reconnects they schedule.
LEMMA CountsAreNumbers ==
    ASSUME NEW n \in Nat, NEW count \in 0..RetryCount, NEW pending \in Nat
    PROVE  /\ (IF n > count THEN 0 ELSE count - n) \in 0..RetryCount
           /\ pending + (IF n <= count THEN 0 ELSE n - count) \in Nat
BY RetryCountAssumption

LEMMA RefusedIsNumber ==
    ASSUME ProxyInv, NEW info
    PROVE  Refused(info) \in Nat
<1> DEFINE wanted == Ceil(Len(freeWorkers), MaxWorkersCount) - Cardinality(openNoConnectPools)
<1>1. Len(freeWorkers) \in Nat
  BY LenProperties DEF ProxyInv, IInv, Placed, IsQueue
<1>2. Cardinality(openNoConnectPools) \in Nat
  BY ClientsAssumption, FS_Subset, FS_CardinalityType DEF ProxyInv, IInv, ClientInv
<1>3. Ceil(Len(freeWorkers), MaxWorkersCount) \in Int
  BY <1>1, MaxWorkersCountAssumption DEF Ceil
<1>4. wanted \in Int
  BY <1>2, <1>3
<1>5. Refused(info) = IF info \notin BadPoolInfos THEN 0
                      ELSE IF Held = {} /\ wanted = 0 THEN 1
                      ELSE IF wanted < 0 THEN 0 ELSE wanted
  BY DEF Refused
<1> HIDE DEF wanted
<1> QED BY <1>4, <1>5

-----------------------------------------------------------------------------
(* WebControl: the inductive invariant *)

\* The types beyond the proxy's.
WebNumbers ==
    /\ settings \in PoolLists
    /\ selected \in 0..Len(settings)
    /\ user_pool_index \in Nat
    /\ dev_time \in BOOLEAN /\ stopped \in BOOLEAN
    /\ dev_pool_list \in DevPoolLists \cup {<<>>}
    /\ dev_pool_index \in Nat
    /\ disconnect_count \in 0..RetryCount
    /\ deferred \in Nat
    /\ commands \in 0..MaxCommands

\* Who is in charge: in dev time a developer pool or none yet, and otherwise
\* the selected pool, which is none after a stop.
InCharge ==
    /\ dev_time => /\ pool_connect_info \in DevInfos \cup {NoPool}
                   /\ dev_pool_list \in DevPoolLists
                   /\ selected = 0
    /\ ~dev_time => pool_connect_info = IF selected = 0 THEN NoPool ELSE settings[selected]
    /\ stopped => selected = 0

WebInv == ProxyInv /\ WebNumbers /\ InCharge

LEMMA WebInvImpliesAll ==
    WebInv => WebTypeOK /\ OpenCountAgrees /\ SelectedAgrees /\ FeeInItsTime /\ StopHolds
<1> SUFFICES ASSUME WebInv
             PROVE  WebTypeOK /\ OpenCountAgrees /\ SelectedAgrees /\ FeeInItsTime /\ StopHolds
  OBVIOUS
<1>0. ProxyInv /\ WebNumbers /\ InCharge
  BY DEF WebInv
<1>1. OpenCountAgrees
  BY <1>0 DEF ProxyInv, OpenCountAgrees
<1>2. WebTypeOK
  <2>1. TypeOK
    BY <1>0, IInvImpliesAll DEF ProxyInv
  <2>2. open_pool_count \in Nat
    BY <1>0, LiveIsFinite DEF ProxyInv
  <2> QED BY <1>0, <2>1, <2>2 DEF WebTypeOK, WebNumbers
<1>3. SelectedAgrees
  BY <1>0 DEF InCharge, SelectedAgrees
<1>4. \A c \in Live \ destroyed : options[c] = pool_connect_info /\ options[c] # NoPool
  BY <1>0, NoPoolAssumption DEF ProxyInv, IInv, ClientInv, OnlySelectedPool
<1>5. selected # 0 => settings[selected] \notin DevInfos
  <2> SUFFICES ASSUME selected # 0 PROVE settings[selected] \notin DevInfos
    OBVIOUS
  <2>1. selected \in DOMAIN settings /\ settings \in PoolLists
    BY <1>0, PoolListsAssumption, LenProperties DEF WebNumbers
  <2> QED BY <2>1, SettingsAreInfos
<1>6. FeeInItsTime
  BY <1>0, <1>4, <1>5 DEF InCharge, FeeInItsTime, WebNumbers
<1>7. StopHolds
  BY <1>0, <1>4 DEF InCharge, StopHolds, Live
<1> QED BY <1>1, <1>2, <1>3, <1>6, <1>7

LEMMA WebInitEstablishesWebInv == WebInit => WebInv
<1> SUFFICES ASSUME WebInit PROVE WebInv
  OBVIOUS
<1>1. settings \in PoolLists /\ settings \in Seq(PoolInfos)
  BY PoolListsAssumption DEF WebInit
<1>2. settings # <<>> => 1 \in 1..Len(settings) /\ settings[1] \in PoolInfos
  BY <1>1, LenProperties, EmptySeq, ElementOfSeq
<1>3. /\ pool_connect_info \in PoolInfos \cup {NoPool}
      /\ openNoConnectPools \subseteq Clients
      /\ openNoConnectPools # {} => pool_connect_info \in PoolInfos
      /\ Live = openNoConnectPools
  BY <1>2 DEF WebInit, Live
<1>4. ClientInv
  BY <1>3 DEF WebInit, ClientInv, HeldIsLive, OnlySelectedPool, Live
<1>5. Placed(freeWorkers, workers, workerPool, pools, poolWorkers, workersCount)
  <2>1. IsQueue(freeWorkers) /\ Range(freeWorkers) = {}
    BY DEF WebInit, IsQueue, Range
  <2> QED BY <2>1, NoPoolAssumption, MaxWorkersCountAssumption, FS_EmptySet DEF WebInit, Placed
<1>6. ProxyInv
  BY <1>3, <1>4, <1>5 DEF ProxyInv, IInv, WebInit
<1>7. WebNumbers
  <2>1. disconnect_count \in 0..RetryCount
    BY RetryCountAssumption DEF WebInit
  <2>2. selected \in 0..Len(settings)
    BY <1>1, <1>2, LenProperties DEF WebInit
  <2>3. commands \in 0..MaxCommands
    BY WebBoundsAssumption DEF WebInit
  <2> QED BY <1>1, <2>1, <2>2, <2>3 DEF WebInit, WebNumbers
<1>8. InCharge
  BY DEF WebInit, InCharge
<1> QED BY <1>6, <1>7, <1>8 DEF WebInv

\* A pool of the user's list is selected.
LEMMA SelectExistingKeeps ==
    ASSUME WebInv, NEW i \in DOMAIN settings, NEW pending \in Nat, SelectExisting(i, pending),
           settings' = settings
    PROVE  /\ ProxyInv'
           /\ pool_connect_info' = settings[i]
           /\ selected' = i /\ i \in 1..Len(settings)
           /\ disconnect_count' \in 0..RetryCount /\ deferred' \in Nat
<1>0. ProxyInv /\ settings \in PoolLists
  BY DEF WebInv, WebNumbers
<1>1. settings[i] \in PoolInfos
  BY <1>0, SettingsAreInfos
<1>2. ControlPoolConnect(settings[i]) /\ Closed(0) /\ selected' = i
  BY DEF SelectExisting
<1>3. ProxyInv' /\ pool_connect_info' = settings[i]
  BY <1>0, <1>1, <1>2, ConnectKeepsProxyInv
<1>4. i \in 1..Len(settings)
  BY <1>0, PoolListsAssumption, LenProperties
<1> DEFINE n == Refused(settings[i])
<1>5. n \in Nat
  BY <1>0, RefusedIsNumber
<1>6. /\ disconnect_count' = IF n > RetryCount THEN 0 ELSE RetryCount - n
      /\ deferred' = pending + IF n <= RetryCount THEN 0 ELSE n - RetryCount
  BY DEF SelectExisting
<1> HIDE DEF n
<1>7. disconnect_count' \in 0..RetryCount /\ deferred' \in Nat
  BY <1>5, <1>6, RetryCountAssumption
<1> QED BY <1>2, <1>3, <1>4, <1>7

\* Every step keeps the invariant: one case per action.
LEMMA WebNextKeepsWebInv == WebInv /\ [WebNext]_allVars => WebInv'
<1> SUFFICES ASSUME WebInv, [WebNext]_allVars PROVE WebInv'
  OBVIOUS
<1>0. /\ ProxyInv /\ WebNumbers /\ InCharge
      /\ settings \in PoolLists /\ settings \in Seq(PoolInfos) /\ DOMAIN settings = 1..Len(settings)
      /\ Len(settings) \in Nat
      /\ \A i \in DOMAIN settings : i # 0 /\ i \in Nat /\ i \in 0..Len(settings)
  <2>1. settings \in PoolLists /\ settings \in Seq(PoolInfos)
    BY PoolListsAssumption DEF WebInv, WebNumbers
  <2> QED BY <2>1, LenProperties DEF WebInv
<1>p. ASSUME PageCommand
      PROVE  /\ commands' \in 0..MaxCommands /\ ~dev_time
             /\ UNCHANGED <<dev_time, dev_pool_list, dev_pool_index>>
  BY <1>0, <1>p, WebBoundsAssumption DEF PageCommand, WebNumbers
<1>1. ASSUME NEW i \in 1..MaxIndex, PagePoolConnect(i) PROVE WebInv'
  <2>1. PageCommand /\ user_pool_index' = i /\ settings' = settings /\ i \in Nat
    BY <1>1, WebBoundsAssumption DEF PagePoolConnect
  <2>2. CASE i \in DOMAIN settings
    <3>1. SelectExisting(i, deferred) /\ stopped' = FALSE /\ deferred \in Nat
      BY <1>0, <1>1, <2>2 DEF PagePoolConnect, WebNumbers
    <3>2. /\ ProxyInv' /\ pool_connect_info' = settings[i] /\ selected' = i
          /\ disconnect_count' \in 0..RetryCount /\ deferred' \in Nat
      BY <2>1, <2>2, <3>1, SelectExistingKeeps
    <3>3. /\ commands' \in 0..MaxCommands /\ ~dev_time
          /\ UNCHANGED <<dev_time, dev_pool_list, dev_pool_index>>
      BY <1>p, <2>1
    <3>4. WebNumbers'
      BY <1>0, <2>1, <2>2, <3>1, <3>2, <3>3 DEF WebNumbers
    <3>5. InCharge'
      BY <1>0, <2>1, <2>2, <3>1, <3>2, <3>3 DEF InCharge
    <3> QED BY <3>2, <3>4, <3>5 DEF WebInv
  <2>3. CASE i \notin DOMAIN settings
    <3>1. UNCHANGED <<vars, selected, disconnect_count, open_pool_count, deferred, stopped>>
      BY <1>1, <2>3 DEF PagePoolConnect
    <3>2. ProxyInv'
      BY <1>0, <3>1, NextKeepsIInv DEF ProxyInv, vars, Live
    <3> QED BY <1>0, <1>p, <2>1, <3>1, <3>2 DEF WebInv, WebNumbers, InCharge, vars
  <2> QED BY <2>2, <2>3
<1>2. CASE PagePoolDisconnect
  <2>1. ProxyInv' /\ pool_connect_info' = NoPool
    BY <1>0, <1>2, DeselectKeepsProxyInv DEF PagePoolDisconnect
  <2> QED BY <1>0, <1>2, <1>p, <2>1 DEF PagePoolDisconnect, Deselect, WebInv, WebNumbers, InCharge
<1>3. ASSUME NEW list \in PoolLists, SettingsPoolsChange(list) PROVE WebInv'
  <2>1. ProxyInv' /\ pool_connect_info' = NoPool
    BY <1>0, <1>3, DeselectKeepsProxyInv DEF SettingsPoolsChange
  <2>2. selected' \in 0..Len(settings')
    BY <1>3, PoolListsAssumption, LenProperties DEF SettingsPoolsChange, Deselect
  <2> QED BY <1>0, <1>3, <1>p, <2>1, <2>2
          DEF SettingsPoolsChange, Deselect, WebInv, WebNumbers, InCharge
<1>4. CASE Reconnect
  <2>0. deferred - 1 \in Nat
    BY <1>0, <1>4 DEF Reconnect, WebNumbers
  <2>1. CASE ~dev_time /\ selected # 0
    <3> DEFINE next == (selected % Len(settings)) + 1
    <3>1. /\ SelectExisting(next, deferred - 1) /\ user_pool_index' = next
          /\ UNCHANGED <<settings, dev_time, dev_pool_list, dev_pool_index, commands, stopped>>
      BY <1>4, <2>1 DEF Reconnect
    <3>2. next \in DOMAIN settings
      BY <1>0, <2>1, NextPoolExists DEF WebNumbers
    <3> HIDE DEF next
    <3>3. /\ ProxyInv' /\ pool_connect_info' = settings[next] /\ selected' = next
          /\ disconnect_count' \in 0..RetryCount /\ deferred' \in Nat
      BY <2>0, <3>1, <3>2, SelectExistingKeeps
    <3> QED BY <1>0, <2>1, <3>1, <3>2, <3>3 DEF WebInv, WebNumbers, InCharge
  <2>2. CASE ~(~dev_time /\ selected # 0)
    <3>1. /\ deferred' = deferred - 1
          /\ UNCHANGED <<vars, selected, disconnect_count, open_pool_count, user_pool_index>>
          /\ UNCHANGED <<settings, dev_time, dev_pool_list, dev_pool_index, commands, stopped>>
      BY <1>4, <2>2 DEF Reconnect
    <3>2. ProxyInv'
      BY <1>0, <3>1, NextKeepsIInv DEF ProxyInv, vars, Live
    <3> QED BY <1>0, <2>0, <3>1, <3>2 DEF WebInv, WebNumbers, InCharge, vars
  <2> QED BY <2>1, <2>2
<1>5. ASSUME NEW list \in DevPoolLists, DevPools(list) PROVE WebInv'
  <2>1. ProxyInv'
    BY <1>0, <1>5, NextKeepsIInv DEF DevPools, ProxyInv, vars, Live
  <2> QED BY <1>0, <1>5, <2>1 DEF DevPools, WebInv, WebNumbers, InCharge, vars
<1>6. CASE DevFeeStart
  <2>1. ProxyInv' /\ pool_connect_info' = NoPool
    BY <1>0, <1>6, DeselectKeepsProxyInv DEF DevFeeStart
  <2> QED BY <1>0, <1>6, <2>1 DEF DevFeeStart, Deselect, WebInv, WebNumbers, InCharge
<1>7. CASE DevFeeConnect
  <2> DEFINE info == dev_pool_list[(dev_pool_index % Len(dev_pool_list)) + 1]
  <2>1. dev_time /\ dev_pool_list \in DevPoolLists /\ dev_pool_index \in Nat
    BY <1>0, <1>7 DEF DevFeeConnect, InCharge, WebNumbers
  <2>2. info \in DevInfos /\ info \in PoolInfos
    BY <2>1, DevPoolIsDevInfo
  <2>3. ControlPoolConnect(info) /\ Closed(0)
    BY <1>7 DEF DevFeeConnect
  <2> HIDE DEF info
  <2>4. ProxyInv' /\ pool_connect_info' = info
    BY <1>0, <2>2, <2>3, ConnectKeepsProxyInv
  <2>5. dev_pool_index' \in Nat
    BY <1>7, <2>1, WebBoundsAssumption DEF DevFeeConnect
  <2> QED BY <1>0, <1>7, <2>2, <2>4, <2>5 DEF DevFeeConnect, WebInv, WebNumbers, InCharge
<1>8. CASE DevFeeEnd
  <2>1. dev_time /\ ~dev_time' /\ dev_time' = FALSE
        /\ UNCHANGED <<settings, user_pool_index, dev_pool_list, dev_pool_index, commands>>
    BY <1>8 DEF DevFeeEnd
  <2>2. CASE user_pool_index \in DOMAIN settings
    <3>1. SelectExisting(user_pool_index, deferred) /\ stopped' = FALSE /\ deferred \in Nat
      BY <1>0, <1>8, <2>2 DEF DevFeeEnd, WebNumbers
    <3>2. /\ ProxyInv' /\ pool_connect_info' = settings[user_pool_index]
          /\ selected' = user_pool_index
          /\ disconnect_count' \in 0..RetryCount /\ deferred' \in Nat
      BY <2>1, <2>2, <3>1, SelectExistingKeeps
    <3> QED BY <1>0, <2>1, <2>2, <3>1, <3>2 DEF WebInv, WebNumbers, InCharge
  <2>3. CASE user_pool_index \notin DOMAIN settings
    <3>1. Deselect /\ stopped' = stopped
      BY <1>8, <2>3 DEF DevFeeEnd
    <3>2. ProxyInv' /\ pool_connect_info' = NoPool
      BY <1>0, <3>1, DeselectKeepsProxyInv
    <3> QED BY <1>0, <2>1, <3>1, <3>2 DEF Deselect, WebInv, WebNumbers, InCharge
  <2> QED BY <2>2, <2>3
<1>c. ASSUME NEW n \in Nat, CountCloses(n, disconnect_count, dev_time)
      PROVE  disconnect_count' \in 0..RetryCount /\ deferred' \in Nat
  <2>1. disconnect_count \in 0..RetryCount /\ deferred \in Nat
    BY <1>0 DEF WebNumbers
  <2>2. /\ disconnect_count' = IF dev_time THEN disconnect_count
                               ELSE IF n > disconnect_count THEN 0 ELSE disconnect_count - n
        /\ deferred' = deferred + IF dev_time \/ n <= disconnect_count THEN 0
                                  ELSE n - disconnect_count
    BY <1>c DEF CountCloses
  <2> QED BY <2>1, <2>2, RetryCountAssumption
<1>9. CASE StratumLoop
  <2>1. ProxyInv' /\ pool_connect_info' = pool_connect_info
    BY <1>0, <1>9, LoopKeepsProxyInv DEF StratumLoop
  <2>2. disconnect_count' \in 0..RetryCount /\ deferred' \in Nat
    BY <1>0, <1>9, <1>c, RefusedIsNumber DEF StratumLoop
  <2> QED BY <1>0, <1>9, <2>1, <2>2 DEF StratumLoop, WebInv, WebNumbers, InCharge
<1>10. ASSUME NEW c \in Clients, StratumClientClose(c) PROVE WebInv'
  <2>1. ProxyInv' /\ pool_connect_info' = pool_connect_info
    BY <1>0, <1>10, SocketCloseKeepsProxyInv DEF StratumClientClose
  <2>2. disconnect_count' \in 0..RetryCount /\ deferred' \in Nat
    BY <1>10, <1>c DEF StratumClientClose
  <2> QED BY <1>0, <1>10, <2>1, <2>2 DEF StratumClientClose, WebInv, WebNumbers, InCharge
<1>11. CASE StratumQuiet
  <2>1. ProxyInv' /\ pool_connect_info' = pool_connect_info
    BY <1>0, <1>11, QuietKeepsProxyInv
  <2> QED BY <1>0, <1>11, <2>1 DEF StratumQuiet, webVars, WebInv, WebNumbers, InCharge
<1>12. CASE UNCHANGED allVars
  <2>1. ProxyInv'
    BY <1>0, <1>12, NextKeepsIInv DEF allVars, webVars, ProxyInv, vars, Live
  <2> QED BY <1>0, <1>12, <2>1 DEF allVars, webVars, vars, WebInv, WebNumbers, InCharge
<1> QED BY <1>1, <1>2, <1>3, <1>4, <1>5, <1>6, <1>7, <1>8, <1>9, <1>10, <1>11, <1>12 DEF WebNext

-----------------------------------------------------------------------------
(* WebControl: the theorems *)

LEMMA WebInvariantHolds == WebSpec => []WebInv
BY WebInitEstablishesWebInv, WebNextKeepsWebInv, PTL DEF WebSpec

\* The fields of WebControl, and of the proxy below it, keep their types.
THEOREM WebTypeCorrect == WebSpec => []WebTypeOK
BY WebInvariantHolds, WebInvImpliesAll, PTL

\* open_pool_count is the number of stratum clients that exist.
THEOREM OpenCountIsRight == WebSpec => []OpenCountAgrees
BY WebInvariantHolds, WebInvImpliesAll, PTL

\* Developer pools are connected in dev time only, user pools outside it only.
THEOREM FeeIsInItsTime == WebSpec => []FeeInItsTime
BY WebInvariantHolds, WebInvImpliesAll, PTL

\* Page and proxy agree about the selected pool.
THEOREM SelectedIsConnected == WebSpec => []SelectedAgrees
BY WebInvariantHolds, WebInvImpliesAll, PTL

\* A stop is not undone by the failover it sets off.
THEOREM StopIsKept == WebSpec => []StopHolds
BY WebInvariantHolds, WebInvImpliesAll, PTL

=============================================================================

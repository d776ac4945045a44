-------------------------- MODULE StratumJobsProofs --------------------------
(***************************************************************************)
(* Proofs about StratumJobs.  The model hands a series of jobs out in one  *)
(* step (After, DataAt); the first part shows that this is what calling    *)
(* Job.getBlockHeaderForWorker once for each machine does.                 *)
(***************************************************************************)
EXTENDS StratumJobs, FiniteSetTheorems, FunctionTheorems, TLAPS

-----------------------------------------------------------------------------
(* The search space of a job *)

\* Quotient and remainder are determined by their equation.
LEMMA DivMod ==
    ASSUME NEW n \in Nat, NEW a \in Nat, NEW q \in Nat, NEW r \in Nat,
           a = n * q + r, r < n
    PROVE  a \div n = q /\ a % n = r
  BY SMTT(30)

LEMMA DivModDef ==
    ASSUME NEW n \in Nat \ {0}, NEW a \in Nat
    PROVE  a \div n \in Nat /\ a % n \in 0 .. n - 1 /\ a = n * (a \div n) + (a % n)
  BY SMTT(30)


LEMMA NextQuotient ==
    ASSUME NEW n \in Nat \ {0}, NEW a \in Nat
    PROVE  IF a % n = n - 1
           THEN (a + 1) % n = 0 /\ (a + 1) \div n = (a \div n) + 1
           ELSE (a + 1) % n = (a % n) + 1 /\ (a + 1) \div n = a \div n
<1> DEFINE q == a \div n
<1> DEFINE r == a % n
<1>1. q \in Nat /\ r \in 0 .. n - 1 /\ a = n * q + r  BY DivModDef
<1> HIDE DEF q, r
<1>2. CASE r = n - 1
  <2>1. a + 1 = n * (q + 1) + 0  BY <1>1, <1>2, SMTT(30)
  <2>2. (a + 1) \div n = q + 1 /\ (a + 1) % n = 0
    <3>1. n \in Nat /\ a + 1 \in Nat /\ q + 1 \in Nat /\ 0 \in Nat /\ 0 < n  BY <1>1
    <3>2. QED  BY <2>1, <3>1, DivMod
  <2>3. QED  BY <1>2, <2>2 DEF q, r
<1>3. CASE r # n - 1
  <2>1. a + 1 = n * q + (r + 1) /\ r + 1 < n  BY <1>1, <1>3, SMTT(30)
  <2>2. (a + 1) \div n = q /\ (a + 1) % n = r + 1
    <3>1. n \in Nat /\ a + 1 \in Nat /\ r + 1 \in Nat  BY <1>1
    <3>2. QED  BY <1>1, <2>1, <3>1, DivMod
  <2>3. QED  BY <1>3, <2>2 DEF q, r
<1>4. QED  BY <1>2, <1>3

\* Counting up modulo n may be done on the remainder.
LEMMA NextRemainder ==
    ASSUME NEW n \in Nat \ {0}, NEW a \in Nat
    PROVE  (a + 1) % n = ((a % n) + 1) % n
<1> DEFINE q == a \div n
<1> DEFINE r == a % n
<1>1. q \in Nat /\ r \in 0 .. n - 1 /\ a = n * q + r  BY DivModDef
<1> HIDE DEF q, r
<1>2. CASE r = n - 1
  <2>1. (a + 1) % n = 0  BY <1>2, NextQuotient DEF r
  <2>2. n = n * 1 + 0 /\ n \in Nat /\ 0 < n  OBVIOUS
  <2>3. n % n = 0  BY <2>2, DivMod
  <2>4. r + 1 = n  BY <1>1, <1>2
  <2>5. QED  BY <2>1, <2>3, <2>4 DEF r
<1>3. CASE r # n - 1
  <2>1. (a + 1) % n = r + 1  BY <1>3, NextQuotient DEF r
  <2>2. r + 1 = n * 0 + (r + 1) /\ r + 1 \in Nat /\ r + 1 < n /\ n \in Nat  BY <1>1, <1>3
  <2>3. (r + 1) % n = r + 1  BY <2>2, DivMod
  <2>4. QED  BY <2>1, <2>3 DEF r
<1>4. QED  BY <1>2, <1>3

-----------------------------------------------------------------------------
(* One call of getBlockHeaderForWorker *)

\* block_header_blob is rebuilt when the byte is zero, and what the call
\* returns has the extranonce and the nonce from before they are counted up.
CalledHeader(j) ==
    IF j.nonce3 = 0
    THEN [job_id |-> j.job_id, extranonce1 |-> j.coin,
          extranonce2 |-> j.extranonce2, ntime |-> j.ntime]
    ELSE j.header

Returned(j) ==
    [job_id |-> j.job_id, extranonce1 |-> j.extranonce1, extranonce2 |-> j.extranonce2,
     nonce3 |-> j.nonce3, ntime |-> j.ntime, header |-> CalledHeader(j)]

Called(j) ==
    IF j.nonce3 = Bytes - 1
    THEN [j EXCEPT !.header = CalledHeader(j), !.nonce3 = 0,
                   !.extranonce2 = (j.extranonce2 + 1) % Extranonces]
    ELSE [j EXCEPT !.header = CalledHeader(j), !.nonce3 = j.nonce3 + 1]

Jobs == [job_id : JobIds \cup {None}, extranonce1 : Nat, coin : Nat,
         extranonce2 : 0 .. Extranonces - 1, nonce3 : 0 .. Bytes - 1,
         ntime : Times \cup {None}, header : Headers]

LEMMA Positions ==
    ASSUME NEW j \in Jobs, NEW k \in Nat
    PROVE  /\ Nonce3At(j, k) \in 0 .. Bytes - 1
           /\ Extranonce2At(j, k) \in 0 .. Extranonces - 1
           /\ Nonce3At(j, 0) = j.nonce3
           /\ Extranonce2At(j, 0) = j.extranonce2
<1> DEFINE a == j.nonce3 + k
<1> DEFINE q == a \div Bytes
<1>0. Bytes \in Nat \ {0} /\ Extranonces \in Nat \ {0}  BY BytesAssumption
<1>1. j.nonce3 \in 0 .. Bytes - 1 /\ j.extranonce2 \in 0 .. Extranonces - 1  BY DEF Jobs
<1>2. a \in Nat  BY <1>0, <1>1
<1>3. q \in Nat /\ a % Bytes \in 0 .. Bytes - 1
  <2> HIDE DEF a
  <2>1. QED  BY <1>0, <1>2, DivModDef
<1>4. (j.extranonce2 + q) % Extranonces \in 0 .. Extranonces - 1
  <2> HIDE DEF q
  <2>1. j.extranonce2 + q \in Nat  BY <1>0, <1>1, <1>3
  <2>2. QED  BY <1>0, <2>1, DivModDef
<1>5. j.nonce3 \div Bytes = 0 /\ j.nonce3 % Bytes = j.nonce3
  <2>1. j.nonce3 = Bytes * 0 + j.nonce3 /\ j.nonce3 < Bytes /\ j.nonce3 \in Nat /\ Bytes \in Nat
    BY <1>0, <1>1
  <2>2. QED  BY <2>1, DivMod
<1>6. j.extranonce2 % Extranonces = j.extranonce2
  <2>1. /\ j.extranonce2 = Extranonces * 0 + j.extranonce2 /\ j.extranonce2 < Extranonces
        /\ j.extranonce2 \in Nat /\ Extranonces \in Nat
    BY <1>0, <1>1
  <2>2. QED  BY <2>1, DivMod
<1>7. j.nonce3 + 0 = j.nonce3 /\ j.extranonce2 + 0 = j.extranonce2  BY <1>1
<1>8. QED  BY <1>3, <1>4, <1>5, <1>6, <1>7 DEF Nonce3At, Extranonce2At

\* One position further is one call further.
LEMMA NextPosition ==
    ASSUME NEW j \in Jobs, NEW k \in Nat
    PROVE  IF Nonce3At(j, k) = Bytes - 1
           THEN /\ Nonce3At(j, k + 1) = 0
                /\ Extranonce2At(j, k + 1) = (Extranonce2At(j, k) + 1) % Extranonces
           ELSE /\ Nonce3At(j, k + 1) = Nonce3At(j, k) + 1
                /\ Extranonce2At(j, k + 1) = Extranonce2At(j, k)
<1> DEFINE a == j.nonce3 + k
<1> DEFINE q == a \div Bytes
<1> DEFINE e == j.extranonce2 + q
<1>0. Bytes \in Nat \ {0} /\ Extranonces \in Nat \ {0}  BY BytesAssumption
<1>1. j.nonce3 \in Nat /\ j.extranonce2 \in Nat  BY <1>0 DEF Jobs
<1>2. a \in Nat /\ j.nonce3 + (k + 1) = a + 1  BY <1>1
<1>3. Nonce3At(j, k) = a % Bytes /\ Extranonce2At(j, k) = e % Extranonces
  BY DEF Nonce3At, Extranonce2At
<1>4. /\ Nonce3At(j, k + 1) = (a + 1) % Bytes
      /\ Extranonce2At(j, k + 1) = (j.extranonce2 + ((a + 1) \div Bytes)) % Extranonces
  BY <1>2 DEF Nonce3At, Extranonce2At
<1> HIDE DEF a
<1>5. q \in Nat  BY <1>0, <1>2, DivModDef
<1>6. IF a % Bytes = Bytes - 1
      THEN (a + 1) % Bytes = 0 /\ (a + 1) \div Bytes = q + 1
      ELSE (a + 1) % Bytes = (a % Bytes) + 1 /\ (a + 1) \div Bytes = q
  BY <1>0, <1>2, NextQuotient
<1> HIDE DEF q
<1>7. e \in Nat /\ j.extranonce2 + (q + 1) = e + 1  BY <1>1, <1>5
<1>8. (e + 1) % Extranonces = ((e % Extranonces) + 1) % Extranonces
  <2> HIDE DEF e
  <2>1. QED  BY <1>0, <1>7, NextRemainder
<1>9. CASE a % Bytes = Bytes - 1
  BY <1>3, <1>4, <1>6, <1>7, <1>8, <1>9
<1>10. CASE a % Bytes # Bytes - 1
  BY <1>3, <1>4, <1>6, <1>10
<1>11. QED  BY <1>3, <1>9, <1>10

\* The header of the next job handed out, when n were before it.
LEMMA HeaderOfNext ==
    ASSUME NEW j \in Jobs, NEW n \in Nat
    PROVE  CalledHeader(After(j, n)) = HeaderAt(j, n)
<1>0. Bytes \in Nat \ {0} /\ j.nonce3 \in 0 .. Bytes - 1  BY BytesAssumption DEF Jobs
<1>1. CASE n = 0
  <2>1. Extranonce2At(j, n) = j.extranonce2  BY <1>1, Positions
  <2>2. ~(j.nonce3 + n >= Bytes)  BY <1>0, <1>1
  <2>3. After(j, n) = j  BY <1>1 DEF After
  <2>4. QED  BY <2>1, <2>2, <2>3 DEF CalledHeader, HeaderAt
<1>2. CASE n # 0
  <2> DEFINE m == n - 1
  <2> DEFINE A == After(j, n)
  <2>1. m \in Nat /\ m + 1 = n  BY <1>2
  <2>2. /\ A.job_id = j.job_id /\ A.coin = j.coin /\ A.ntime = j.ntime
        /\ A.nonce3 = Nonce3At(j, n) /\ A.extranonce2 = Extranonce2At(j, n)
        /\ A.header = HeaderAt(j, m)
    BY <1>2 DEF After, Jobs
  <2> HIDE DEF A
  <2>3. Nonce3At(j, m) \in 0 .. Bytes - 1  BY <2>1, Positions
  <2>4. j.nonce3 + n < Bytes => Nonce3At(j, n) = j.nonce3 + n
    <3>1. SUFFICES ASSUME j.nonce3 + n < Bytes PROVE (j.nonce3 + n) % Bytes = j.nonce3 + n
      BY DEF Nonce3At
    <3>2. /\ j.nonce3 + n = Bytes * 0 + (j.nonce3 + n)
          /\ j.nonce3 + n \in Nat /\ Bytes \in Nat
      BY <1>0
    <3>3. QED  BY <3>1, <3>2, DivMod
  <2>5. j.nonce3 + n = Bytes => Nonce3At(j, n) = 0
    <3>1. SUFFICES ASSUME j.nonce3 + n = Bytes PROVE Bytes % Bytes = 0
      BY DEF Nonce3At
    <3>2. Bytes = Bytes * 1 + 0 /\ 0 < Bytes /\ Bytes \in Nat  BY <1>0
    <3>3. QED  BY <3>2, DivMod
  <2>6. CASE Nonce3At(j, n) = 0
    <3>1. j.nonce3 + n >= Bytes  BY <1>0, <1>2, <2>4, <2>6
    <3>2. QED  BY <2>2, <2>6, <3>1 DEF A, CalledHeader, HeaderAt
  <2>7. CASE Nonce3At(j, n) # 0
    <3>1. Extranonce2At(j, n) = Extranonce2At(j, m)  BY <2>1, <2>7, NextPosition
    <3>2. (j.nonce3 + n >= Bytes) <=> (j.nonce3 + m >= Bytes)  BY <1>0, <2>1, <2>5, <2>7
    <3>3. HeaderAt(j, n) = HeaderAt(j, m)  BY <3>1, <3>2 DEF HeaderAt
    <3>4. QED  BY <2>2, <2>7, <3>3 DEF A, CalledHeader
  <2>8. QED  BY <2>6, <2>7
<1>3. QED  BY <1>1, <1>2

\* The series of jobs that JobForWorkers hands out in one step is what one
\* call of getBlockHeaderForWorker after the other returns, and the job it
\* leaves is the one they leave, from any byte, extranonce and header.
THEOREM CallsInARow ==
    ASSUME NEW j \in Jobs, NEW n \in Nat
    PROVE  /\ After(j, 0) = j
           /\ After(j, n + 1) = Called(After(j, n))
           /\ DataAt(j, n) = Returned(After(j, n))
<1>1. After(j, 0) = j  BY DEF After
<1> DEFINE A == After(j, n)
<1>2. CalledHeader(A) = HeaderAt(j, n)  BY HeaderOfNext
<1>3. A.nonce3 = Nonce3At(j, n) /\ A.extranonce2 = Extranonce2At(j, n)
  <2>1. CASE n = 0  BY <2>1, Positions DEF After
  <2>2. CASE n # 0  BY <2>2 DEF After, Jobs
  <2>3. QED  BY <2>1, <2>2
<1>4. /\ A.job_id = j.job_id /\ A.extranonce1 = j.extranonce1
      /\ A.coin = j.coin /\ A.ntime = j.ntime
  BY DEF After, Jobs
<1>5. n + 1 # 0 /\ (n + 1) - 1 = n  OBVIOUS
<1>6. A = [job_id |-> A.job_id, extranonce1 |-> A.extranonce1, coin |-> A.coin,
           extranonce2 |-> A.extranonce2, nonce3 |-> A.nonce3, ntime |-> A.ntime,
           header |-> A.header]
  BY DEF After, Jobs
<1>7. After(j, n + 1) =
        [job_id |-> j.job_id, extranonce1 |-> j.extranonce1, coin |-> j.coin,
         extranonce2 |-> Extranonce2At(j, n + 1), nonce3 |-> Nonce3At(j, n + 1),
         ntime |-> j.ntime, header |-> HeaderAt(j, n)]
  BY <1>5 DEF After, Jobs
<1> HIDE DEF A
<1>8. Called(A) =
        [job_id |-> j.job_id, extranonce1 |-> j.extranonce1, coin |-> j.coin,
         extranonce2 |-> IF A.nonce3 = Bytes - 1 THEN (A.extranonce2 + 1) % Extranonces
                         ELSE A.extranonce2,
         nonce3 |-> IF A.nonce3 = Bytes - 1 THEN 0 ELSE A.nonce3 + 1,
         ntime |-> j.ntime, header |-> HeaderAt(j, n)]
  BY <1>2, <1>4, <1>6 DEF Called
<1>9. After(j, n + 1) = Called(A)
  BY <1>3, <1>7, <1>8, NextPosition
<1>10. DataAt(j, n) = Returned(A)
  BY <1>2, <1>3, <1>4 DEF DataAt, Returned
<1>11. QED  BY <1>1, <1>9, <1>10 DEF A

-----------------------------------------------------------------------------
(* Positions in the search space, which is a circle: extranonce2 is the high *)
(* part of a position, the nonce byte the low part.                          *)

Space == Bytes * Extranonces

Pos(d) == d.extranonce2 * Bytes + d.nonce3

Congruent(x, y) == \E q \in Int : x = y + q * Space

LEMMA SpaceIsNumber == Space \in Nat \ {0}
<1>1. Bytes \in Nat \ {0} /\ Extranonces \in Nat \ {0}  BY BytesAssumption
<1>2. QED  BY <1>1, SMTT(30) DEF Space

LEMMA CongruentSymmetric ==
    ASSUME NEW x \in Int, NEW y \in Int, Congruent(x, y)
    PROVE  Congruent(y, x)
<1>1. PICK q \in Int : x = y + q * Space  BY DEF Congruent
<1>2. Space \in Int  BY SpaceIsNumber
<1>3. -q \in Int /\ y = x + (-q) * Space  BY <1>1, <1>2
<1>4. QED  BY <1>3 DEF Congruent

LEMMA CongruentTransitive ==
    ASSUME NEW x \in Int, NEW y \in Int, NEW z \in Int, Congruent(x, y), Congruent(y, z)
    PROVE  Congruent(x, z)
<1>1. PICK q \in Int : x = y + q * Space  BY DEF Congruent
<1>2. PICK r \in Int : y = z + r * Space  BY DEF Congruent
<1>3. Space \in Int  BY SpaceIsNumber
<1>4. q + r \in Int /\ x = z + (q + r) * Space  BY <1>1, <1>2, <1>3
<1>5. QED  BY <1>4 DEF Congruent

LEMMA CongruentShift ==
    ASSUME NEW x \in Int, NEW y \in Int, NEW k \in Int, Congruent(x, y)
    PROVE  Congruent(x + k, y + k)
<1>1. PICK q \in Int : x = y + q * Space  BY DEF Congruent
<1>2. Space \in Int  BY SpaceIsNumber
<1>3. x + k = (y + k) + q * Space  BY <1>1, <1>2
<1>4. QED  BY <1>3 DEF Congruent

LEMMA CongruentSame == ASSUME NEW x \in Int PROVE Congruent(x, x)
<1>1. 0 \in Int /\ x = x + 0 * Space  BY SpaceIsNumber
<1>2. QED  BY <1>1 DEF Congruent

\* Less than a whole turn apart, only equal numbers are congruent.
LEMMA CongruentClose ==
    ASSUME NEW x \in Int, NEW y \in Int, Congruent(x, y), x - y < Space, y - x < Space
    PROVE  x = y
<1>1. PICK q \in Int : x = y + q * Space  BY DEF Congruent
<1>2. Space \in Nat \ {0}  BY SpaceIsNumber
<1> HIDE DEF Space
<1>3. CASE q >= 1
  <2>1. q * Space >= Space  BY <1>2, <1>3, SMTT(30)
  <2>2. QED  BY <1>1, <1>2, <2>1
<1>4. CASE q <= -1
  <2>1. q * Space <= -Space  BY <1>2, <1>4, SMTT(30)
  <2>2. QED  BY <1>1, <1>2, <2>1
<1>5. CASE q = 0  BY <1>1, <1>2, <1>5
<1>6. QED  BY <1>3, <1>4, <1>5

\* k calls later the job is k positions further round the circle.
LEMMA PositionAt ==
    ASSUME NEW j \in Jobs, NEW k \in Nat
    PROVE  /\ Extranonce2At(j, k) * Bytes + Nonce3At(j, k) \in Int
           /\ Pos(j) \in Int
           /\ Congruent(Extranonce2At(j, k) * Bytes + Nonce3At(j, k), Pos(j) + k)
<1> DEFINE a == j.nonce3 + k
           q == a \div Bytes
           r == a % Bytes
           b == j.extranonce2 + q
           p == b \div Extranonces
           e == b % Extranonces
<1>0. Bytes \in Nat \ {0} /\ Extranonces \in Nat \ {0} /\ Bytes \in Int /\ Extranonces \in Int
  BY BytesAssumption
<1>1. j.nonce3 \in Nat /\ j.extranonce2 \in Nat  BY <1>0 DEF Jobs
<1>2. a \in Nat  BY <1>1
<1>3. q \in Nat /\ r \in Nat /\ a = Bytes * q + r
  <2> HIDE DEF a
  <2>1. q \in Nat /\ r \in 0 .. Bytes - 1 /\ a = Bytes * q + r  BY <1>0, <1>2, DivModDef
  <2>2. QED  BY <1>0, <2>1
<1> HIDE DEF q, r
<1>4. b \in Nat  BY <1>1, <1>3
<1>5. p \in Nat /\ e \in Nat /\ b = Extranonces * p + e
  <2> HIDE DEF b
  <2>1. p \in Nat /\ e \in 0 .. Extranonces - 1 /\ b = Extranonces * p + e
    BY <1>0, <1>4, DivModDef
  <2>2. QED  BY <1>0, <2>1
<1> HIDE DEF p, e
<1>6. Extranonce2At(j, k) = e /\ Nonce3At(j, k) = r
  BY DEF Extranonce2At, Nonce3At, e, r, q
<1>7. e * Bytes + r = (j.extranonce2 * Bytes + j.nonce3 + k) + (-p) * (Bytes * Extranonces)
  <2>1. j.extranonce2 + q = Extranonces * p + e  BY <1>5
  <2>2. j.nonce3 + k = Bytes * q + r  BY <1>3
  <2>3. /\ j.extranonce2 \in Int /\ j.nonce3 + k \in Int /\ Bytes \in Int /\ Extranonces \in Int
        /\ q \in Int /\ r \in Int /\ p \in Int /\ e \in Int
    BY <1>0, <1>1, <1>3, <1>5
  <2>4. e * Bytes + r = (j.extranonce2 * Bytes + (j.nonce3 + k)) + (-p) * (Bytes * Extranonces)
    <3>1. (j.extranonce2 + q) * Bytes = (Extranonces * p + e) * Bytes  BY <2>1
    <3>2. j.extranonce2 * Bytes + q * Bytes = Extranonces * p * Bytes + e * Bytes  BY <2>3, <3>1
    <3>3. q * Bytes = (j.nonce3 + k) - r  BY <2>2, <2>3
    <3>4. (-p) * (Bytes * Extranonces) = -(Extranonces * p * Bytes)  BY <2>3
    <3>5. QED  BY <2>3, <3>2, <3>3, <3>4
  <2>5. j.extranonce2 * Bytes + (j.nonce3 + k) = j.extranonce2 * Bytes + j.nonce3 + k
    BY <1>0, <1>1
  <2>6. QED  BY <2>4, <2>5
<1>8. /\ e * Bytes + r \in Int /\ j.extranonce2 * Bytes + j.nonce3 \in Int /\ -p \in Int
  BY <1>0, <1>1, <1>3, <1>5
<1>9. Congruent(e * Bytes + r, Pos(j) + k)  BY <1>7, <1>8 DEF Congruent, Pos, Space
<1>10. QED  BY <1>6, <1>8, <1>9 DEF Pos

-----------------------------------------------------------------------------
(* The order in which the machines of a set are handed their jobs *)

LEMMA RankFacts ==
    ASSUME NEW S \in SUBSET Nat, IsFiniteSet(S)
    PROVE  /\ \A w \in S : Rank(w, S) \in 0 .. Cardinality(S) - 1
           /\ \A v, w \in S : Rank(v, S) = Rank(w, S) => v = w
<1> DEFINE B(w) == {v \in S : v < w}
<1>1. ASSUME NEW w \in S
      PROVE  IsFiniteSet(B(w)) /\ Cardinality(B(w)) \in Nat /\ Cardinality(B(w)) < Cardinality(S)
  <2>1. B(w) \subseteq S /\ w \notin B(w)  OBVIOUS
  <2>2. IsFiniteSet(B(w)) /\ Cardinality(B(w)) <= Cardinality(S) /\ Cardinality(B(w)) # Cardinality(S)
    <3> HIDE DEF B
    <3>1. B(w) \in SUBSET S /\ B(w) # S  BY <2>1
    <3>2. QED  BY <3>1, FS_Subset
  <2>3. Cardinality(B(w)) \in Nat /\ Cardinality(S) \in Nat  BY <2>2, FS_CardinalityType
  <2> HIDE DEF B
  <2>4. QED  BY <2>2, <2>3
<1>2. ASSUME NEW v \in S, NEW w \in S, v < w
      PROVE  Cardinality(B(v)) # Cardinality(B(w))
  <2>0. v \in Nat /\ w \in Nat /\ \A x \in S : x \in Nat  OBVIOUS
  <2>1. B(v) \subseteq B(w) /\ v \in B(w) /\ v \notin B(v)
    <3>1. (\A x \in S : x < v => x < w) /\ ~(v < v)  BY <1>2, <2>0
    <3>2. QED  BY <1>2, <3>1, Zenon
  <2>2. QED  BY <1>1, <2>1, FS_Subset
<1>3. Cardinality(S) \in Nat  BY FS_CardinalityType
<1>4. ASSUME NEW w \in S PROVE Rank(w, S) = Cardinality(B(w))  BY DEF Rank
<1> HIDE DEF B
<1>5. \A w \in S : Rank(w, S) \in 0 .. Cardinality(S) - 1  BY <1>1, <1>3, <1>4
<1>6. ASSUME NEW v \in S, NEW w \in S, Rank(v, S) = Rank(w, S) PROVE v = w
  <2>1. ~(v < w) /\ ~(w < v)  BY <1>2, <1>4, <1>6
  <2>2. QED  BY <2>1
<1>7. QED  BY <1>5, <1>6

-----------------------------------------------------------------------------
(* The table of handed-out jobs: what an entry of `table' says when the job  *)
(* is j and h ids were made.                                                 *)

Datas == [job_id : JobIds \cup {None}, extranonce1 : Nat, extranonce2 : 0 .. Extranonces - 1,
          nonce3 : 0 .. Bytes - 1, ntime : Times \cup {None}, header : Headers]

Entries == [id : Nat, data : Datas]

HeaderOf(d) == [job_id |-> d.job_id, extranonce1 |-> d.extranonce1,
                extranonce2 |-> d.extranonce2, ntime |-> d.ntime]

\* The header the job holds is the one of its position, unless the next call
\* builds it anew.
FreshJob(j) ==
    /\ j.coin = j.extranonce1
    /\ j.nonce3 # 0 => j.header = HeaderOf(j)

Typed(table, h) == \A e \in table : e \in Entries /\ e.id \in 1 .. h

Current(table, j) == \A e \in table : e.data.job_id = j.job_id

Matching(table) == \A e \in table : e.data.header = HeaderOf(e.data)

\* The ids of the table are the last ones made.
Numbered(table, h) ==
    /\ IsFiniteSet(table)
    /\ \A a, b \in table : a.id = b.id => a = b
    /\ \E lo \in 0 .. h : Cardinality(table) = h - lo /\ \A e \in table : e.id > lo

\* Ids and positions advance together as long as extranonce1 stays.
Aligned(table, j, h) ==
    /\ \A a, b \in table : a.data.extranonce1 = b.data.extranonce1
         => Congruent(Pos(a.data) - a.id, Pos(b.data) - b.id)
    /\ \A a \in table : a.data.extranonce1 = j.extranonce1
         => Congruent(Pos(j) - (h + 1), Pos(a.data) - a.id)

Handed(S, j, h) == {[id |-> h + 1 + Rank(w, S), data |-> DataAt(j, Rank(w, S))] : w \in S}

LEMMA DataType ==
    ASSUME NEW j \in Jobs, NEW k \in Nat
    PROVE  /\ DataAt(j, k) \in Datas
           /\ HeaderAt(j, k) \in Headers
           /\ DataAt(j, k).job_id = j.job_id
           /\ DataAt(j, k).extranonce1 = j.extranonce1
<1>1. Nonce3At(j, k) \in 0 .. Bytes - 1 /\ Extranonce2At(j, k) \in 0 .. Extranonces - 1
      /\ Extranonce2At(j, 0) \in 0 .. Extranonces - 1
  BY Positions
<1>2. HeaderAt(j, k) \in Headers  BY <1>1 DEF HeaderAt, Headers, Jobs
<1>3. QED  BY <1>1, <1>2 DEF DataAt, Datas, Jobs

LEMMA AfterType ==
    ASSUME NEW j \in Jobs, NEW n \in Nat
    PROVE  /\ After(j, n) \in Jobs
           /\ After(j, n).job_id = j.job_id
           /\ After(j, n).extranonce1 = j.extranonce1
<1>1. CASE n = 0  BY <1>1 DEF After
<1>2. CASE n # 0
  <2>1. n - 1 \in Nat  BY <1>2
  <2>2. HeaderAt(j, n - 1) \in Headers  BY <2>1, DataType
  <2>3. Nonce3At(j, n) \in 0 .. Bytes - 1 /\ Extranonce2At(j, n) \in 0 .. Extranonces - 1
    BY Positions
  <2>4. QED  BY <1>2, <2>2, <2>3 DEF After, Jobs
<1>3. QED  BY <1>1, <1>2

\* Until the byte wraps the extranonce stays.
LEMMA ExtranonceStays ==
    ASSUME NEW j \in Jobs, NEW i \in Nat, j.nonce3 + i < Bytes
    PROVE  Extranonce2At(j, i) = j.extranonce2
<1>0. Bytes \in Nat \ {0} /\ Extranonces \in Nat \ {0} /\ j.nonce3 \in 0 .. Bytes - 1
      /\ j.extranonce2 \in 0 .. Extranonces - 1
  BY BytesAssumption DEF Jobs
<1>2. (j.nonce3 + i) \div Bytes = 0
  <2> DEFINE a == j.nonce3 + i
  <2>1. a = Bytes * 0 + a /\ a < Bytes /\ a \in Nat /\ Bytes \in Nat  BY <1>0
  <2> HIDE DEF a
  <2>2. a \div Bytes = 0  BY <2>1, DivMod
  <2>3. QED  BY <2>2 DEF a
<1>3. j.extranonce2 + 0 = j.extranonce2 /\ Extranonce2At(j, 0) = j.extranonce2
  BY <1>0, Positions
<1>4. (j.nonce3 + 0) \div Bytes = 0
  <2>1. j.nonce3 + 0 = j.nonce3 /\ j.nonce3 = Bytes * 0 + j.nonce3 /\ j.nonce3 < Bytes
        /\ j.nonce3 \in Nat /\ Bytes \in Nat
    BY <1>0
  <2>2. QED  BY <2>1, DivMod
<1>5. QED  BY <1>2, <1>3, <1>4 DEF Extranonce2At

\* A header built since the pool announced the extranonce1 has the extranonce2.
InPlace(d) == d.header.extranonce1 = d.extranonce1 => d.header.extranonce2 = d.extranonce2

LEMMA HeaderInPlace ==
    ASSUME NEW j \in Jobs, NEW k \in Nat, j.nonce3 # 0 => InPlace(j)
    PROVE  /\ InPlace(DataAt(j, k))
           /\ After(j, k).nonce3 # 0 => InPlace(After(j, k))
           /\ HeaderAt(j, k).extranonce1 \in {j.coin, j.header.extranonce1}
           /\ After(j, k).header.extranonce1 \in {j.coin, j.header.extranonce1}
<1>0. Bytes \in Nat \ {0} /\ j.nonce3 \in 0 .. Bytes - 1  BY BytesAssumption DEF Jobs
<1>1. ASSUME NEW i \in Nat
      PROVE  /\ HeaderAt(j, i).extranonce1 = j.extranonce1
                => HeaderAt(j, i).extranonce2 = Extranonce2At(j, i)
             /\ HeaderAt(j, i).extranonce1 \in {j.coin, j.header.extranonce1}
  <2>1. CASE j.nonce3 = 0 \/ j.nonce3 + i >= Bytes  BY <2>1 DEF HeaderAt
  <2>2. CASE ~(j.nonce3 = 0 \/ j.nonce3 + i >= Bytes)
    <3>1. j.nonce3 + i < Bytes  BY <1>0, <2>2
    <3>2. Extranonce2At(j, i) = j.extranonce2  BY <3>1, ExtranonceStays
    <3>3. QED  BY <2>2, <3>2 DEF HeaderAt, InPlace
  <2>3. QED  BY <2>1, <2>2
<1>2. InPlace(DataAt(j, k))  BY <1>1 DEF DataAt, InPlace
<1>3. CASE k = 0  BY <1>1, <1>2, <1>3 DEF After
<1>4. CASE k # 0
  <2>1. k - 1 \in Nat /\ (k - 1) + 1 = k  BY <1>4
  <2>2. Nonce3At(j, k) # 0 => Extranonce2At(j, k) = Extranonce2At(j, k - 1)
    <3>1. Nonce3At(j, k - 1) = Bytes - 1 => Nonce3At(j, (k - 1) + 1) = 0  BY <2>1, NextPosition
    <3>2. Nonce3At(j, k - 1) # Bytes - 1
          => Extranonce2At(j, (k - 1) + 1) = Extranonce2At(j, k - 1)
      BY <2>1, NextPosition
    <3>3. QED  BY <2>1, <3>1, <3>2
  <2>3. /\ After(j, k).nonce3 = Nonce3At(j, k) /\ After(j, k).extranonce2 = Extranonce2At(j, k)
        /\ After(j, k).header = HeaderAt(j, k - 1)
        /\ After(j, k).extranonce1 = j.extranonce1
    BY <1>4 DEF After, Jobs
  <2>4. /\ HeaderAt(j, k - 1).extranonce1 = j.extranonce1
           => HeaderAt(j, k - 1).extranonce2 = Extranonce2At(j, k - 1)
        /\ HeaderAt(j, k - 1).extranonce1 \in {j.coin, j.header.extranonce1}
    BY <1>1, <2>1
  <2>5. QED  BY <1>1, <1>2, <2>2, <2>3, <2>4 DEF InPlace
<1>5. QED  BY <1>3, <1>4

\* A fresh job hands out matching headers and stays fresh.
LEMMA FreshHandsMatching ==
    ASSUME NEW j \in Jobs, NEW k \in Nat, FreshJob(j)
    PROVE  /\ DataAt(j, k).header = HeaderOf(DataAt(j, k))
           /\ FreshJob(After(j, k))
<1>0. Bytes \in Nat \ {0} /\ Extranonces \in Nat \ {0} /\ j.nonce3 \in 0 .. Bytes - 1
      /\ j.extranonce2 \in 0 .. Extranonces - 1
  BY BytesAssumption DEF Jobs
<1>1. ASSUME NEW i \in Nat
      PROVE  HeaderAt(j, i) = [job_id |-> j.job_id, extranonce1 |-> j.extranonce1,
                               extranonce2 |-> Extranonce2At(j, i), ntime |-> j.ntime]
  <2>1. CASE j.nonce3 = 0 \/ j.nonce3 + i >= Bytes  BY <2>1 DEF HeaderAt, FreshJob
  <2>2. CASE ~(j.nonce3 = 0 \/ j.nonce3 + i >= Bytes)
    <3>1. j.nonce3 + i < Bytes /\ j.nonce3 + i \in Nat  BY <1>0, <2>2
    <3>3. Extranonce2At(j, i) = j.extranonce2  BY <3>1, ExtranonceStays
    <3>4. QED  BY <2>2, <3>3 DEF HeaderAt, FreshJob, HeaderOf
  <2>3. QED  BY <2>1, <2>2
<1>2. DataAt(j, k).header = HeaderOf(DataAt(j, k))  BY <1>1 DEF DataAt, HeaderOf
<1>3. CASE k = 0  BY <1>2, <1>3 DEF After
<1>4. CASE k # 0
  <2>1. k - 1 \in Nat /\ (k - 1) + 1 = k  BY <1>4
  <2>2. HeaderAt(j, k - 1) = [job_id |-> j.job_id, extranonce1 |-> j.extranonce1,
                              extranonce2 |-> Extranonce2At(j, k - 1), ntime |-> j.ntime]
    BY <1>1, <2>1
  <2>3. Nonce3At(j, k) # 0 => Extranonce2At(j, k) = Extranonce2At(j, k - 1)
    <3>1. Nonce3At(j, k - 1) = Bytes - 1 => Nonce3At(j, (k - 1) + 1) = 0  BY <2>1, NextPosition
    <3>2. Nonce3At(j, k - 1) # Bytes - 1
          => Extranonce2At(j, (k - 1) + 1) = Extranonce2At(j, k - 1)
      BY <2>1, NextPosition
    <3>3. QED  BY <2>1, <3>1, <3>2
  <2>4. QED  BY <1>2, <1>4, <2>2, <2>3 DEF After, FreshJob, HeaderOf, Jobs
<1>5. QED  BY <1>2, <1>3, <1>4

LEMMA HandedEntries ==
    ASSUME NEW S \in SUBSET Nat, IsFiniteSet(S), NEW j \in Jobs, NEW h \in Nat
    PROVE  /\ Cardinality(S) \in Nat
           /\ \A e \in Handed(S, j, h) : \E k \in 0 .. Cardinality(S) - 1 :
                e.id = h + 1 + k /\ e.data = DataAt(j, k)
           /\ \A a, b \in Handed(S, j, h) : a.id = b.id => a = b
           /\ IsFiniteSet(Handed(S, j, h))
           /\ Cardinality(Handed(S, j, h)) = Cardinality(S)
<1> DEFINE New(w) == [id |-> h + 1 + Rank(w, S), data |-> DataAt(j, Rank(w, S))]
           F == [w \in S |-> New(w)]
<1>1. /\ Cardinality(S) \in Nat
      /\ \A w \in S : Rank(w, S) \in 0 .. Cardinality(S) - 1
      /\ \A v, w \in S : Rank(v, S) = Rank(w, S) => v = w
  BY RankFacts, FS_CardinalityType
<1>2. \A e \in Handed(S, j, h) : \E w \in S : e = New(w)  BY DEF Handed
<1>3. \A w \in S : New(w) \in Handed(S, j, h)  BY DEF Handed
<1>4. \A v, w \in S : New(v).id = New(w).id => v = w
  <2> SUFFICES ASSUME NEW v \in S, NEW w \in S, New(v).id = New(w).id PROVE v = w
    OBVIOUS
  <2>1. h + 1 + Rank(v, S) = h + 1 + Rank(w, S)  OBVIOUS
  <2>2. Rank(v, S) \in Int /\ Rank(w, S) \in Int  BY <1>1
  <2>3. Rank(v, S) = Rank(w, S)  BY <2>1, <2>2
  <2>4. QED  BY <1>1, <2>3
<1>5. ASSUME NEW e \in Handed(S, j, h)
      PROVE  \E k \in 0 .. Cardinality(S) - 1 : e.id = h + 1 + k /\ e.data = DataAt(j, k)
  <2>1. PICK w \in S : e = New(w)  BY <1>2
  <2>2. Rank(w, S) \in 0 .. Cardinality(S) - 1  BY <1>1
  <2>3. e.id = h + 1 + Rank(w, S) /\ e.data = DataAt(j, Rank(w, S))  BY <2>1
  <2>4. QED  BY <2>2, <2>3, Zenon
<1> HIDE DEF New
<1>6. \A a, b \in Handed(S, j, h) : a.id = b.id => a = b  BY <1>2, <1>4
<1>7. ExistsBijection(S, Handed(S, j, h))
  <2>1. F \in [S -> Handed(S, j, h)]  BY <1>3
  <2>2. \A v, w \in S : F[v] = F[w] => v = w  BY <1>4
  <2>3. \A e \in Handed(S, j, h) : \E w \in S : F[w] = e  BY <1>2
  <2> HIDE DEF F
  <2>4. F \in Bijection(S, Handed(S, j, h))  BY <2>1, <2>2, <2>3, Fun_IsBij
  <2>5. QED  BY <2>4 DEF ExistsBijection
<1>8. IsFiniteSet(Handed(S, j, h)) /\ Cardinality(Handed(S, j, h)) = Cardinality(S)
  BY <1>7, FS_Bijection
<1>9. QED  BY <1>1, <1>5, <1>6, <1>8

LEMMA HandingNumbers ==
    ASSUME NEW S \in SUBSET Nat, IsFiniteSet(S), NEW j \in Jobs, NEW h \in Nat, NEW table,
           Typed(table, h), Numbered(table, h)
    PROVE  Numbered(table \cup Handed(S, j, h), h + Cardinality(S))
<1> DEFINE H == Handed(S, j, h)
           c == Cardinality(S)
<1>1. /\ c \in Nat
      /\ \A e \in H : \E k \in 0 .. c - 1 : e.id = h + 1 + k /\ e.data = DataAt(j, k)
      /\ \A a, b \in H : a.id = b.id => a = b
      /\ IsFiniteSet(H) /\ Cardinality(H) = c
  BY HandedEntries
<1> HIDE DEF H, c
<1>2. PICK lo \in 0 .. h : Cardinality(table) = h - lo /\ \A e \in table : e.id > lo
  BY DEF Numbered
<1>3. \A e \in H : e.id \in h + 1 .. h + c
  <2> TAKE e \in H
  <2>1. PICK k \in 0 .. c - 1 : e.id = h + 1 + k  BY <1>1
  <2>2. QED  BY <1>1, <2>1
<1>4. \A e \in table : e.id \in 1 .. h  BY DEF Typed
<1>5. \A a \in table, b \in H : a.id # b.id
  <2> TAKE a \in table, b \in H
  <2>1. a.id \in 1 .. h /\ b.id \in h + 1 .. h + c  BY <1>3, <1>4
  <2>2. QED  BY <1>1, <2>1
<1>6. \A a, b \in table \cup H : a.id = b.id => a = b  BY <1>1, <1>5 DEF Numbered
<1>7. IsFiniteSet(table) /\ Cardinality(table) \in Nat  BY FS_CardinalityType DEF Numbered
<1>8. table \cap H = {}  BY <1>5
<1>9. IsFiniteSet(table \cup H) /\ Cardinality(table \cup H) = Cardinality(table) + c - 0
  BY <1>1, <1>7, <1>8, FS_Union, FS_EmptySet
<1>10. lo \in 0 .. h + c /\ Cardinality(table \cup H) = (h + c) - lo  BY <1>1, <1>2, <1>9
<1>11. \A e \in table \cup H : e.id > lo
  <2>1. \A e \in H : e.id > lo
    <3> TAKE e \in H
    <3>1. e.id \in h + 1 .. h + c  BY <1>3
    <3>2. QED  BY <1>1, <3>1
  <2>2. QED  BY <1>2, <2>1
<1>12. Numbered(table \cup H, h + c)  BY <1>6, <1>9, <1>10, <1>11 DEF Numbered
<1>13. QED  BY <1>12 DEF H, c

LEMMA HandingTypes ==
    ASSUME NEW S \in SUBSET Nat, IsFiniteSet(S), NEW j \in Jobs, NEW h \in Nat, NEW table,
           Typed(table, h)
    PROVE  /\ Typed(table \cup Handed(S, j, h), h + Cardinality(S))
           /\ Current(table, j) => Current(table \cup Handed(S, j, h), j)
           /\ FreshJob(j) /\ Matching(table) => Matching(table \cup Handed(S, j, h))
<1> DEFINE H == Handed(S, j, h)
           c == Cardinality(S)
<1>1. /\ c \in Nat
      /\ \A e \in H : \E k \in 0 .. c - 1 : e.id = h + 1 + k /\ e.data = DataAt(j, k)
  BY HandedEntries
<1>a. \A e \in H : e = [id |-> e.id, data |-> e.data]  BY DEF Handed, H
<1> HIDE DEF H, c
<1>2. ASSUME NEW e \in H
      PROVE  /\ e \in Entries /\ e.id \in 1 .. h + c /\ e.data.job_id = j.job_id
             /\ FreshJob(j) => e.data.header = HeaderOf(e.data)
  <2>1. PICK k \in 0 .. c - 1 : e.id = h + 1 + k /\ e.data = DataAt(j, k)  BY <1>1
  <2>2. k \in Nat /\ e.id \in Nat /\ e.id \in 1 .. h + c  BY <1>1, <2>1
  <2>3. e.data \in Datas /\ e.data.job_id = j.job_id  BY <2>1, <2>2, DataType
  <2>4. FreshJob(j) => e.data.header = HeaderOf(e.data)  BY <2>1, <2>2, FreshHandsMatching
  <2>5. e \in Entries  BY <1>a, <2>2, <2>3 DEF Entries
  <2>6. QED  BY <2>2, <2>3, <2>4, <2>5
<1>3. \A e \in table : e \in Entries /\ e.id \in 1 .. h + c
  <2> TAKE e \in table
  <2>1. e \in Entries /\ e.id \in 1 .. h  BY DEF Typed
  <2>2. QED  BY <1>1, <2>1
<1>4. Typed(table \cup H, h + c)  BY <1>2, <1>3 DEF Typed
<1>5. Current(table, j) => Current(table \cup H, j)  BY <1>2 DEF Current
<1>6. FreshJob(j) /\ Matching(table) => Matching(table \cup H)  BY <1>2 DEF Matching
<1>7. QED  BY <1>4, <1>5, <1>6 DEF H, c

LEMMA PosIsNumber ==
    /\ \A d \in Datas : Pos(d) \in Int
    /\ \A j \in Jobs : Pos(j) \in Int
<1>1. Bytes \in Nat \ {0} /\ Extranonces \in Nat \ {0}  BY BytesAssumption
<1>2. \A x, y \in Nat : x * Bytes + y \in Int  BY <1>1
<1>3. ASSUME NEW d \in Datas PROVE d.extranonce2 \in Nat /\ d.nonce3 \in Nat  BY <1>1 DEF Datas
<1>4. ASSUME NEW j \in Jobs PROVE j.extranonce2 \in Nat /\ j.nonce3 \in Nat  BY <1>1 DEF Jobs
<1>5. QED  BY <1>2, <1>3, <1>4 DEF Pos

\* After the c-th job of the series the next one is as far from the next id.
LEMMA AfterKeepsDistance ==
    ASSUME NEW j \in Jobs, NEW h \in Nat, NEW c \in Nat
    PROVE  Congruent(Pos(After(j, c)) - (h + c + 1), Pos(j) - (h + 1))
<1> DEFINE x == Pos(j)
           y == Pos(After(j, c))
<1>1. x \in Int /\ y \in Int  BY AfterType, PosIsNumber
<1>2. Congruent(y, x + c)
  <2>1. CASE c = 0
    <3>1. y = x + c  BY <1>1, <2>1 DEF After
    <3>2. QED  BY <1>1, <3>1, CongruentSame
  <2>2. CASE c # 0
    <3>1. After(j, c).extranonce2 = Extranonce2At(j, c) /\ After(j, c).nonce3 = Nonce3At(j, c)
      BY <2>2 DEF After, Jobs
    <3>2. y = Extranonce2At(j, c) * Bytes + Nonce3At(j, c)  BY <3>1 DEF Pos
    <3>3. QED  BY <3>2, PositionAt
  <2>3. QED  BY <2>1, <2>2
<1> HIDE DEF x, y
<1>3. x + c \in Int /\ -(h + c + 1) \in Int  BY <1>1
<1>4. Congruent(y + (-(h + c + 1)), (x + c) + (-(h + c + 1)))
  BY <1>1, <1>2, <1>3, CongruentShift
<1>5. y + (-(h + c + 1)) = y - (h + c + 1) /\ (x + c) + (-(h + c + 1)) = x - (h + 1)
  BY <1>1
<1>6. QED  BY <1>4, <1>5 DEF x, y

LEMMA HandedKeepsDistance ==
    ASSUME NEW j \in Jobs, NEW h \in Nat, NEW k \in Nat
    PROVE  Congruent(Pos(DataAt(j, k)) - (h + 1 + k), Pos(j) - (h + 1))
<1> DEFINE x == Pos(j)
           y == Pos(DataAt(j, k))
<1>1. x \in Int /\ y \in Int  BY DataType, PosIsNumber
<1>2. y = Extranonce2At(j, k) * Bytes + Nonce3At(j, k)  BY DEF Pos, DataAt
<1>3. Congruent(y, x + k)  BY <1>2, PositionAt
<1> HIDE DEF x, y
<1>4. x + k \in Int /\ -(h + 1 + k) \in Int  BY <1>1
<1>5. Congruent(y + (-(h + 1 + k)), (x + k) + (-(h + 1 + k)))
  BY <1>1, <1>3, <1>4, CongruentShift
<1>6. y + (-(h + 1 + k)) = y - (h + 1 + k) /\ (x + k) + (-(h + 1 + k)) = x - (h + 1)
  BY <1>1
<1>7. QED  BY <1>5, <1>6 DEF x, y

LEMMA HandingAligns ==
    ASSUME NEW S \in SUBSET Nat, IsFiniteSet(S), NEW j \in Jobs, NEW h \in Nat, NEW table,
           Typed(table, h), Aligned(table, j, h)
    PROVE  Aligned(table \cup Handed(S, j, h), After(j, Cardinality(S)), h + Cardinality(S))
<1> DEFINE H == Handed(S, j, h)
           c == Cardinality(S)
           D(e) == Pos(e.data) - e.id
           base == Pos(j) - (h + 1)
<1>1. /\ c \in Nat
      /\ \A e \in H : \E k \in 0 .. c - 1 : e.id = h + 1 + k /\ e.data = DataAt(j, k)
  BY HandedEntries
<1> HIDE DEF H, c
<1>2. base \in Int
  <2>1. Pos(j) \in Int  BY PosIsNumber
  <2>2. QED  BY <2>1
<1>3. \A e \in table : D(e) \in Int
  <2> TAKE e \in table
  <2>1. e.data \in Datas /\ e.id \in Int  BY DEF Typed, Entries
  <2>2. Pos(e.data) \in Int  BY <2>1, PosIsNumber
  <2>3. QED  BY <2>1, <2>2
<1>4. ASSUME NEW e \in H
      PROVE  D(e) \in Int /\ Congruent(D(e), base) /\ e.data.extranonce1 = j.extranonce1
  <2>1. PICK k \in 0 .. c - 1 : e.id = h + 1 + k /\ e.data = DataAt(j, k)  BY <1>1
  <2>2. k \in Nat  BY <1>1, <2>1
  <2>3. e.data \in Datas /\ e.data.extranonce1 = j.extranonce1  BY <2>1, <2>2, DataType
  <2>4. Pos(e.data) \in Int  BY <2>3, PosIsNumber
  <2>5. D(e) \in Int  BY <2>1, <2>2, <2>4
  <2>6. Congruent(D(e), base)  BY <2>1, <2>2, HandedKeepsDistance
  <2>7. QED  BY <2>3, <2>5, <2>6
<1>5. /\ \A a, b \in table : a.data.extranonce1 = b.data.extranonce1 => Congruent(D(a), D(b))
      /\ \A a \in table : a.data.extranonce1 = j.extranonce1 => Congruent(base, D(a))
  BY DEF Aligned
<1> DEFINE A == After(j, c)
           base2 == Pos(A) - (h + c + 1)
<1>6. A \in Jobs /\ A.extranonce1 = j.extranonce1  BY <1>1, AfterType
<1>7. Congruent(base2, base)  BY <1>1, AfterKeepsDistance
<1>8. base2 \in Int
  <2>1. Pos(A) \in Int  BY <1>6, PosIsNumber
  <2> HIDE DEF A
  <2>2. QED  BY <1>1, <2>1
<1> HIDE DEF D, base, base2, A
<1>9. ASSUME NEW a \in table \cup H, a.data.extranonce1 = j.extranonce1
      PROVE  D(a) \in Int /\ Congruent(base, D(a)) /\ Congruent(D(a), base)
  <2>1. CASE a \in H  BY <1>2, <1>4, <2>1, CongruentSymmetric
  <2>2. CASE a \in table  BY <1>2, <1>3, <1>5, <1>9, <2>2, CongruentSymmetric
  <2>3. QED  BY <2>1, <2>2
<1>10. ASSUME NEW a \in table \cup H, NEW b \in table \cup H,
              a.data.extranonce1 = b.data.extranonce1
       PROVE  Congruent(D(a), D(b))
  <2>1. CASE a.data.extranonce1 = j.extranonce1
    <3>1. D(a) \in Int /\ Congruent(D(a), base)  BY <1>9, <2>1
    <3>2. D(b) \in Int /\ Congruent(base, D(b))  BY <1>9, <1>10, <2>1
    <3>3. QED  BY <1>2, <3>1, <3>2, CongruentTransitive
  <2>2. CASE a.data.extranonce1 # j.extranonce1
    <3>1. a \in table /\ b \in table  BY <1>4, <1>10, <2>2
    <3>2. QED  BY <1>5, <1>10, <3>1
  <2>3. QED  BY <2>1, <2>2
<1>11. ASSUME NEW a \in table \cup H, a.data.extranonce1 = A.extranonce1
       PROVE  Congruent(base2, D(a))
  <2>1. D(a) \in Int /\ Congruent(base, D(a))  BY <1>6, <1>9, <1>11
  <2>2. QED  BY <1>2, <1>7, <1>8, <2>1, CongruentTransitive
<1>12. Aligned(table \cup H, A, h + c)
  BY <1>10, <1>11 DEF Aligned, D, base2
<1>13. QED  BY <1>12 DEF H, c, A

\* Jobs of the table with the same position in the same extranonce1 are one,
\* as long as the table is no longer than the circle.
LEMMA AlignedIsDistinct ==
    ASSUME NEW h \in Nat, NEW table, NEW j, Typed(table, h), Numbered(table, h),
           Aligned(table, j, h), Cardinality(table) <= Space,
           NEW a \in table, NEW b \in table,
           a.data.extranonce1 = b.data.extranonce1, a.data.extranonce2 = b.data.extranonce2,
           a.data.nonce3 = b.data.nonce3
    PROVE  a = b
<1>1. PICK lo \in 0 .. h : Cardinality(table) = h - lo /\ \A e \in table : e.id > lo
  BY DEF Numbered
<1>2. a.id \in 1 .. h /\ b.id \in 1 .. h /\ a.data \in Datas  BY DEF Typed, Entries
<1>3. Pos(a.data) = Pos(b.data)  BY DEF Pos
<1>4. Congruent(Pos(a.data) - a.id, Pos(b.data) - b.id)  BY DEF Aligned
<1> DEFINE x == Pos(a.data)
<1>5. x \in Int  BY <1>2, PosIsNumber
<1>6. Congruent(x - a.id, x - b.id)  BY <1>3, <1>4
<1> HIDE DEF x
<1>7. a.id > lo /\ b.id > lo  BY <1>1
<1>8. Space \in Nat \ {0}  BY SpaceIsNumber
<1>9. /\ x - a.id \in Int /\ x - b.id \in Int
      /\ (x - a.id) - (x - b.id) < Space /\ (x - b.id) - (x - a.id) < Space
  <2> HIDE DEF Space
  <2>1. h - lo <= Space  BY <1>1
  <2>2. QED  BY <1>1, <1>2, <1>5, <1>7, <1>8, <2>1
<1>10. x - a.id = x - b.id  BY <1>6, <1>9, CongruentClose
<1>11. a.id = b.id  BY <1>2, <1>5, <1>10
<1>12. QED  BY <1>11 DEF Numbered

-----------------------------------------------------------------------------
(* The invariant *)

\* No extranonce1 is newer than the last of the n announced, and a header built
\* with that of its entry has its extranonce2 as well.
JobExtranonces(j, n) ==
    /\ j.extranonce1 <= n /\ j.coin <= n /\ j.header.extranonce1 <= n
    /\ j.nonce3 # 0 => InPlace(j)

ExtranoncesInv(table, j, n) ==
    /\ JobExtranonces(j, n)
    /\ \A e \in table : e.data.extranonce1 <= n /\ InPlace(e.data)

\* What the table, the job and the number of ids made say of each other.
TableInv(table, j, h) ==
    Typed(table, h) /\ Current(table, j) /\ Numbered(table, h) /\ Aligned(table, j, h)

JobsInv ==
    /\ job \in Jobs /\ refreshed \in BOOLEAN /\ sessions \in Nat /\ handed \in Nat
    /\ TableInv(job_workers, job, handed)
    /\ ExtranoncesInv(job_workers, job, sessions)
    /\ ~refreshed => FreshJob(job) /\ Matching(job_workers)

MachinesInv ==
    /\ connected \in BOOLEAN
    /\ workers \subseteq Machines
    /\ wrapper_job_id \in (1 .. handed) \cup {None}
    /\ sent \subseteq Machines \X (1 .. handed)
    /\ ~connected => workers = {}

SharesInv ==
    /\ share_count \in Nat /\ accepted \in Nat /\ rejected \in Nat
    /\ IsFiniteSet(pending)
    /\ \A s \in pending : s.seq \in 1 .. share_count
    /\ ~connected => pending = {}
    /\ SharesAccounted

IInv == JobsInv /\ MachinesInv /\ SharesInv

LEMMA EmptyTable ==
    ASSUME NEW j, NEW h \in Nat
    PROVE  /\ TableInv({}, j, h) /\ Matching({})
           /\ \A n : JobExtranonces(j, n) => ExtranoncesInv({}, j, n)
<1>1. IsFiniteSet({}) /\ Cardinality({}) = 0  BY FS_EmptySet
<1>2. h \in 0 .. h /\ h - h = 0  OBVIOUS
<1>3. Numbered({}, h)  BY <1>1, <1>2 DEF Numbered
<1>4. QED  BY <1>3 DEF TableInv, Typed, Current, Aligned, Matching, ExtranoncesInv

\* Handing out jobs keeps the table in order.
LEMMA HandOut ==
    ASSUME NEW S \in SUBSET Machines, NEW j \in Jobs, NEW table, NEW n \in Nat,
           handed \in Nat, TableInv(table, j, handed), ExtranoncesInv(table, j, n),
           wrapper_job_id \in (1 .. handed) \cup {None}, sent \subseteq Machines \X (1 .. handed),
           JobForWorkers(S, j, table)
    PROVE  /\ job' \in Jobs /\ handed' \in Nat
           /\ TableInv(job_workers', job', handed')
           /\ ExtranoncesInv(job_workers', job', n)
           /\ FreshJob(j) /\ Matching(table) => FreshJob(job') /\ Matching(job_workers')
           /\ wrapper_job_id' \in (1 .. handed') \cup {None}
           /\ sent' \subseteq Machines \X (1 .. handed')
<1>1. CASE j.job_id = None \/ S = {}
  BY <1>1 DEF JobForWorkers
<1>2. CASE ~(j.job_id = None \/ S = {})
  <2> DEFINE c == Cardinality(S)
             H == Handed(S, j, handed)
             A == After(j, c)
  <2>1. S \in SUBSET Nat /\ IsFiniteSet(S)  BY MachinesAssumption, FS_Subset
  <2>2. /\ c \in Nat
        /\ \A e \in H : \E k \in 0 .. c - 1 : e.id = handed + 1 + k /\ e.data = DataAt(j, k)
    BY <2>1, HandedEntries
  <2>3. c >= 1
    <3>1. c # 0  BY <1>2, <2>1, FS_EmptySet
    <3> HIDE DEF c
    <3>2. QED  BY <2>2, <3>1
  <2>4. /\ job' = A /\ job_workers' = table \cup H
        /\ handed' = handed + c /\ wrapper_job_id' = handed'
        /\ sent' = sent \cup {<<w, handed + 1 + Rank(w, S)>> : w \in S}
    BY <1>2 DEF JobForWorkers, Handed
  <2>5. A \in Jobs /\ A.job_id = j.job_id /\ A.extranonce1 = j.extranonce1
    BY <2>2, AfterType
  <2>6. Typed(table, handed) /\ Current(table, j) /\ Numbered(table, handed)
        /\ Aligned(table, j, handed)
    BY DEF TableInv
  <2>7. Numbered(table \cup H, handed + c)  BY <2>1, <2>6, HandingNumbers
  <2>8. /\ Typed(table \cup H, handed + c) /\ Current(table \cup H, j)
        /\ FreshJob(j) /\ Matching(table) => Matching(table \cup H)
    BY <2>1, <2>6, HandingTypes
  <2>9. Aligned(table \cup H, A, handed + c)  BY <2>1, <2>6, HandingAligns
  <2>10. FreshJob(j) => FreshJob(A)  BY <2>2, FreshHandsMatching
  <2>11. ExtranoncesInv(table \cup H, A, n)
    <3>0. /\ JobExtranonces(j, n) /\ (j.nonce3 # 0 => InPlace(j))
          /\ \A e \in table : e.data.extranonce1 <= n /\ InPlace(e.data)
      BY DEF ExtranoncesInv, JobExtranonces
    <3>1. ASSUME NEW e \in H PROVE e.data.extranonce1 <= n /\ InPlace(e.data)
      <4>1. PICK k \in 0 .. c - 1 : e.data = DataAt(j, k)  BY <2>2
      <4> HIDE DEF c
      <4>2. k \in Nat  BY <2>2, <4>1
      <4>3. e.data.extranonce1 = j.extranonce1  BY <4>1, <4>2, DataType
      <4>4. InPlace(e.data)  BY <3>0, <4>1, <4>2, HeaderInPlace
      <4>5. QED  BY <3>0, <4>3, <4>4 DEF JobExtranonces
    <3>2. JobExtranonces(A, n)
      <4>1. /\ A.nonce3 # 0 => InPlace(A)
            /\ A.header.extranonce1 \in {j.coin, j.header.extranonce1}
        BY <2>2, <3>0, HeaderInPlace
      <4>2. A.coin = j.coin  BY DEF After, Jobs
      <4> HIDE DEF A
      <4>3. QED  BY <2>5, <3>0, <4>1, <4>2 DEF JobExtranonces
    <3> HIDE DEF A, H
    <3>3. QED  BY <3>0, <3>1, <3>2 DEF ExtranoncesInv
  <2>12. sent' \subseteq Machines \X (1 .. handed')
    <3>1. \A w \in S : Rank(w, S) \in 0 .. c - 1  BY <2>1, RankFacts
    <3> HIDE DEF c
    <3>2. ASSUME NEW w \in S PROVE handed + 1 + Rank(w, S) \in 1 .. handed'
      <4>1. Rank(w, S) \in 0 .. c - 1  BY <3>1
      <4> DEFINE r == Rank(w, S)
      <4> HIDE DEF r
      <4>2. r \in 0 .. c - 1  BY <4>1 DEF r
      <4>3. handed + 1 + r \in 1 .. handed'  BY <2>2, <2>4, <4>2
      <4>4. QED  BY <4>3 DEF r
    <3>3. {<<w, handed + 1 + Rank(w, S)>> : w \in S} \subseteq Machines \X (1 .. handed')
      BY <3>2
    <3>4. 1 .. handed \subseteq 1 .. handed'  BY <2>2, <2>4
    <3>5. Machines \X (1 .. handed) \subseteq Machines \X (1 .. handed')  BY <3>4
    <3>6. QED  BY <2>4, <3>3, <3>5
  <2> HIDE DEF c, H, A
  <2>13. handed' \in Nat /\ wrapper_job_id' \in 1 .. handed'  BY <2>2, <2>3, <2>4
  <2>14. Current(table \cup H, A)  BY <2>5, <2>8 DEF Current
  <2>15. TableInv(table \cup H, A, handed + c)
    BY <2>7, <2>8, <2>9, <2>14 DEF TableInv
  <2>16. /\ TableInv(job_workers', job', handed')
         /\ ExtranoncesInv(job_workers', job', n)
         /\ FreshJob(j) /\ Matching(table) => FreshJob(job') /\ Matching(job_workers')
    BY <2>4, <2>8, <2>10, <2>11, <2>15
  <2>17. QED  BY <2>4, <2>5, <2>12, <2>13, <2>16
<1>3. QED  BY <1>1, <1>2

LEMMA StartsRight == Init => IInv
<1> SUFFICES ASSUME Init PROVE IInv
  OBVIOUS
<1>0. Bytes \in Nat \ {0} /\ Extranonces \in Nat \ {0}  BY BytesAssumption
<1>1. NewJob \in Jobs  BY <1>0 DEF NewJob, NoHeader, Jobs, Headers
<1>2. FreshJob(NewJob)  BY DEF FreshJob, NewJob
<1>3. JobExtranonces(NewJob, 0)  BY DEF NewJob, NoHeader, JobExtranonces
<1>4. TableInv({}, NewJob, 0) /\ Matching({}) /\ ExtranoncesInv({}, NewJob, 0)
  BY <1>3, EmptyTable
<1>5. JobsInv  BY <1>1, <1>2, <1>4 DEF JobsInv, Init
<1>6. MachinesInv  BY DEF MachinesInv, Init
<1>7. SharesInv  BY FS_EmptySet DEF SharesInv, SharesAccounted, Init
<1>8. QED  BY <1>5, <1>6, <1>7 DEF IInv

LEMMA NotifiedJob ==
    ASSUME JobsInv, NEW j \in JobIds, NEW t \in Times
    PROVE  /\ UpdatedJob(j, t) \in Jobs
           /\ TableInv(UpdatedTable(j), UpdatedJob(j, t), handed)
           /\ ExtranoncesInv(UpdatedTable(j), UpdatedJob(j, t), sessions)
           /\ j # job.job_id => FreshJob(UpdatedJob(j, t)) /\ Matching(UpdatedTable(j))
<1> DEFINE U == UpdatedJob(j, t)
<1>0. Bytes \in Nat \ {0} /\ Extranonces \in Nat \ {0} /\ job \in Jobs  BY BytesAssumption DEF JobsInv
<1>z. 0 \in 0 .. Bytes - 1 /\ 0 \in 0 .. Extranonces - 1  BY <1>0
<1>1. U \in Jobs
  <2> DEFINE e == IF j # job.job_id THEN 0 ELSE job.extranonce2
             b == IF j # job.job_id THEN 0 ELSE job.nonce3
  <2>1. e \in 0 .. Extranonces - 1 /\ b \in 0 .. Bytes - 1  BY <1>0, <1>z DEF Jobs
  <2>2. U = [job EXCEPT !.job_id = j, !.ntime = t, !.coin = job.extranonce1,
                        !.extranonce2 = e, !.nonce3 = b]
    BY DEF UpdatedJob
  <2> HIDE DEF e, b, U
  <2>3. QED  BY <1>0, <2>1, <2>2 DEF Jobs
<1>2. /\ U.job_id = j /\ U.extranonce1 = job.extranonce1 /\ U.coin = job.extranonce1
      /\ j # job.job_id => U.nonce3 = 0
      /\ j = job.job_id => U.nonce3 = job.nonce3 /\ U.extranonce2 = job.extranonce2
      /\ U.header = job.header
  BY <1>0 DEF UpdatedJob, Jobs
<1>a. JobExtranonces(job, sessions)  BY DEF JobsInv, ExtranoncesInv
<1>b. JobExtranonces(U, sessions)  BY <1>2, <1>a DEF JobExtranonces, InPlace
<1> HIDE DEF U
<1>3. CASE j # job.job_id
  <2>1. UpdatedTable(j) = {}  BY <1>3 DEF UpdatedTable
  <2>2. FreshJob(U)  BY <1>2, <1>3 DEF FreshJob
  <2>3. handed \in Nat  BY DEF JobsInv
  <2>4. TableInv({}, U, handed) /\ Matching({}) /\ ExtranoncesInv({}, U, sessions)
    BY <1>b, <2>3, EmptyTable
  <2>5. QED  BY <1>1, <2>1, <2>2, <2>4 DEF U
<1>4. CASE j = job.job_id
  <2>1. UpdatedTable(j) = job_workers  BY <1>4 DEF UpdatedTable
  <2>2. Pos(U) = Pos(job)  BY <1>2, <1>4 DEF Pos
  <2>3. Typed(job_workers, handed) /\ Current(job_workers, job) /\ Numbered(job_workers, handed)
        /\ Aligned(job_workers, job, handed) /\ ExtranoncesInv(job_workers, job, sessions)
    BY DEF JobsInv, TableInv
  <2>4. Current(job_workers, U) /\ ExtranoncesInv(job_workers, U, sessions)
    BY <1>2, <1>4, <1>b, <2>3 DEF Current, ExtranoncesInv
  <2>5. Aligned(job_workers, U, handed)  BY <1>2, <2>2, <2>3 DEF Aligned
  <2>6. QED  BY <1>1, <1>4, <2>1, <2>3, <2>4, <2>5 DEF TableInv, U
<1>5. QED  BY <1>3, <1>4

LEMMA NotifyKeeps ==
    ASSUME IInv, NEW j \in JobIds, NEW t \in Times, Notify(j, t)
    PROVE  IInv'
<1> DEFINE S == IF j # job.job_id THEN workers ELSE {}
           U == UpdatedJob(j, t)
           T == UpdatedTable(j)
<1>1. /\ U \in Jobs /\ TableInv(T, U, handed) /\ ExtranoncesInv(T, U, sessions)
      /\ j # job.job_id => FreshJob(U) /\ Matching(T)
  BY NotifiedJob DEF IInv
<1>2. /\ connected /\ refreshed' = (j = job.job_id) /\ JobForWorkers(S, U, T)
      /\ UNCHANGED <<connected, sessions, workers, shareVars>>
  BY DEF Notify
<1>3. S \in SUBSET Machines  BY DEF IInv, MachinesInv
<1>4. /\ handed \in Nat /\ sessions \in Nat /\ wrapper_job_id \in (1 .. handed) \cup {None}
      /\ sent \subseteq Machines \X (1 .. handed)
  BY DEF IInv, JobsInv, MachinesInv
<1> HIDE DEF S, U, T
<1>5. /\ job' \in Jobs /\ handed' \in Nat /\ TableInv(job_workers', job', handed')
      /\ ExtranoncesInv(job_workers', job', sessions)
      /\ FreshJob(U) /\ Matching(T) => FreshJob(job') /\ Matching(job_workers')
      /\ wrapper_job_id' \in (1 .. handed') \cup {None}
      /\ sent' \subseteq Machines \X (1 .. handed')
  BY <1>1, <1>2, <1>3, <1>4, HandOut
<1>6. ~refreshed' => FreshJob(job') /\ Matching(job_workers')  BY <1>1, <1>2, <1>5
<1>7. sessions' = sessions /\ refreshed' \in BOOLEAN  BY <1>2
<1>8. JobsInv'  BY <1>4, <1>5, <1>6, <1>7 DEF JobsInv
<1>9. MachinesInv'  BY <1>2, <1>5 DEF IInv, MachinesInv
<1>10. SharesInv'  BY <1>2 DEF IInv, SharesInv, SharesAccounted, shareVars
<1>11. QED  BY <1>8, <1>9, <1>10 DEF IInv

LEMMA WorkersInfoKeeps ==
    ASSUME IInv, NEW w \in Machines, WorkersInfo(w)
    PROVE  IInv'
<1>1. /\ JobForWorkers({w}, job, job_workers)
      /\ UNCHANGED <<connected, refreshed, sessions, workers, shareVars>>
  BY DEF WorkersInfo
<1>2. /\ job \in Jobs /\ handed \in Nat /\ sessions \in Nat
      /\ wrapper_job_id \in (1 .. handed) \cup {None} /\ sent \subseteq Machines \X (1 .. handed)
      /\ TableInv(job_workers, job, handed) /\ ExtranoncesInv(job_workers, job, sessions)
      /\ refreshed \in BOOLEAN /\ (~refreshed => FreshJob(job) /\ Matching(job_workers))
      /\ {w} \in SUBSET Machines
  BY DEF IInv, JobsInv, MachinesInv
<1>3. /\ job' \in Jobs /\ handed' \in Nat /\ TableInv(job_workers', job', handed')
      /\ ExtranoncesInv(job_workers', job', sessions)
      /\ FreshJob(job) /\ Matching(job_workers) => FreshJob(job') /\ Matching(job_workers')
      /\ wrapper_job_id' \in (1 .. handed') \cup {None}
      /\ sent' \subseteq Machines \X (1 .. handed')
  BY <1>1, <1>2, HandOut
<1>4. JobsInv'  BY <1>1, <1>2, <1>3 DEF JobsInv
<1>5. MachinesInv'  BY <1>1, <1>3 DEF IInv, MachinesInv
<1>6. SharesInv'  BY <1>1 DEF IInv, SharesInv, SharesAccounted, shareVars
<1>7. QED  BY <1>4, <1>5, <1>6 DEF IInv

LEMMA SetExtranonceKeeps ==
    ASSUME IInv, SetExtranonce
    PROVE  IInv'
<1>0. Extranonces \in Nat \ {0}  BY BytesAssumption
<1>1. /\ job \in Jobs /\ handed \in Nat /\ sessions \in Nat
      /\ TableInv(job_workers, job, handed) /\ ExtranoncesInv(job_workers, job, sessions)
  BY DEF IInv, JobsInv
<1>2. /\ sessions' = sessions + 1 /\ refreshed' = TRUE
      /\ job' = [job EXCEPT !.extranonce1 = sessions + 1, !.extranonce2 = 0]
      /\ job_workers' = job_workers /\ handed' = handed
  BY DEF SetExtranonce
<1>3. job' \in Jobs /\ job'.job_id = job.job_id /\ job'.extranonce1 = sessions + 1
  <2> DEFINE n == sessions + 1
  <2>1. n \in Nat /\ 0 \in 0 .. Extranonces - 1  BY <1>0, <1>1
  <2>2. job' = [job EXCEPT !.extranonce1 = n, !.extranonce2 = 0]  BY <1>2
  <2> HIDE DEF n
  <2>3. job' \in Jobs /\ job'.job_id = job.job_id /\ job'.extranonce1 = n
    BY <1>1, <2>1, <2>2 DEF Jobs
  <2>4. QED  BY <2>3 DEF n
<1>4. \A e \in job_workers : e.data.extranonce1 \in Nat /\ e.data.extranonce1 <= sessions
  BY <1>1 DEF TableInv, Typed, Entries, Datas, ExtranoncesInv
<1>b. JobExtranonces(job', sessions + 1)
  <2>1. /\ job'.header = job.header /\ job'.coin = job.coin
        /\ job.header.extranonce1 \in Nat /\ job.coin \in Nat
    BY <1>1, <1>2 DEF Jobs, Headers
  <2>2. job.header.extranonce1 <= sessions /\ job.coin <= sessions
    BY <1>1 DEF ExtranoncesInv, JobExtranonces
  <2>3. QED  BY <1>1, <1>3, <2>1, <2>2 DEF JobExtranonces, InPlace
<1>5. \A e \in job_workers : e.data.extranonce1 # sessions + 1 /\ e.data.extranonce1 <= sessions + 1
  BY <1>1, <1>4
<1>6. ExtranoncesInv(job_workers, job', sessions + 1)
  BY <1>1, <1>5, <1>b DEF ExtranoncesInv
<1>7. Aligned(job_workers, job', handed) /\ Current(job_workers, job')
  BY <1>1, <1>3, <1>5 DEF TableInv, Aligned, Current
<1>8. TableInv(job_workers, job', handed)  BY <1>1, <1>7 DEF TableInv
<1>9. sessions + 1 \in Nat  BY <1>1
<1>10. JobsInv'  BY <1>1, <1>2, <1>3, <1>6, <1>8, <1>9 DEF JobsInv
<1>11. MachinesInv'  BY DEF IInv, MachinesInv, SetExtranonce
<1>12. SharesInv'  BY DEF IInv, SharesInv, SharesAccounted, SetExtranonce, shareVars
<1>13. QED  BY <1>10, <1>11, <1>12 DEF IInv

LEMMA ConnectKeeps ==
    ASSUME IInv, Connect
    PROVE  IInv'
<1>0. Bytes \in Nat \ {0} /\ Extranonces \in Nat \ {0}  BY BytesAssumption
<1>1. NewJob \in Jobs  BY <1>0 DEF NewJob, NoHeader, Jobs, Headers
<1>2. FreshJob(NewJob)  BY DEF FreshJob, NewJob
<1>3. handed \in Nat /\ sessions \in Nat /\ JobExtranonces(NewJob, sessions)
  BY DEF IInv, JobsInv, NewJob, NoHeader, JobExtranonces
<1>4. TableInv({}, NewJob, handed) /\ Matching({}) /\ ExtranoncesInv({}, NewJob, sessions)
  BY <1>3, EmptyTable
<1>5. /\ job' = NewJob /\ job_workers' = {} /\ refreshed' = FALSE
      /\ handed' = handed /\ sessions' = sessions
  BY DEF Connect
<1>6. JobsInv'  BY <1>1, <1>2, <1>3, <1>4, <1>5 DEF JobsInv
<1>7. MachinesInv'  BY <1>5 DEF IInv, MachinesInv, Connect
<1>8. SharesInv'  BY FS_EmptySet DEF SharesInv, SharesAccounted, Connect
<1>9. QED  BY <1>6, <1>7, <1>8 DEF IInv

LEMMA CloseKeeps ==
    ASSUME IInv, Close
    PROVE  IInv'
<1>1. JobsInv'  BY DEF IInv, JobsInv, Close
<1>2. MachinesInv'  BY DEF IInv, MachinesInv, Close
<1>3. SharesInv'  BY FS_EmptySet DEF IInv, SharesInv, SharesAccounted, Close
<1>4. QED  BY <1>1, <1>2, <1>3 DEF IInv

LEMMA ComingAndGoingKeeps ==
    ASSUME IInv, NEW w \in Machines, Join(w) \/ Leave(w)
    PROVE  IInv'
<1>1. JobsInv'  BY DEF IInv, JobsInv, Join, Leave, poolVars
<1>2. SharesInv'
  BY DEF IInv, SharesInv, SharesAccounted, Join, Leave, poolVars, shareVars
<1>3. MachinesInv'
  <2>1. CASE Join(w)  BY <2>1 DEF IInv, MachinesInv, Join, poolVars
  <2>2. CASE Leave(w)  BY <2>2 DEF IInv, MachinesInv, Leave, poolVars
  <2>3. QED  BY <2>1, <2>2
<1>4. QED  BY <1>1, <1>2, <1>3 DEF IInv

LEMMA ShareKeeps ==
    ASSUME IInv, NEW w \in Machines, NEW id \in 1 .. handed, Share(w, id)
    PROVE  IInv'
<1>1. JobsInv'  BY DEF IInv, JobsInv, Share, poolVars
<1>2. MachinesInv'  BY DEF IInv, MachinesInv, Share, poolVars
<1>3. SharesInv'
  <2>1. PICK entry \in job_workers :
          pending' = pending \cup {[seq |-> share_count + 1, job_id |-> entry.data.job_id,
              extranonce2 |-> entry.data.extranonce2, ntime |-> entry.data.ntime]}
    BY DEF Share
  <2> DEFINE s == [seq |-> share_count + 1, job_id |-> entry.data.job_id,
                   extranonce2 |-> entry.data.extranonce2, ntime |-> entry.data.ntime]
  <2>2. pending' = pending \cup {s} /\ s.seq = share_count + 1  BY <2>1
  <2> HIDE DEF s
  <2>3. /\ share_count \in Nat /\ accepted \in Nat /\ rejected \in Nat
        /\ IsFiniteSet(pending) /\ \A p \in pending : p.seq \in 1 .. share_count
        /\ ~connected => pending = {}
        /\ connected => share_count = accepted + rejected + Cardinality(pending)
    BY DEF IInv, SharesInv, SharesAccounted
  <2>4. connected /\ connected' = connected  BY DEF IInv, MachinesInv, Share, poolVars
  <2>5. share_count' = share_count + 1 /\ accepted' = accepted /\ rejected' = rejected
    BY DEF Share
  <2>6. s \notin pending  BY <2>2, <2>3
  <2>7. IsFiniteSet(pending') /\ Cardinality(pending') = Cardinality(pending) + 1
    BY <2>2, <2>3, <2>6, FS_AddElement
  <2>8. Cardinality(pending) \in Nat  BY <2>3, FS_CardinalityType
  <2>9. \A p \in pending' : p.seq \in 1 .. share_count'
    <3>1. 1 .. share_count \subseteq 1 .. share_count' /\ share_count + 1 \in 1 .. share_count'
      BY <2>3, <2>5
    <3>2. QED  BY <2>2, <2>3, <3>1
  <2>10. /\ share_count' = accepted' + rejected' + Cardinality(pending')
         /\ accepted' + rejected' <= share_count'
    BY <2>3, <2>4, <2>5, <2>7, <2>8
  <2>11. QED  BY <2>3, <2>4, <2>5, <2>7, <2>9, <2>10 DEF SharesInv, SharesAccounted
<1>4. QED  BY <1>1, <1>2, <1>3 DEF IInv

LEMMA AnswerKeeps ==
    ASSUME IInv, NEW s \in pending, NEW ok \in BOOLEAN, Answer(s, ok)
    PROVE  IInv'
<1>1. JobsInv'  BY DEF IInv, JobsInv, Answer, poolVars
<1>2. MachinesInv'  BY DEF IInv, MachinesInv, Answer, poolVars
<1>3. SharesInv'
  <2>1. /\ share_count \in Nat /\ accepted \in Nat /\ rejected \in Nat
        /\ IsFiniteSet(pending) /\ \A p \in pending : p.seq \in 1 .. share_count
        /\ ~connected => pending = {}
        /\ connected => share_count = accepted + rejected + Cardinality(pending)
    BY DEF IInv, SharesInv, SharesAccounted
  <2>2. connected /\ connected' = connected /\ share_count' = share_count
        /\ pending' = pending \ {s}
    BY <2>1 DEF Answer, poolVars
  <2>3. IsFiniteSet(pending') /\ Cardinality(pending') = Cardinality(pending) - 1
    BY <2>1, <2>2, FS_RemoveElement
  <2>4. Cardinality(pending) \in Nat /\ Cardinality(pending') \in Nat
    BY <2>1, <2>3, FS_CardinalityType
  <2>5. /\ accepted' \in Nat /\ rejected' \in Nat
        /\ accepted' + rejected' = accepted + rejected + 1
    <3>1. \/ accepted' = accepted + 1 /\ rejected' = rejected
          \/ rejected' = rejected + 1 /\ accepted' = accepted
      BY DEF Answer
    <3>2. QED  BY <2>1, <3>1
  <2>6. /\ share_count' = accepted' + rejected' + Cardinality(pending')
        /\ accepted' + rejected' <= share_count'
    <3>1. \A a, r, b, c, d, e \in Nat :
            c = b - 1 /\ d + e = a + r + 1 => a + r + b = d + e + c /\ d + e <= a + r + b
      OBVIOUS
    <3>2. share_count' = accepted + rejected + Cardinality(pending)  BY <2>1, <2>2
    <3>3. /\ accepted \in Nat /\ rejected \in Nat /\ accepted' \in Nat /\ rejected' \in Nat
          /\ Cardinality(pending) \in Nat /\ Cardinality(pending') \in Nat
          /\ Cardinality(pending') = Cardinality(pending) - 1
          /\ accepted' + rejected' = accepted + rejected + 1
      BY <2>1, <2>3, <2>4, <2>5
    <3>4. /\ accepted + rejected + Cardinality(pending)
             = accepted' + rejected' + Cardinality(pending')
          /\ accepted' + rejected' <= accepted + rejected + Cardinality(pending)
      BY <3>1, <3>3, Zenon
    <3>5. QED  BY <3>2, <3>4, Zenon
  <2>7. \A p \in pending' : p.seq \in 1 .. share_count'  BY <2>1, <2>2
  <2>8. QED  BY <2>1, <2>2, <2>3, <2>5, <2>6, <2>7 DEF SharesInv, SharesAccounted
<1>4. QED  BY <1>1, <1>2, <1>3 DEF IInv

LEMMA StepsKeep == IInv /\ [Next]_vars => IInv'
<1> SUFFICES ASSUME IInv, [Next]_vars PROVE IInv'
  OBVIOUS
<1>1. ASSUME NEW w \in Machines, Join(w) \/ Leave(w) PROVE IInv'
  BY <1>1, ComingAndGoingKeeps
<1>2. ASSUME NEW w \in Machines, WorkersInfo(w) PROVE IInv'  BY <1>2, WorkersInfoKeeps
<1>3. ASSUME NEW w \in Machines, NEW id \in 1 .. handed, Share(w, id) PROVE IInv'
  BY <1>3, ShareKeeps
<1>4. CASE Connect  BY <1>4, ConnectKeeps
<1>5. CASE Close  BY <1>5, CloseKeeps
<1>6. CASE SetExtranonce  BY <1>6, SetExtranonceKeeps
<1>7. ASSUME NEW n \in 1 .. MaxSubmits, AnswerTimeout(n) PROVE IInv'
  BY <1>7, CloseKeeps DEF AnswerTimeout
<1>8. ASSUME NEW j \in JobIds, NEW t \in Times, Notify(j, t) PROVE IInv'  BY <1>8, NotifyKeeps
<1>9. ASSUME NEW s \in pending, NEW ok \in BOOLEAN, Answer(s, ok) PROVE IInv'
  BY <1>9, AnswerKeeps
<1>10. CASE UNCHANGED vars
  BY <1>10 DEF IInv, JobsInv, MachinesInv, SharesInv, SharesAccounted, vars, poolVars, shareVars
<1>11. QED
  BY <1>1, <1>2, <1>3, <1>4, <1>5, <1>6, <1>7, <1>8, <1>9, <1>10 DEF Next

LEMMA InvariantHolds == Spec => []IInv
<1>1. QED  BY StartsRight, StepsKeep, PTL DEF Spec

-----------------------------------------------------------------------------
(* The theorems *)

\* Every variable keeps its type, for any widths of byte and extranonce: the
\* byte and extranonce2 wrap before they leave them.
THEOREM TypeCorrect == Spec => []TypeOK
<1>1. IInv => TypeOK
  BY DEF IInv, JobsInv, MachinesInv, SharesInv, TableInv, Typed, Jobs, TypeOK
<1>2. QED  BY <1>1, InvariantHolds, PTL

\* Two machines are never handed the same header with the same nonce byte, until
\* more jobs were handed out than the search space has places, except where a
\* header was built before the pool's last extranonce1: with the header as with
\* what is submitted, ids and positions advance together.
THEOREM SearchIsDistinct == Spec => []DistinctSearch
<1>1. ASSUME IInv PROVE DistinctSearch
  <2>1. \A e \in job_workers : InPlace(e.data)
    BY <1>1 DEF IInv, JobsInv, ExtranoncesInv
  <2>2. handed \in Nat /\ Typed(job_workers, handed) /\ Numbered(job_workers, handed)
        /\ Aligned(job_workers, job, handed)
    BY <1>1 DEF IInv, JobsInv, TableInv
  <2>3. ASSUME Cardinality(job_workers) <= Space,
               NEW a \in job_workers, NEW b \in job_workers,
               SameSearch(a, b), ~Stale(a), ~Stale(b)
        PROVE  a = b
    <3>1. /\ a.data.extranonce1 = b.data.extranonce1 /\ a.data.extranonce2 = b.data.extranonce2
          /\ a.data.nonce3 = b.data.nonce3
      BY <2>1, <2>3 DEF SameSearch, Stale, InPlace
    <3>2. QED  BY <2>2, <2>3, <3>1, AlignedIsDistinct
  <2>4. QED  BY <2>3, Zenon DEF DistinctSearch, Space
<1>2. QED  BY <1>1, InvariantHolds, PTL

\* The header of every job in the table is built from what is submitted with
\* its shares, unless extranonce or job were refreshed.
THEOREM HeadersMatch == Spec => []HeaderMatches
<1>1. IInv => HeaderMatches
  BY DEF IInv, JobsInv, Matching, HeaderOf, HeaderMatches
<1>2. QED  BY <1>1, InvariantHolds, PTL

\* The client takes shares for jobs of the pool's current job id only.
THEOREM TableIsCurrent == Spec => []JobsAreCurrent
<1>1. IInv => JobsAreCurrent
  BY DEF IInv, JobsInv, TableInv, Current, JobsAreCurrent
<1>2. QED  BY <1>1, InvariantHolds, PTL

\* Every share is accepted, rejected or waited for while the client lives.
THEOREM SharesAreAccounted == Spec => []SharesAccounted
<1>1. IInv => SharesAccounted  BY DEF IInv, SharesInv
<1>2. QED  BY <1>1, InvariantHolds, PTL

=============================================================================

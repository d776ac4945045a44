---------------------------- MODULE WebStatProofs ----------------------------
(* Proofs about WebStat, for any sets of machines, pools, jobs and pages. *)
EXTENDS WebStat, StratumProxyProofs

-----------------------------------------------------------------------------
(* Splicing the gone sockets out of a list *)

\* The recursive definition has a value, which is what it says.
LEMMA SplicedSteps ==
    ASSUME NEW list, Len(list) \in Nat
    PROVE  /\ Spliced(list)[0] = list
           /\ \A i \in 1..Len(list) :
                Spliced(list)[i] =
                  IF list[i] = Gone /\ i <= Len(Spliced(list)[i - 1])
                  THEN RemoveAt(Spliced(list)[i - 1], i) ELSE Spliced(list)[i - 1]
<1> DEFINE n == Len(list)
           next(l, i) == IF list[i] = Gone /\ i <= Len(l) THEN RemoveAt(l, i) ELSE l
           Upto(f, k) == f = [i \in 0..k |-> IF i = 0 THEN list ELSE next(f[i - 1], i)]
           S == {k \in 0..n : \E f : Upto(f, k)}
<1> HIDE DEF next
<1>1. 0 \in S
  <2>1. Upto([i \in 0..0 |-> list], 0)
    OBVIOUS
  <2> HIDE DEF Upto
  <2> QED BY <2>1
<1>2. ASSUME NEW k \in 1..n, k - 1 \in S PROVE k \in S
  <2>1. PICK f : Upto(f, k - 1)
    BY <1>2
  <2> DEFINE g == [i \in 0..k |-> IF i = k THEN next(f[k - 1], k) ELSE f[i]]
  <2>2. ASSUME NEW i \in 0..k PROVE g[i] = IF i = 0 THEN list ELSE next(g[i - 1], i)
    <3>1. CASE i = k
      <4>1. k - 1 \in 0..k /\ k - 1 # k /\ k # 0
        OBVIOUS
      <4> QED BY <3>1, <4>1
    <3>2. CASE i # k
      <4>1. i \in 0..(k - 1)
        BY <3>2
      <4>2. g[i] = f[i] /\ f[i] = IF i = 0 THEN list ELSE next(f[i - 1], i)
        BY <2>1, <3>2, <4>1
      <4>3. i # 0 => i - 1 \in 0..k /\ i - 1 # k
        BY <4>1
      <4> QED BY <4>2, <4>3
    <3> QED BY <3>1, <3>2
  <2>3. Upto(g, k)
    BY <2>2
  <2> HIDE DEF Upto
  <2> QED BY <2>3
<1>3. n \in S
  <2>1. n \in 0..n
    OBVIOUS
  <2> HIDE DEF S
  <2> QED BY <1>1, <1>2, <2>1, UpTo
<1>4. PICK f : Upto(f, n)
  BY <1>3
<1>5. Upto(Spliced(list), n)
  BY <1>4, Zenon DEF Spliced, next
<1>6. \A i \in 0..n : Spliced(list)[i] = IF i = 0 THEN list ELSE next(Spliced(list)[i - 1], i)
  BY <1>5
<1>7. Spliced(list)[0] = list
  BY <1>6
<1>8. \A i \in 1..n : Spliced(list)[i] = next(Spliced(list)[i - 1], i)
  BY <1>6
<1> QED BY <1>7, <1>8 DEF next

\* Only sockets of the list stay in it, and all that are connected unless two
\* were gone.
LEMMA WithoutGoneFacts ==
    ASSUME NEW X, NEW list \in Seq(X)
    PROVE  /\ WithoutGone(list) \in Seq(X)
           /\ Range(WithoutGone(list)) \subseteq Range(list)
           /\ ~(\E i, j \in GoneAt(list) : i # j) =>
                Range(list) \ {Gone} \subseteq Range(WithoutGone(list))
<1> DEFINE n == Len(list)
           left == Spliced(list)
<1>0. n \in Nat /\ DOMAIN list = 1..n
  BY LenProperties
<1>1. /\ left[0] = list
      /\ \A i \in 1..n : left[i] =
           IF list[i] = Gone /\ i <= Len(left[i - 1]) THEN RemoveAt(left[i - 1], i) ELSE left[i - 1]
  BY <1>0, SplicedSteps
<1> HIDE DEF left, n
<1>2. ASSUME NEW Y, list \in Seq(Y) PROVE left[n] \in Seq(Y)
  <2> DEFINE S == {i \in 0..n : left[i] \in Seq(Y)}
  <2>1. 0 \in S
    BY <1>0, <1>1, <1>2
  <2>2. ASSUME NEW i \in 1..n, i - 1 \in S PROVE i \in S
    <3>1. left[i - 1] \in Seq(Y) /\ Len(left[i - 1]) \in Nat
      BY <2>2, LenProperties
    <3>2. i <= Len(left[i - 1]) => RemoveAt(left[i - 1], i) \in Seq(Y)
      <4>1. i <= Len(left[i - 1]) => i \in 1..Len(left[i - 1])
        BY <1>0, <3>1
      <4> QED BY <3>1, <4>1, RemoveAtFacts
    <3>3. left[i] \in Seq(Y)
      BY <1>1, <3>1, <3>2
    <3> QED BY <1>0, <3>3
  <2>3. n \in 0..n
    BY <1>0
  <2>4. n \in S
    <3> HIDE DEF S
    <3> QED BY <1>0, <2>1, <2>2, <2>3, UpTo
  <2> QED BY <2>4
<1>3. left[n] = WithoutGone(list)
  BY DEF left, n, WithoutGone
<1>4. Range(WithoutGone(list)) \subseteq Range(list)
  <2>1. list \in Seq(Range(list))
    BY <1>0 DEF Range, n
  <2>2. left[n] \in Seq(Range(list))
    BY <1>2, <2>1
  <2>3. \A i \in DOMAIN left[n] : left[n][i] \in Range(list)
    BY <2>2, LenProperties, ElementOfSeq
  <2> QED BY <1>3, <2>3 DEF Range
<1>5. CASE GoneAt(list) = {}
  <2> DEFINE S == {i \in 0..n : left[i] = list}
  <2>1. 0 \in S
    BY <1>0, <1>1
  <2>2. ASSUME NEW i \in 1..n, i - 1 \in S PROVE i \in S
    <3>1. list[i] # Gone
      BY <1>0, <1>5 DEF GoneAt
    <3> QED BY <1>0, <1>1, <2>2, <3>1
  <2>3. n \in 0..n
    BY <1>0
  <2>4. n \in S
    <3> HIDE DEF S
    <3> QED BY <1>0, <2>1, <2>2, <2>3, UpTo
  <2>5. WithoutGone(list) = list
    BY <1>3, <2>4
  <2> QED BY <1>4, <2>5
<1>6. ASSUME NEW g, GoneAt(list) = {g} PROVE Range(list) \ {Gone} \subseteq Range(WithoutGone(list))
  <2>1. g \in 1..n /\ list[g] = Gone /\ \A i \in 1..n : list[i] = Gone => i = g
    BY <1>0, <1>6 DEF GoneAt
  <2> DEFINE r == RemoveAt(list, g)
             S == {i \in 0..n : left[i] = IF i < g THEN list ELSE r}
  <2>2. Len(r) = n - 1 /\ r \in Seq(X) /\ \A j \in 1..(n - 1) : r[j] = list[IF j < g THEN j ELSE j + 1]
    BY <2>1, RemoveAtFacts DEF n
  <2> HIDE DEF r
  <2>3. 0 \in S
    BY <1>0, <1>1, <2>1
  <2>4. ASSUME NEW i \in 1..n, i - 1 \in S PROVE i \in S
    <3>1. CASE i < g
      <4>1. left[i - 1] = list /\ list[i] # Gone
        BY <1>0, <2>1, <2>4, <3>1
      <4> QED BY <1>0, <1>1, <3>1, <4>1
    <3>2. CASE i = g
      <4>1. left[i - 1] = list /\ i <= Len(list)
        BY <1>0, <2>1, <2>4, <3>2 DEF n
      <4> QED BY <1>0, <1>1, <2>1, <3>2, <4>1 DEF r
    <3>3. CASE i > g
      <4>1. left[i - 1] = r /\ list[i] # Gone
        BY <1>0, <2>1, <2>4, <3>3
      <4> QED BY <1>0, <1>1, <2>1, <3>3, <4>1
    <3> QED BY <1>0, <2>1, <3>1, <3>2, <3>3
  <2>5. n \in 0..n
    BY <1>0
  <2>6. n \in S
    <3> HIDE DEF S
    <3> QED BY <1>0, <2>3, <2>4, <2>5, UpTo
  <2>7. WithoutGone(list) = r
    BY <1>0, <1>3, <2>1, <2>6
  <2>8. ASSUME NEW x \in Range(list) \ {Gone} PROVE x \in Range(r)
    <3>1. PICK i \in 1..n : list[i] = x
      BY <1>0, <2>8 DEF Range
    <3>2. DOMAIN r = 1..(n - 1)
      BY <2>2, LenProperties
    <3>3. CASE i < g
      <4>1. i \in 1..(n - 1)
        BY <1>0, <2>1, <3>3
      <4>2. r[i] = x
        BY <2>2, <3>1, <3>3, <4>1
      <4> QED BY <3>2, <4>1, <4>2 DEF Range
    <3>4. CASE i > g
      <4>1. i - 1 \in 1..(n - 1) /\ ~(i - 1 < g) /\ (i - 1) + 1 = i
        BY <1>0, <2>1, <3>4
      <4>2. r[i - 1] = x
        BY <2>2, <3>1, <4>1
      <4> QED BY <3>2, <4>1, <4>2 DEF Range
    <3>5. i # g
      BY <2>1, <2>8, <3>1
    <3> QED BY <1>0, <2>1, <3>3, <3>4, <3>5
  <2> QED BY <2>7, <2>8
<1>7. WithoutGone(list) \in Seq(X)
  BY <1>2, <1>3
<1>8. ASSUME ~(\E i, j \in GoneAt(list) : i # j)
      PROVE  Range(list) \ {Gone} \subseteq Range(WithoutGone(list))
  <2>1. GoneAt(list) = {} \/ \E g : GoneAt(list) = {g}
    BY <1>8
  <2> QED BY <1>5, <1>6, <2>1
<1> QED BY <1>4, <1>7, <1>8

-----------------------------------------------------------------------------
(* Hearing a series of events *)

LEMMA HeardSteps ==
    ASSUME NEW t, NEW events, Len(events) \in Nat
    PROVE  \E heard : /\ heard[0] = stat[t]
                      /\ \A i \in 1..Len(events) : heard[i] = Hear(t, heard[i - 1], events[i])
                      /\ Heard(t, events) = heard[Len(events)]
<1> DEFINE n == Len(events)
           Upto(f, k) == f = [i \in 0..k |->
                              IF i = 0 THEN stat[t] ELSE Hear(t, f[i - 1], events[i])]
           S == {k \in 0..n : \E f : Upto(f, k)}
<1>1. 0 \in S
  <2>1. Upto([i \in 0..0 |-> stat[t]], 0)
    OBVIOUS
  <2> HIDE DEF Upto
  <2> QED BY <2>1
<1>2. ASSUME NEW k \in 1..n, k - 1 \in S PROVE k \in S
  <2>1. PICK f : Upto(f, k - 1)
    BY <1>2
  <2> DEFINE g == [i \in 0..k |-> IF i = k THEN Hear(t, f[k - 1], events[k]) ELSE f[i]]
  <2>2. ASSUME NEW i \in 0..k
        PROVE  g[i] = IF i = 0 THEN stat[t] ELSE Hear(t, g[i - 1], events[i])
    <3>1. CASE i = k
      <4>1. k - 1 \in 0..k /\ k - 1 # k /\ k # 0
        OBVIOUS
      <4> QED BY <3>1, <4>1
    <3>2. CASE i # k
      <4>1. i \in 0..(k - 1)
        BY <3>2
      <4>2. g[i] = f[i] /\ f[i] = IF i = 0 THEN stat[t] ELSE Hear(t, f[i - 1], events[i])
        BY <2>1, <3>2, <4>1
      <4>3. i # 0 => i - 1 \in 0..k /\ i - 1 # k
        BY <4>1
      <4> QED BY <4>2, <4>3
    <3> QED BY <3>1, <3>2
  <2>3. Upto(g, k)
    BY <2>2
  <2> HIDE DEF Upto
  <2> QED BY <2>3
<1>3. n \in S
  <2>1. n \in 0..n
    OBVIOUS
  <2> HIDE DEF S
  <2> QED BY <1>1, <1>2, <2>1, UpTo
<1>4. PICK f : Upto(f, n)
  BY <1>3
<1>5. PICK heard : Upto(heard, n) /\ Heard(t, events) = heard[n]
  BY <1>4, Zenon DEF Heard
<1>6. \A i \in 0..n : heard[i] = IF i = 0 THEN stat[t] ELSE Hear(t, heard[i - 1], events[i])
  BY <1>5
<1>7. heard[0] = stat[t]
  BY <1>6
<1>8. \A i \in 1..n : heard[i] = Hear(t, heard[i - 1], events[i])
  BY <1>6
<1> QED BY <1>5, <1>7, <1>8

\* What holds of a table at first and is carried on by each event, holds in
\* the end: at[i] are the tables of which it holds after i events.
LEMMA HeardInduction ==
    ASSUME NEW t, NEW events, Len(events) \in Nat, NEW at, stat[t] \in at[0],
           \A i \in 1..Len(events) : \A a \in at[i - 1] : Hear(t, a, events[i]) \in at[i]
    PROVE  Heard(t, events) \in at[Len(events)]
<1> DEFINE n == Len(events)
<1>1. PICK heard : /\ heard[0] = stat[t]
                   /\ \A i \in 1..n : heard[i] = Hear(t, heard[i - 1], events[i])
                   /\ Heard(t, events) = heard[n]
  BY HeardSteps
<1> DEFINE S == {i \in 0..n : heard[i] \in at[i]}
<1>2. 0 \in S
  BY <1>1
<1>3. ASSUME NEW i \in 1..n, i - 1 \in S PROVE i \in S
  <2>1. heard[i - 1] \in at[i - 1]
    BY <1>3
  <2>2. heard[i] \in at[i]
    BY <1>1, <2>1
  <2> QED BY <2>2
<1>4. n \in 0..n
  OBVIOUS
<1>5. n \in S
  <2> HIDE DEF S
  <2> QED BY <1>2, <1>3, <1>4, UpTo
<1> QED BY <1>1, <1>5

-----------------------------------------------------------------------------
(* Tables *)

Values == [pools |-> Int, workers |-> Clients \cup {NoPool}, jobs |-> Nat]
Rows(t) == [RowIds[t] -> Values[t] \cup {NoRow}]
Views(t) == [Pages -> [RowIds[t] -> Values[t] \cup {NoRow, Dead}]]

Records(t) ==
    IF t = "jobs"
    THEN [rows : Rows(t), archive : SUBSET RowIds[t], sockets : Seq(Pages \cup {Gone}),
          view : Views(t), crowded : BOOLEAN,
          poolsJobs : [Clients -> JobIds \cup {NoJob}], poolsWorkerCount : [Clients -> Nat]]
    ELSE [rows : Rows(t), archive : SUBSET RowIds[t], sockets : Seq(Pages \cup {Gone}),
          view : Views(t), crowded : BOOLEAN]

LEMMA TablesAre ==
    /\ Tables = {"pools", "workers", "jobs"}
    /\ RowIds["pools"] = Clients /\ RowIds["workers"] = Workers /\ RowIds["jobs"] = JobIds
    /\ Values["pools"] = Int /\ Values["workers"] = Clients \cup {NoPool} /\ Values["jobs"] = Nat
    /\ \A t \in Tables : NoRow \notin Values[t] /\ Dead \notin Values[t]
BY RowsAssumption, ClientsAssumption DEF Tables, RowIds, Values

LEMMA FieldTypes ==
    ASSUME NEW t \in Tables, NEW a \in Records(t)
    PROVE  /\ a.rows \in Rows(t)
           /\ a.archive \subseteq RowIds[t]
           /\ a.sockets \in Seq(Pages \cup {Gone})
           /\ a.view \in Views(t)
           /\ a.crowded \in BOOLEAN
           /\ t = "jobs" => /\ a.poolsJobs \in [Clients -> JobIds \cup {NoJob}]
                            /\ a.poolsWorkerCount \in [Clients -> Nat]
BY DEF Records

\* The columns that only Jobs has.
SameOwn(t, a, b) ==
    t = "jobs" => b.poolsJobs = a.poolsJobs /\ b.poolsWorkerCount = a.poolsWorkerCount

\* A table whose row id is set, and whose archive becomes A.
WithRow(a, id, row, A) == [a EXCEPT !.rows[id] = row, !.archive = A]

LEMMA RowSet ==
    ASSUME NEW t \in Tables, NEW a \in Records(t), NEW id \in RowIds[t],
           NEW row \in Values[t] \cup {NoRow}, NEW A \in SUBSET RowIds[t]
    PROVE  LET b == WithRow(a, id, row, A)
           IN  /\ b \in Records(t)
               /\ b.rows = [a.rows EXCEPT ![id] = row] /\ b.archive = A
               /\ b.sockets = a.sockets /\ b.view = a.view /\ b.crowded = a.crowded
               /\ SameOwn(t, a, b)
<1>1. CASE t = "jobs"
  BY <1>1 DEF Records, Rows, SameOwn, WithRow
<1>2. CASE t # "jobs"
  BY <1>2 DEF Records, Rows, SameOwn, WithRow
<1> QED BY <1>1, <1>2

LEMMA SeenTypes ==
    ASSUME NEW t \in Tables, NEW rows \in [RowIds[t] -> Values[t] \cup {NoRow, Dead}],
           NEW id, NEW row, NEW mini, row = NoRow \/ row \in Values[t] \cup {Dead}
    PROVE  Seen(rows, id, row, mini) \in [RowIds[t] -> Values[t] \cup {NoRow, Dead}]
BY DEF Seen

LEMMA EmitFacts ==
    ASSUME NEW t \in Tables, NEW a \in Records(t), NEW id, NEW row, NEW mini,
           row = NoRow \/ row \in Values[t] \cup {Dead}
    PROVE  LET b == Emit(a, id, row, mini)
           IN  /\ b \in Records(t)
               /\ b.rows = a.rows /\ b.archive = a.archive
               /\ b.sockets = WithoutGone(a.sockets)
               /\ \A p \in Pages : b.view[p] = IF p \in Range(a.sockets)
                                               THEN Seen(a.view[p], id, row, mini)
                                               ELSE a.view[p]
               /\ b.crowded = (a.crowded \/ \E i, j \in GoneAt(a.sockets) : i # j)
               /\ SameOwn(t, a, b)
<1> DEFINE view == [p \in Pages |-> IF p \in Range(a.sockets)
                                    THEN Seen(a.view[p], id, row, mini) ELSE a.view[p]]
           sockets == WithoutGone(a.sockets)
           crowded == a.crowded \/ \E i, j \in GoneAt(a.sockets) : i # j
           b == [a EXCEPT !.view = view, !.sockets = sockets, !.crowded = crowded]
<1>1. view \in Views(t)
  <2>1. \A p \in Pages : a.view[p] \in [RowIds[t] -> Values[t] \cup {NoRow, Dead}]
    BY FieldTypes DEF Views
  <2>2. \A p \in Pages : Seen(a.view[p], id, row, mini) \in [RowIds[t] -> Values[t] \cup {NoRow, Dead}]
    BY <2>1, SeenTypes
  <2> QED BY <2>1, <2>2 DEF Views
<1>2. sockets \in Seq(Pages \cup {Gone})
  BY FieldTypes, WithoutGoneFacts
<1>3. crowded \in BOOLEAN
  BY FieldTypes
<1>4. Emit(a, id, row, mini) = b
  BY Zenon DEF Emit
<1>5. \A p \in Pages : view[p] = IF p \in Range(a.sockets)
                                 THEN Seen(a.view[p], id, row, mini) ELSE a.view[p]
  OBVIOUS
<1> HIDE DEF view, sockets, crowded
<1>6. /\ b \in Records(t) /\ b.rows = a.rows /\ b.archive = a.archive
      /\ b.sockets = sockets /\ b.view = view /\ b.crowded = crowded /\ SameOwn(t, a, b)
  <2>1. CASE t = "jobs"
    BY <1>1, <1>2, <1>3, <2>1 DEF Records, SameOwn
  <2>2. CASE t # "jobs"
    BY <1>1, <1>2, <1>3, <2>2 DEF Records, SameOwn
  <2> QED BY <2>1, <2>2
<1> HIDE DEF b
<1> QED BY <1>4, <1>5, <1>6 DEF sockets, crowded

-----------------------------------------------------------------------------
(* What the pages show of a table *)

Shows(t, a, p, id) ==
    IF a.rows[id] = NoRow THEN a.view[p][id] \in {NoRow, Dead} \/ id \in lost[t][p]
    ELSE a.view[p][id] = a.rows[id]

\* Listed sockets are connected or gone; a listed page shows the table; what
\* any page shows as alive is so, or is in the archive it gets when it comes
\* back, or was cut from it; all connected pages are listed unless the list was
\* crowded.
Sound(t, a) ==
    /\ Range(a.sockets) \subseteq connected \cup {Gone}
    /\ \A p \in connected : p \in Range(a.sockets) =>
         \A id \in RowIds[t] : Shows(t, a, p, id)
    /\ \A p \in Pages, id \in RowIds[t] :
         a.rows[id] = NoRow /\ a.view[p][id] \notin {NoRow, Dead} => id \in a.archive \cup lost[t][p]
    /\ ~a.crowded => connected \subseteq Range(a.sockets)
    /\ \A p \in Pages : lost[t][p] \subseteq RowIds[t]

\* An update leaves in the list what was in it, and all connected pages unless
\* it finds the list crowded.
LEMMA EmitLists ==
    ASSUME NEW t \in Tables, NEW a \in Records(t), NEW id, NEW row, NEW mini,
           row = NoRow \/ row \in Values[t] \cup {Dead}, connected \subseteq Pages,
           Range(a.sockets) \subseteq connected \cup {Gone},
           ~a.crowded => connected \subseteq Range(a.sockets)
    PROVE  LET b == Emit(a, id, row, mini)
           IN  /\ Range(b.sockets) \subseteq Range(a.sockets)
               /\ ~b.crowded => connected \subseteq Range(b.sockets)
<1> DEFINE b == Emit(a, id, row, mini)
<1>1. /\ b.sockets = WithoutGone(a.sockets)
      /\ b.crowded = (a.crowded \/ \E i, j \in GoneAt(a.sockets) : i # j)
  BY EmitFacts
<1> HIDE DEF b
<1>2. a.sockets \in Seq(Pages \cup {Gone})
  BY FieldTypes
<1>3. /\ Range(b.sockets) \subseteq Range(a.sockets)
      /\ ~b.crowded => Range(a.sockets) \ {Gone} \subseteq Range(b.sockets)
  BY <1>1, <1>2, WithoutGoneFacts
<1>4. ~b.crowded => ~a.crowded
  BY <1>1
<1>5. Gone \notin connected
  BY RowsAssumption
<1>6. ~b.crowded => connected \subseteq Range(b.sockets)
  BY <1>3, <1>4, <1>5
<1> QED BY <1>3, <1>6 DEF b

\* An update of what the rows of the model do not hold changes no view.
LEMMA ReportKeeps ==
    ASSUME NEW t \in Tables, NEW a \in Records(t), Sound(t, a), connected \subseteq Pages, NEW id, NEW mini
    PROVE  LET b == Emit(a, id, NoRow, mini)
           IN  b \in Records(t) /\ Sound(t, b) /\ b.rows = a.rows /\ SameOwn(t, a, b)
<1> DEFINE b == Emit(a, id, NoRow, mini)
<1>0. /\ b \in Records(t) /\ b.rows = a.rows /\ b.archive = a.archive /\ SameOwn(t, a, b)
      /\ \A p \in Pages : b.view[p] = IF p \in Range(a.sockets)
                                      THEN Seen(a.view[p], id, NoRow, mini) ELSE a.view[p]
  BY EmitFacts
<1>1. /\ b \in Records(t) /\ b.rows = a.rows /\ b.archive = a.archive /\ SameOwn(t, a, b)
      /\ \A p \in Pages : b.view[p] = a.view[p]
  <2> HIDE DEF b
  <2> QED BY <1>0 DEF Seen
<1>2. /\ Range(b.sockets) \subseteq Range(a.sockets)
      /\ ~b.crowded => connected \subseteq Range(b.sockets)
  BY EmitLists DEF Sound
<1> HIDE DEF b
<1>3. Sound(t, b)
  BY <1>1, <1>2 DEF Sound, Shows
<1> QED BY <1>1, <1>3 DEF b

\* A row that was set and is sent: every listed page then shows the table.
LEMMA RowSent ==
    ASSUME NEW t \in Tables, NEW a \in Records(t), Sound(t, a), connected \subseteq Pages,
           NEW id \in RowIds[t], NEW row \in Values[t], NEW mini,
           mini => a.rows[id] # NoRow,
           NEW A \in SUBSET RowIds[t], a.archive \ {id} \subseteq A
    PROVE  LET b == Emit(WithRow(a, id, row, A), id, row, mini)
           IN  /\ b \in Records(t) /\ Sound(t, b)
               /\ b.rows = [a.rows EXCEPT ![id] = row] /\ SameOwn(t, a, b)
<1> DEFINE s == WithRow(a, id, row, A)
           b == Emit(s, id, row, mini)
<1>0. row # NoRow /\ row # Dead /\ a.rows \in Rows(t)
  BY TablesAre, FieldTypes
<1>1. /\ s \in Records(t) /\ s.rows = [a.rows EXCEPT ![id] = row] /\ s.archive = A
      /\ s.sockets = a.sockets /\ s.view = a.view /\ s.crowded = a.crowded /\ SameOwn(t, a, s)
  <2>1. row \in Values[t] \cup {NoRow}
    OBVIOUS
  <2> QED BY <2>1, RowSet
<1> HIDE DEF s
<1>2. /\ b \in Records(t) /\ b.rows = s.rows /\ b.archive = s.archive /\ SameOwn(t, s, b)
      /\ \A p \in Pages : b.view[p] = IF p \in Range(s.sockets)
                                      THEN Seen(s.view[p], id, row, mini) ELSE s.view[p]
  BY <1>1, EmitFacts
<1>3. /\ Range(b.sockets) \subseteq Range(a.sockets)
      /\ ~b.crowded => connected \subseteq Range(b.sockets)
  BY <1>1, EmitLists DEF Sound
<1> HIDE DEF b
<1>4. \A x \in RowIds[t] : b.rows[x] = IF x = id THEN row ELSE a.rows[x]
  BY <1>0, <1>1, <1>2 DEF Rows
<1>5. \A p \in Pages : a.view[p] \in [RowIds[t] -> Values[t] \cup {NoRow, Dead}]
  BY FieldTypes DEF Views
<1>6. ASSUME NEW p \in Pages, NEW x \in RowIds[t], x # id PROVE b.view[p][x] = a.view[p][x]
  <2>1. b.view[p] = IF p \in Range(a.sockets) THEN Seen(a.view[p], id, row, mini) ELSE a.view[p]
    BY <1>1, <1>2
  <2>2. Seen(a.view[p], id, row, mini)[x] = a.view[p][x]
    BY <1>5, <1>6 DEF Seen
  <2> QED BY <2>1, <2>2
<1>7. ASSUME NEW p \in connected, p \in Range(b.sockets) PROVE b.view[p][id] = row
  <2>1. p \in Pages /\ p \in Range(a.sockets)
    BY <1>3, <1>7
  <2>2. b.view[p] = Seen(a.view[p], id, row, mini)
    BY <1>1, <1>2, <2>1
  <2>3. mini => a.view[p][id] = a.rows[id] /\ a.rows[id] \in Values[t]
    BY <1>0, <2>1 DEF Sound, Shows, Rows
  <2>4. mini => a.view[p][id] \notin {NoRow, Dead}
    BY <2>3, TablesAre
  <2> QED BY <1>0, <1>5, <2>1, <2>2, <2>4 DEF Seen
<1>8. ASSUME NEW p \in connected, p \in Range(b.sockets), NEW x \in RowIds[t]
      PROVE  Shows(t, b, p, x)
  <2>1. CASE x = id
    BY <1>0, <1>4, <1>7, <1>8, <2>1 DEF Shows
  <2>2. CASE x # id
    BY <1>3, <1>4, <1>6, <1>8, <2>2 DEF Shows, Sound
  <2> QED BY <2>1, <2>2
<1>9. ASSUME NEW p \in Pages, NEW x \in RowIds[t],
             b.rows[x] = NoRow, b.view[p][x] \notin {NoRow, Dead}
      PROVE  x \in b.archive \cup lost[t][p]
  <2>1. x # id /\ a.rows[x] = NoRow
    BY <1>0, <1>4, <1>9
  <2>2. x \in a.archive \cup lost[t][p]
    BY <1>6, <1>9, <2>1 DEF Sound
  <2> QED BY <1>1, <1>2, <2>1, <2>2
<1>10. Sound(t, b)
  BY <1>3, <1>8, <1>9 DEF Sound
<1>11. SameOwn(t, a, b)
  BY <1>1, <1>2 DEF SameOwn
<1> QED BY <1>1, <1>2, <1>10, <1>11 DEF b, s

-----------------------------------------------------------------------------
(* What the listeners do to a table *)

\* A table that is well formed and soundly shown.
Good(t, a) == a \in Records(t) /\ Sound(t, a)

LEMMA AddRowKeeps ==
    ASSUME NEW t \in Tables, NEW a, Good(t, a), connected \subseteq Pages,
           NEW id \in RowIds[t], NEW row \in Values[t]
    PROVE  LET b == AddRow(a, id, row)
           IN  Good(t, b) /\ b.rows = [a.rows EXCEPT ![id] = row] /\ SameOwn(t, a, b)
<1>1. a \in Records(t) /\ Sound(t, a)
  BY DEF Good
<1>2. a.archive \ {id} \in SUBSET RowIds[t]
  BY <1>1, FieldTypes
<1>3. AddRow(a, id, row) = Emit(WithRow(a, id, row, a.archive \ {id}), id, row, FALSE)
  <2>1. [a EXCEPT !.rows[id] = row, !.archive = @ \ {id}] = WithRow(a, id, row, a.archive \ {id})
    <3>1. CASE t = "jobs"
      BY <1>1, <3>1 DEF WithRow, Records
    <3>2. CASE t # "jobs"
      BY <1>1, <3>2 DEF WithRow, Records
    <3> QED BY <3>1, <3>2
  <2> QED BY <2>1, Zenon DEF AddRow
<1>4. PICK mini \in BOOLEAN : mini = FALSE
  OBVIOUS
<1>5. AddRow(a, id, row) = Emit(WithRow(a, id, row, a.archive \ {id}), id, row, mini)
  BY <1>3, <1>4, Zenon
<1> QED BY <1>1, <1>2, <1>4, <1>5, RowSent DEF Good

LEMMA SetRowKeeps ==
    ASSUME NEW t \in Tables, NEW a, Good(t, a), connected \subseteq Pages,
           NEW id \in RowIds[t], NEW row, a.rows[id] # NoRow => row \in Values[t]
    PROVE  LET b == SetRow(a, id, row)
           IN  /\ Good(t, b) /\ SameOwn(t, a, b)
               /\ b.rows = [x \in RowIds[t] |-> IF x = id /\ a.rows[x] # NoRow
                                                THEN row ELSE a.rows[x]]
<1>1. a \in Records(t) /\ Sound(t, a) /\ a.rows \in Rows(t)
  BY FieldTypes DEF Good
<1>2. CASE a.rows[id] = NoRow
  <2>1. SetRow(a, id, row) = a
    BY <1>2 DEF SetRow
  <2>2. a.rows = [x \in RowIds[t] |-> IF x = id /\ a.rows[x] # NoRow THEN row ELSE a.rows[x]]
    BY <1>1, <1>2 DEF Rows
  <2> QED BY <2>1, <2>2 DEF SameOwn
<1>3. CASE a.rows[id] # NoRow
  <2>1. a.archive \in SUBSET RowIds[t]
    BY <1>1, FieldTypes
  <2>2. SetRow(a, id, row) = Emit(WithRow(a, id, row, a.archive), id, row, TRUE)
    <3>1. [a EXCEPT !.rows[id] = row] = WithRow(a, id, row, a.archive)
      <4>1. CASE t = "jobs"
        BY <1>1, <4>1 DEF WithRow, Records
      <4>2. CASE t # "jobs"
        BY <1>1, <4>2 DEF WithRow, Records
      <4> QED BY <4>1, <4>2
    <3> QED BY <1>3, <3>1, Zenon DEF SetRow
  <2>3. PICK mini \in BOOLEAN : mini = TRUE
    OBVIOUS
  <2>4. SetRow(a, id, row) = Emit(WithRow(a, id, row, a.archive), id, row, mini)
    BY <2>2, <2>3, Zenon
  <2>5. LET b == SetRow(a, id, row)
        IN  Good(t, b) /\ b.rows = [a.rows EXCEPT ![id] = row] /\ SameOwn(t, a, b)
    <3>1. row \in Values[t] /\ a.archive \ {id} \subseteq a.archive
      BY <1>3
    <3> QED BY <1>1, <1>3, <2>1, <2>4, <3>1, RowSent DEF Good
  <2>6. [a.rows EXCEPT ![id] = row]
          = [x \in RowIds[t] |-> IF x = id /\ a.rows[x] # NoRow THEN row ELSE a.rows[x]]
    BY <1>1, <1>3 DEF Rows
  <2> QED BY <2>5, <2>6
<1> QED BY <1>2, <1>3

LEMMA ReportsKeep ==
    ASSUME NEW t \in Tables, NEW a, Good(t, a), connected \subseteq Pages, NEW id
    PROVE  LET b == Report(a, id)
           IN  Good(t, b) /\ b.rows = a.rows /\ SameOwn(t, a, b)
<1>1. a \in Records(t) /\ Sound(t, a)
  BY DEF Good
<1>2. PICK mini \in BOOLEAN : mini = TRUE
  OBVIOUS
<1>3. Report(a, id) = a \/ Report(a, id) = Emit(a, id, NoRow, mini)
  BY <1>2, Zenon DEF Report
<1>4. CASE Report(a, id) = a
  BY <1>4 DEF SameOwn
<1>5. CASE Report(a, id) = Emit(a, id, NoRow, mini)
  BY <1>1, <1>5, ReportKeeps DEF Good
<1> QED BY <1>3, <1>4, <1>5

LEMMA EndRowKeeps ==
    ASSUME NEW t \in Tables, NEW a, Good(t, a), connected \subseteq Pages, NEW id \in RowIds[t]
    PROVE  LET b == EndRow(a, id)
           IN  Good(t, b) /\ b.rows = [a.rows EXCEPT ![id] = NoRow] /\ SameOwn(t, a, b)
<1>1. a \in Records(t) /\ Sound(t, a) /\ a.rows \in Rows(t)
  BY FieldTypes DEF Good
<1>2. CASE a.rows[id] = NoRow
  <2>1. EndRow(a, id) = a
    BY <1>2 DEF EndRow
  <2>2. a.rows = [a.rows EXCEPT ![id] = NoRow]
    BY <1>1, <1>2 DEF Rows
  <2> QED BY <2>1, <2>2 DEF SameOwn
<1>3. CASE a.rows[id] # NoRow
  <2>1. PICK mini \in BOOLEAN : mini = FALSE
    OBVIOUS
  <2> DEFINE s == Emit(a, id, Dead, mini)
             A == a.archive \cup {id}
             b == WithRow(s, id, NoRow, A)
  <2>2. /\ s \in Records(t) /\ s.rows = a.rows /\ s.archive = a.archive /\ SameOwn(t, a, s)
        /\ \A p \in Pages : s.view[p] = IF p \in Range(a.sockets)
                                        THEN Seen(a.view[p], id, Dead, mini) ELSE a.view[p]
    BY <1>1, EmitFacts
  <2>3. /\ Range(s.sockets) \subseteq Range(a.sockets)
        /\ ~s.crowded => connected \subseteq Range(s.sockets)
    BY <1>1, EmitLists DEF Sound
  <2>4. EndRow(a, id) = b
    <3>1. EndRow(a, id) = [s EXCEPT !.rows[id] = NoRow, !.archive = @ \cup {id}]
      BY <1>3, <2>1, Zenon DEF EndRow
    <3> HIDE DEF s
    <3>2. [s EXCEPT !.rows[id] = NoRow, !.archive = @ \cup {id}] = b
      <4>1. CASE t = "jobs"
        BY <2>2, <4>1 DEF WithRow, Records
      <4>2. CASE t # "jobs"
        BY <2>2, <4>2 DEF WithRow, Records
      <4> QED BY <4>1, <4>2
    <3> QED BY <3>1, <3>2
  <2> HIDE DEF s
  <2>5. A \in SUBSET RowIds[t]
    BY <1>1, FieldTypes
  <2> HIDE DEF A
  <2>6. /\ b \in Records(t) /\ b.rows = [a.rows EXCEPT ![id] = NoRow] /\ b.archive = A
        /\ b.sockets = s.sockets /\ b.view = s.view /\ b.crowded = s.crowded /\ SameOwn(t, s, b)
    <3>1. NoRow \in Values[t] \cup {NoRow}
      OBVIOUS
    <3> QED BY <2>2, <2>5, <3>1, RowSet
  <2> HIDE DEF b
  <2>7. \A x \in RowIds[t] : b.rows[x] = IF x = id THEN NoRow ELSE a.rows[x]
    BY <1>1, <2>6 DEF Rows
  <2>8. \A p \in Pages : a.view[p] \in [RowIds[t] -> Values[t] \cup {NoRow, Dead}]
    BY <1>1, FieldTypes DEF Views
  <2>9. NoRow # Dead
    BY RowsAssumption
  <2>10. ASSUME NEW p \in Pages, NEW x \in RowIds[t], x # id PROVE b.view[p][x] = a.view[p][x]
    <3>1. b.view[p] = IF p \in Range(a.sockets) THEN Seen(a.view[p], id, Dead, mini) ELSE a.view[p]
      BY <2>2, <2>6
    <3>2. Seen(a.view[p], id, Dead, mini)[x] = a.view[p][x]
      BY <2>8, <2>10 DEF Seen
    <3> QED BY <3>1, <3>2
  <2>11. ASSUME NEW p \in connected, p \in Range(b.sockets) PROVE b.view[p][id] = Dead
    <3>1. p \in Pages /\ p \in Range(a.sockets)
      BY <2>3, <2>6, <2>11
    <3>2. b.view[p] = Seen(a.view[p], id, Dead, mini)
      BY <2>2, <2>6, <3>1
    <3> QED BY <2>1, <2>8, <2>9, <3>1, <3>2 DEF Seen
  <2>12. ASSUME NEW p \in connected, p \in Range(b.sockets), NEW x \in RowIds[t]
         PROVE  Shows(t, b, p, x)
    <3>1. CASE x = id
      BY <2>7, <2>11, <2>12, <3>1 DEF Shows
    <3>2. CASE x # id
      <4>1. Shows(t, a, p, x)
        BY <1>1, <2>3, <2>6, <2>12 DEF Sound
      <4>2. b.view[p][x] = a.view[p][x] /\ b.rows[x] = a.rows[x]
        BY <2>7, <2>10, <3>2
      <4> QED BY <4>1, <4>2 DEF Shows
    <3> QED BY <3>1, <3>2
  <2>13. ASSUME NEW p \in Pages, NEW x \in RowIds[t],
                b.rows[x] = NoRow, b.view[p][x] \notin {NoRow, Dead}
         PROVE  x \in b.archive \cup lost[t][p]
    <3>1. CASE x = id
      BY <2>6, <3>1 DEF A
    <3>2. CASE x # id
      BY <1>1, <2>6, <2>7, <2>10, <2>13, <3>2 DEF Sound, A
    <3> QED BY <3>1, <3>2
  <2>14. Sound(t, b)
    <3>1. Range(b.sockets) \subseteq connected \cup {Gone}
      BY <1>1, <2>3, <2>6 DEF Sound
    <3>2. \A p \in Pages : lost[t][p] \subseteq RowIds[t]
      BY <1>1 DEF Sound
    <3> QED BY <2>3, <2>6, <2>12, <2>13, <3>1, <3>2 DEF Sound
  <2>15. SameOwn(t, a, b)
    BY <2>2, <2>6 DEF SameOwn
  <2> QED BY <2>4, <2>6, <2>14, <2>15 DEF Good
<1> QED BY <1>2, <1>3

\* An event as the handlers emit it.
Fits(e) ==
    /\ e.name \in {"connect", "disconnect", "add", "del", "job", "share"} => e.pool \in Clients
    /\ e.name \in {"workerConnect", "workerDisconnect", "add", "del", "share"} => e.worker \in Workers
    /\ e.name = "job" => e.job \in JobIds

\* A row that is there changes; a job that is there is over.
Counted(rows, c, by) ==
    [d \in Clients |-> IF d = c /\ rows[d] # NoRow THEN rows[d] + by ELSE rows[d]]
Moved(rows, w, row) == [x \in Workers |-> IF x = w /\ rows[x] # NoRow THEN row ELSE rows[x]]
Without(rows, j) == [i \in JobIds |-> IF i = j THEN NoRow ELSE rows[i]]

LEMMA PoolsHear ==
    ASSUME NEW a, Good("pools", a), connected \subseteq Pages, NEW e, Fits(e)
    PROVE  LET b == Hear("pools", a, e)
           IN  /\ Good("pools", b)
               /\ e.name = "connect" => b.rows = [a.rows EXCEPT ![e.pool] = 0]
               /\ e.name = "disconnect" => b.rows = [a.rows EXCEPT ![e.pool] = NoRow]
               /\ e.name = "add" => b.rows = Counted(a.rows, e.pool, 1)
               /\ e.name = "del" => b.rows = Counted(a.rows, e.pool, -1)
               /\ e.name \notin {"connect", "disconnect", "add", "del"} => b.rows = a.rows
<1> DEFINE b == Hear("pools", a, e)
<1>0. /\ "pools" \in Tables /\ RowIds["pools"] = Clients /\ Values["pools"] = Int
      /\ a.rows \in [Clients -> Int \cup {NoRow}]
  BY TablesAre, FieldTypes DEF Good, Rows
<1>1. b = PoolsHears(a, e)
  BY DEF Hear
<1> HIDE DEF b
<1>2. CASE e.name = "connect"
  <2>1. b = AddRow(a, e.pool, 0) /\ e.pool \in Clients /\ 0 \in Int
    BY <1>1, <1>2 DEF PoolsHears, Fits
  <2>2. Good("pools", b) /\ b.rows = [a.rows EXCEPT ![e.pool] = 0]
    BY <1>0, <2>1, AddRowKeeps
  <2> QED BY <1>2, <2>2 DEF b
<1>3. CASE e.name = "disconnect"
  <2>1. b = EndRow(a, e.pool) /\ e.pool \in Clients
    BY <1>1, <1>3 DEF PoolsHears, Fits
  <2>2. Good("pools", b) /\ b.rows = [a.rows EXCEPT ![e.pool] = NoRow]
    BY <1>0, <2>1, EndRowKeeps
  <2> QED BY <1>3, <2>2 DEF b
<1>4. CASE e.name = "add"
  <2>1. b = SetRow(a, e.pool, a.rows[e.pool] + 1) /\ e.pool \in Clients
    BY <1>1, <1>4 DEF PoolsHears, Fits
  <2>2. a.rows[e.pool] # NoRow => a.rows[e.pool] + 1 \in Int
    BY <1>0, <2>1
  <2>3. /\ Good("pools", b)
        /\ b.rows = [c \in Clients |-> IF c = e.pool /\ a.rows[c] # NoRow
                                       THEN a.rows[e.pool] + 1 ELSE a.rows[c]]
    BY <1>0, <2>1, <2>2, SetRowKeeps
  <2>4. b.rows = Counted(a.rows, e.pool, 1)
    BY <2>3 DEF Counted
  <2> QED BY <1>4, <2>3, <2>4 DEF b
<1>5. CASE e.name = "del"
  <2>1. b = SetRow(a, e.pool, a.rows[e.pool] - 1) /\ e.pool \in Clients
    BY <1>1, <1>5 DEF PoolsHears, Fits
  <2>2. a.rows[e.pool] # NoRow => a.rows[e.pool] - 1 \in Int
    BY <1>0, <2>1
  <2>3. /\ Good("pools", b)
        /\ b.rows = [c \in Clients |-> IF c = e.pool /\ a.rows[c] # NoRow
                                       THEN a.rows[e.pool] - 1 ELSE a.rows[c]]
    BY <1>0, <2>1, <2>2, SetRowKeeps
  <2>4. b.rows = Counted(a.rows, e.pool, -1)
    <3>1. \A c \in Clients : a.rows[c] # NoRow => a.rows[c] - 1 = a.rows[c] + (-1)
      BY <1>0
    <3> QED BY <2>3, <3>1 DEF Counted
  <2> QED BY <1>5, <2>3, <2>4 DEF b
<1>6. CASE e.name \in {"job", "share"}
  <2>1. b = Report(a, e.pool)
    BY <1>1, <1>6 DEF PoolsHears
  <2>2. Good("pools", b) /\ b.rows = a.rows
    BY <1>0, <2>1, ReportsKeep
  <2> QED BY <1>6, <2>2 DEF b
<1>7. CASE e.name \notin {"connect", "disconnect", "add", "del", "job", "share"}
  <2>1. b = a
    BY <1>1, <1>7 DEF PoolsHears
  <2> QED BY <1>7, <2>1 DEF b
<1> QED BY <1>2, <1>3, <1>4, <1>5, <1>6, <1>7

LEMMA WorkersHear ==
    ASSUME NEW a, Good("workers", a), connected \subseteq Pages, NEW e, Fits(e)
    PROVE  LET b == Hear("workers", a, e)
           IN  /\ Good("workers", b)
               /\ e.name = "workerConnect" => b.rows = [a.rows EXCEPT ![e.worker] = NoPool]
               /\ e.name = "workerDisconnect" => b.rows = [a.rows EXCEPT ![e.worker] = NoRow]
               /\ e.name = "add" => b.rows = Moved(a.rows, e.worker, e.pool)
               /\ e.name = "del" => b.rows = Moved(a.rows, e.worker, NoPool)
               /\ e.name \notin {"workerConnect", "workerDisconnect", "add", "del"} =>
                    b.rows = a.rows
<1> DEFINE b == Hear("workers", a, e)
<1>0. /\ "workers" \in Tables /\ RowIds["workers"] = Workers
      /\ Values["workers"] = Clients \cup {NoPool}
  BY TablesAre
<1>1. b = WorkersHears(a, e)
  BY DEF Hear
<1> HIDE DEF b
<1>2. CASE e.name = "workerConnect"
  <2>1. b = AddRow(a, e.worker, NoPool) /\ e.worker \in Workers /\ NoPool \in Values["workers"]
    BY <1>0, <1>1, <1>2 DEF WorkersHears, Fits
  <2>2. Good("workers", b) /\ b.rows = [a.rows EXCEPT ![e.worker] = NoPool]
    BY <1>0, <2>1, AddRowKeeps
  <2> QED BY <1>2, <2>2 DEF b
<1>3. CASE e.name = "workerDisconnect"
  <2>1. b = EndRow(a, e.worker) /\ e.worker \in Workers
    BY <1>1, <1>3 DEF WorkersHears, Fits
  <2>2. Good("workers", b) /\ b.rows = [a.rows EXCEPT ![e.worker] = NoRow]
    BY <1>0, <2>1, EndRowKeeps
  <2> QED BY <1>3, <2>2 DEF b
<1>4. CASE e.name = "add"
  <2>1. b = SetRow(a, e.worker, e.pool) /\ e.worker \in Workers /\ e.pool \in Values["workers"]
    BY <1>0, <1>1, <1>4 DEF WorkersHears, Fits
  <2>2. Good("workers", b) /\ b.rows = Moved(a.rows, e.worker, e.pool)
    BY <1>0, <2>1, SetRowKeeps DEF Moved
  <2> QED BY <1>4, <2>2 DEF b
<1>5. CASE e.name = "del"
  <2>1. b = SetRow(a, e.worker, NoPool) /\ e.worker \in Workers /\ NoPool \in Values["workers"]
    BY <1>0, <1>1, <1>5 DEF WorkersHears, Fits
  <2>2. Good("workers", b) /\ b.rows = Moved(a.rows, e.worker, NoPool)
    BY <1>0, <2>1, SetRowKeeps DEF Moved
  <2> QED BY <1>5, <2>2 DEF b
<1>6. CASE e.name = "share"
  <2>1. b = Report(a, e.worker)
    BY <1>1, <1>6 DEF WorkersHears
  <2>2. Good("workers", b) /\ b.rows = a.rows
    BY <1>0, <2>1, ReportsKeep
  <2> QED BY <1>6, <2>2 DEF b
<1>7. CASE e.name \notin {"workerConnect", "workerDisconnect", "add", "del", "share"}
  <2>1. b = a
    BY <1>1, <1>7 DEF WorkersHears
  <2> QED BY <1>7, <2>1 DEF b
<1> QED BY <1>2, <1>3, <1>4, <1>5, <1>6, <1>7

\* The columns of Jobs alone do not show in a page.
WithOwn(a, pJobs, count) == [a EXCEPT !.poolsJobs = pJobs, !.poolsWorkerCount = count]

LEMMA OwnSet ==
    ASSUME NEW a, Good("jobs", a),
           NEW pJobs \in [Clients -> JobIds \cup {NoJob}], NEW count \in [Clients -> Nat]
    PROVE  LET b == WithOwn(a, pJobs, count)
           IN  /\ Good("jobs", b) /\ b.rows = a.rows
               /\ b.poolsJobs = pJobs /\ b.poolsWorkerCount = count
<1> DEFINE b == WithOwn(a, pJobs, count)
<1>1. /\ b \in Records("jobs") /\ b.rows = a.rows /\ b.archive = a.archive
      /\ b.sockets = a.sockets /\ b.view = a.view /\ b.crowded = a.crowded
      /\ b.poolsJobs = pJobs /\ b.poolsWorkerCount = count
  BY DEF Good, Records, WithOwn
<1> HIDE DEF b
<1>2. Sound("jobs", b)
  BY <1>1 DEF Good, Sound, Shows
<1> QED BY <1>1, <1>2 DEF Good, b

LEMMA EndJobKeeps ==
    ASSUME NEW a, Good("jobs", a), connected \subseteq Pages, NEW c \in Clients
    PROVE  LET b == EndJob(a, c)
           IN  /\ Good("jobs", b) /\ SameOwn("jobs", a, b)
               /\ b.rows = Without(a.rows, a.poolsJobs[c])
<1>1. /\ "jobs" \in Tables /\ RowIds["jobs"] = JobIds
      /\ a.rows \in [JobIds -> Nat \cup {NoRow}]
      /\ a.poolsJobs \in [Clients -> JobIds \cup {NoJob}]
  BY TablesAre, FieldTypes DEF Good, Rows
<1>2. CASE a.poolsJobs[c] = NoJob
  <2>1. EndJob(a, c) = a
    BY <1>2 DEF EndJob
  <2>2. a.rows = Without(a.rows, a.poolsJobs[c])
    BY <1>1, <1>2, RowsAssumption DEF Without
  <2> QED BY <2>1, <2>2 DEF SameOwn
<1>3. CASE a.poolsJobs[c] # NoJob
  <2>1. EndJob(a, c) = EndRow(a, a.poolsJobs[c]) /\ a.poolsJobs[c] \in JobIds
    BY <1>1, <1>3 DEF EndJob
  <2>2. LET b == EndJob(a, c)
        IN  /\ Good("jobs", b) /\ SameOwn("jobs", a, b)
            /\ b.rows = [a.rows EXCEPT ![a.poolsJobs[c]] = NoRow]
    BY <1>1, <2>1, EndRowKeeps
  <2>3. [a.rows EXCEPT ![a.poolsJobs[c]] = NoRow] = Without(a.rows, a.poolsJobs[c])
    BY <1>1, <2>1 DEF Without
  <2> QED BY <2>2, <2>3
<1> QED BY <1>2, <1>3

\* What a table of jobs a becomes, b, on event e.
RowsFollow(a, e, b) ==
    /\ e.name = "job" =>
         /\ b.rows = [Without(a.rows, a.poolsJobs[e.pool]) EXCEPT ![e.job] = a.poolsWorkerCount[e.pool]]
         /\ b.poolsJobs = [a.poolsJobs EXCEPT ![e.pool] = e.job]
    /\ e.name = "disconnect" =>
         /\ b.rows = Without(a.rows, a.poolsJobs[e.pool])
         /\ b.poolsJobs = [a.poolsJobs EXCEPT ![e.pool] = NoJob]
    /\ e.name \notin {"job", "disconnect"} => b.rows = a.rows /\ b.poolsJobs = a.poolsJobs
CountsFollow(a, e, b) ==
    /\ e.name = "add" => b.poolsWorkerCount = [a.poolsWorkerCount EXCEPT ![e.pool] = @ + 1]
    /\ e.name = "del" =>
         b.poolsWorkerCount = [a.poolsWorkerCount EXCEPT ![e.pool] = IF @ = 0 THEN 0 ELSE @ - 1]
    /\ e.name \notin {"add", "del"} => b.poolsWorkerCount = a.poolsWorkerCount

LEMMA JobsHear ==
    ASSUME NEW a, Good("jobs", a), connected \subseteq Pages, NEW e, Fits(e)
    PROVE  LET b == Hear("jobs", a, e)
           IN  Good("jobs", b) /\ RowsFollow(a, e, b) /\ CountsFollow(a, e, b)
<1> USE DEF RowsFollow, CountsFollow
<1> DEFINE b == Hear("jobs", a, e)
<1>0. /\ "jobs" \in Tables /\ RowIds["jobs"] = JobIds /\ Values["jobs"] = Nat
      /\ a \in Records("jobs")
      /\ a.poolsJobs \in [Clients -> JobIds \cup {NoJob}]
      /\ a.poolsWorkerCount \in [Clients -> Nat]
  BY TablesAre, FieldTypes DEF Good
<1>1. b = JobsHears(a, e)
  BY DEF Hear
<1> HIDE DEF b
<1>2. CASE e.name = "job"
  <2> DEFINE n == a.poolsWorkerCount[e.pool]
             s == EndJob(a, e.pool)
             u == [s EXCEPT !.poolsJobs[e.pool] = e.job]
             v == WithOwn(s, [s.poolsJobs EXCEPT ![e.pool] = e.job], s.poolsWorkerCount)
  <2>1. b = AddRow(u, e.job, n) /\ e.pool \in Clients /\ e.job \in JobIds
    BY <1>1, <1>2 DEF JobsHears, Fits
  <2>2. /\ Good("jobs", s) /\ s.rows = Without(a.rows, a.poolsJobs[e.pool])
        /\ s.poolsJobs = a.poolsJobs /\ s.poolsWorkerCount = a.poolsWorkerCount
    BY <2>1, EndJobKeeps DEF SameOwn
  <2> HIDE DEF s
  <2>3. u = v
    BY <2>2 DEF Good, Records, WithOwn
  <2>4. /\ [s.poolsJobs EXCEPT ![e.pool] = e.job] \in [Clients -> JobIds \cup {NoJob}]
        /\ s.poolsWorkerCount \in [Clients -> Nat]
    BY <1>0, <2>1, <2>2
  <2>5. /\ Good("jobs", v) /\ v.rows = s.rows /\ v.poolsWorkerCount = s.poolsWorkerCount
        /\ v.poolsJobs = [s.poolsJobs EXCEPT ![e.pool] = e.job]
    BY <2>2, <2>4, OwnSet
  <2>6. n \in Values["jobs"]
    BY <1>0, <2>1
  <2> HIDE DEF n, u, v
  <2>7. Good("jobs", b) /\ b.rows = [v.rows EXCEPT ![e.job] = n] /\ SameOwn("jobs", v, b)
    BY <1>0, <2>1, <2>3, <2>5, <2>6, AddRowKeeps
  <2> QED BY <1>2, <2>2, <2>5, <2>7 DEF b, n, SameOwn
<1>3. CASE e.name = "disconnect"
  <2> DEFINE s == EndJob(a, e.pool)
             v == WithOwn(s, [s.poolsJobs EXCEPT ![e.pool] = NoJob], s.poolsWorkerCount)
  <2>1. b = [s EXCEPT !.poolsJobs[e.pool] = NoJob] /\ e.pool \in Clients
    BY <1>1, <1>3 DEF JobsHears, Fits
  <2>2. /\ Good("jobs", s) /\ s.rows = Without(a.rows, a.poolsJobs[e.pool])
        /\ s.poolsJobs = a.poolsJobs /\ s.poolsWorkerCount = a.poolsWorkerCount
    BY <2>1, EndJobKeeps DEF SameOwn
  <2> HIDE DEF s
  <2>3. b = v
    BY <2>1, <2>2 DEF Good, Records, WithOwn
  <2>4. /\ [s.poolsJobs EXCEPT ![e.pool] = NoJob] \in [Clients -> JobIds \cup {NoJob}]
        /\ s.poolsWorkerCount \in [Clients -> Nat]
    BY <1>0, <2>1, <2>2
  <2>5. /\ Good("jobs", v) /\ v.rows = s.rows /\ v.poolsWorkerCount = s.poolsWorkerCount
        /\ v.poolsJobs = [s.poolsJobs EXCEPT ![e.pool] = NoJob]
    BY <2>2, <2>4, OwnSet
  <2> HIDE DEF v
  <2> QED BY <1>3, <2>2, <2>3, <2>5 DEF b
<1>4. ASSUME NEW n \in Nat, e.pool \in Clients,
             b = [a EXCEPT !.poolsWorkerCount[e.pool] = n]
      PROVE  /\ Good("jobs", b) /\ b.rows = a.rows /\ b.poolsJobs = a.poolsJobs
             /\ b.poolsWorkerCount = [a.poolsWorkerCount EXCEPT ![e.pool] = n]
  <2> DEFINE count == [a.poolsWorkerCount EXCEPT ![e.pool] = n]
  <2>1. b = WithOwn(a, a.poolsJobs, count)
    BY <1>0, <1>4 DEF Records, WithOwn
  <2>2. count \in [Clients -> Nat]
    BY <1>0
  <2> HIDE DEF count
  <2>3. /\ Good("jobs", b) /\ b.rows = a.rows
        /\ b.poolsJobs = a.poolsJobs /\ b.poolsWorkerCount = count
    BY <1>0, <2>1, <2>2, OwnSet
  <2> QED BY <2>3 DEF count
<1>5. CASE e.name = "add"
  <2>1. /\ b = [a EXCEPT !.poolsWorkerCount[e.pool] = a.poolsWorkerCount[e.pool] + 1]
        /\ e.pool \in Clients
    BY <1>1, <1>5 DEF JobsHears, Fits
  <2>2. a.poolsWorkerCount[e.pool] + 1 \in Nat
    BY <1>0, <2>1
  <2> QED BY <1>4, <1>5, <2>1, <2>2 DEF b
<1>6. CASE e.name = "del"
  <2> DEFINE n == IF a.poolsWorkerCount[e.pool] = 0 THEN 0 ELSE a.poolsWorkerCount[e.pool] - 1
  <2>1. b = [a EXCEPT !.poolsWorkerCount[e.pool] = n] /\ e.pool \in Clients
    BY <1>1, <1>6 DEF JobsHears, Fits
  <2>2. n \in Nat
    BY <1>0, <2>1
  <2> QED BY <1>4, <1>6, <2>1, <2>2 DEF b
<1>7. CASE e.name = "share"
  <2>1. b = Report(a, e.job)
    BY <1>1, <1>7 DEF JobsHears
  <2>2. Good("jobs", b) /\ b.rows = a.rows /\ SameOwn("jobs", a, b)
    BY <1>0, <2>1, ReportsKeep
  <2> QED BY <1>7, <2>2 DEF b, SameOwn
<1>8. CASE e.name \notin {"job", "disconnect", "add", "del", "share"}
  <2>1. b = a
    BY <1>1, <1>8 DEF JobsHears
  <2> QED BY <1>8, <2>1 DEF b
<1> QED BY <1>2, <1>3, <1>5, <1>6, <1>7, <1>8

-----------------------------------------------------------------------------
(* The tables after the events of a handler *)

AllGood == connected \subseteq Pages /\ \A t \in Tables : Good(t, stat[t])

LEMMA HeardGood ==
    ASSUME AllGood, NEW t \in Tables, NEW events, Len(events) \in Nat,
           \A i \in 1..Len(events) : Fits(events[i]),
           NEW at, stat[t] \in at[0],
           \A i \in 1..Len(events) : \A a \in at[i - 1] :
             Good(t, a) => Hear(t, a, events[i]) \in at[i]
    PROVE  Good(t, Heard(t, events)) /\ Heard(t, events) \in at[Len(events)]
<1> DEFINE n == Len(events)
           good == [i \in 0..n |-> {a \in at[i] : Good(t, a)}]
<1>1. connected \subseteq Pages /\ Good(t, stat[t])
  BY DEF AllGood
<1>2. ASSUME NEW a, Good(t, a), NEW e, Fits(e) PROVE Good(t, Hear(t, a, e))
  <2>1. CASE t = "pools"
    BY <1>1, <1>2, <2>1, PoolsHear
  <2>2. CASE t = "workers"
    BY <1>1, <1>2, <2>2, WorkersHear
  <2>3. CASE t = "jobs"
    BY <1>1, <1>2, <2>3, JobsHear
  <2> QED BY <2>1, <2>2, <2>3, TablesAre
<1>3. stat[t] \in good[0]
  BY <1>1
<1>4. ASSUME NEW i \in 1..n, NEW a \in good[i - 1] PROVE Hear(t, a, events[i]) \in good[i]
  <2>1. i - 1 \in 0..n /\ i \in 0..n
    OBVIOUS
  <2>2. a \in at[i - 1] /\ Good(t, a)
    BY <1>4, <2>1
  <2> QED BY <1>2, <2>1, <2>2
<1> HIDE DEF good
<1>5. Heard(t, events) \in good[n]
  BY <1>3, <1>4, HeardInduction
<1>6. n \in 0..n
  OBVIOUS
<1> QED BY <1>5, <1>6 DEF good

\* A single event.
LEMMA HeardOne ==
    ASSUME NEW t, NEW e
    PROVE  Heard(t, <<e>>) = Hear(t, stat[t], e)
<1>1. Len(<<e>>) = 1 /\ <<e>>[1] = e
  OBVIOUS
<1>2. PICK heard : /\ heard[0] = stat[t]
                   /\ \A i \in 1..1 : heard[i] = Hear(t, heard[i - 1], <<e>>[i])
                   /\ Heard(t, <<e>>) = heard[1]
  BY <1>1, HeardSteps
<1>3. 1 \in 1..1 /\ 1 - 1 = 0
  OBVIOUS
<1> QED BY <1>1, <1>2, <1>3

\* No event.
LEMMA HeardNone == ASSUME NEW t PROVE Heard(t, <<>>) = stat[t]
<1>1. Len(<<>>) = 0
  OBVIOUS
<1> QED BY <1>1, HeardSteps

\* Counting the entries for a pool one after the other.
FirstTaken(to, i, c) == {j \in 1..i : to[j] = c}

LEMMA CountTaken ==
    ASSUME NEW k \in Nat, NEW to \in [1..k -> Clients], NEW c
    PROVE  /\ Cardinality(FirstTaken(to, 0, c)) = 0
           /\ \A i \in 1..k : Cardinality(FirstTaken(to, i, c)) =
                Cardinality(FirstTaken(to, i - 1, c)) + IF to[i] = c THEN 1 ELSE 0
           /\ \A i \in 0..k : Cardinality(FirstTaken(to, i, c)) \in Nat
           /\ FirstTaken(to, k, c) = Taken(to, c)
<1>1. FirstTaken(to, 0, c) = {} /\ FirstTaken(to, k, c) = Taken(to, c)
  BY DEF FirstTaken, Taken
<1>2. ASSUME NEW i \in 0..k
      PROVE  IsFiniteSet(FirstTaken(to, i, c)) /\ Cardinality(FirstTaken(to, i, c)) \in Nat
  <2>1. FirstTaken(to, i, c) \subseteq 1..i /\ i \in Int /\ 1 \in Int
    BY DEF FirstTaken
  <2> QED BY <2>1, FS_Interval, FS_Subset, FS_CardinalityType
<1>3. ASSUME NEW i \in 1..k
      PROVE  Cardinality(FirstTaken(to, i, c)) =
                Cardinality(FirstTaken(to, i - 1, c)) + IF to[i] = c THEN 1 ELSE 0
  <2>1. i - 1 \in 0..k
    OBVIOUS
  <2>2. CASE to[i] = c
    <3>1. FirstTaken(to, i, c) = FirstTaken(to, i - 1, c) \cup {i} /\ i \notin FirstTaken(to, i - 1, c)
      BY <2>2 DEF FirstTaken
    <3> QED BY <1>2, <2>1, <2>2, <3>1, FS_AddElement
  <2>3. CASE to[i] # c
    <3>1. FirstTaken(to, i, c) = FirstTaken(to, i - 1, c)
      BY <2>3 DEF FirstTaken
    <3> QED BY <1>2, <2>1, <2>3, <3>1
  <2> QED BY <2>2, <2>3
<1> QED BY <1>1, <1>2, <1>3, FS_EmptySet

\* One event, then the k others of a list.
LEMMA FirstAndMore ==
    ASSUME AllGood, NEW t \in Tables, NEW e, Fits(e), NEW k \in Nat, NEW more,
           more = [i \in 1..k |-> more[i]], \A i \in 1..k : Fits(more[i]),
           NEW at, Hear(t, stat[t], e) \in at[0],
           \A i \in 1..k : \A a \in at[i - 1] : Good(t, a) => Hear(t, a, more[i]) \in at[i]
    PROVE  Good(t, Heard(t, <<e>> \o more)) /\ Heard(t, <<e>> \o more) \in at[k]
<1> DEFINE X == {e} \cup {more[i] : i \in 1..k}
           events == <<e>> \o more
           all == [i \in 0..(k + 1) |-> IF i = 0 THEN {stat[t]} ELSE at[i - 1]]
<1>1. /\ <<e>> \in Seq(X) /\ Len(<<e>>) = 1 /\ <<e>>[1] = e
      /\ more \in Seq(X) /\ Len(more) = k
  <2>1. more \in [1..k -> X]
    OBVIOUS
  <2> HIDE DEF X
  <2>2. more \in Seq(X) /\ Len(more) = k
    BY <2>1, LenProperties
  <2>3. e \in X
    BY DEF X
  <2> QED BY <2>2, <2>3
<1>2. /\ Len(events) = 1 + k
      /\ \A i \in 1..(1 + k) : events[i] = IF i <= 1 THEN <<e>>[i] ELSE more[i - 1]
  BY <1>1, ConcatProperties
<1> HIDE DEF events
<1>3. events[1] = e
  <2>1. 1 \in 1..(1 + k) /\ 1 <= 1
    OBVIOUS
  <2>2. events[1] = <<e>>[1]
    BY <1>2, <2>1
  <2> QED BY <1>1, <2>2
<1>4. \A i \in 2..(k + 1) : i - 1 \in 1..k /\ events[i] = more[i - 1]
  <2> TAKE i \in 2..(k + 1)
  <2>1. i \in 1..(1 + k) /\ ~(i <= 1) /\ i - 1 \in 1..k
    OBVIOUS
  <2> QED BY <1>2, <2>1
<1>5. \A i \in 1..Len(events) : i = 1 \/ i \in 2..(k + 1)
  BY <1>2
<1>6. \A i \in 1..Len(events) : Fits(events[i])
  BY <1>3, <1>4, <1>5
<1>7. stat[t] \in all[0]
  OBVIOUS
<1>8. ASSUME NEW i \in 1..Len(events), NEW a \in all[i - 1], Good(t, a)
      PROVE  Hear(t, a, events[i]) \in all[i]
  <2>1. CASE i = 1
    <3>1. all[i - 1] = {stat[t]} /\ all[i] = at[0]
      BY <2>1
    <3> HIDE DEF all
    <3> QED BY <1>3, <1>8, <2>1, <3>1
  <2>2. CASE i \in 2..(k + 1)
    <3>1. /\ i - 1 \in 0..(k + 1) /\ i \in 0..(k + 1) /\ i # 0 /\ i - 1 # 0
      BY <2>2
    <3>2. all[i - 1] = at[(i - 1) - 1] /\ all[i] = at[i - 1]
      BY <3>1
    <3> HIDE DEF all
    <3> QED BY <1>4, <1>8, <2>2, <3>2
  <2> QED BY <1>5, <2>1, <2>2
<1>9. Len(events) \in Nat /\ all[Len(events)] = at[k]
  BY <1>2
<1> HIDE DEF all
<1>10. Good(t, Heard(t, events)) /\ Heard(t, events) \in all[Len(events)]
  BY <1>6, <1>7, <1>8, <1>9, HeardGood
<1> QED BY <1>9, <1>10 DEF events

\* A machine is given to a pool.
LEMMA AddHeard ==
    ASSUME connected \subseteq Pages, NEW e, Fits(e), e.name = "add"
    PROVE  /\ \A a : Good("pools", a) =>
                LET b == Hear("pools", a, e)
                IN  b \in Records("pools") /\ b.rows = Counted(a.rows, e.pool, 1)
           /\ \A a : Good("workers", a) =>
                LET b == Hear("workers", a, e)
                IN  b \in Records("workers") /\ b.rows = Moved(a.rows, e.worker, e.pool)
           /\ \A a : Good("jobs", a) =>
                LET b == Hear("jobs", a, e)
                IN  /\ b \in Records("jobs") /\ b.rows = a.rows /\ b.poolsJobs = a.poolsJobs
                    /\ b.poolsWorkerCount = [a.poolsWorkerCount EXCEPT ![e.pool] = @ + 1]
<1>1. ASSUME NEW a, Good("pools", a)
      PROVE  LET b == Hear("pools", a, e)
             IN  b \in Records("pools") /\ b.rows = Counted(a.rows, e.pool, 1)
  <2>1. Good("pools", Hear("pools", a, e)) /\ Hear("pools", a, e).rows = Counted(a.rows, e.pool, 1)
    BY <1>1, PoolsHear
  <2> QED BY <2>1 DEF Good
<1>2. ASSUME NEW a, Good("workers", a)
      PROVE  LET b == Hear("workers", a, e)
             IN  b \in Records("workers") /\ b.rows = Moved(a.rows, e.worker, e.pool)
  <2>1. /\ Good("workers", Hear("workers", a, e))
        /\ Hear("workers", a, e).rows = Moved(a.rows, e.worker, e.pool)
    BY <1>2, WorkersHear
  <2> QED BY <2>1 DEF Good
<1>3. ASSUME NEW a, Good("jobs", a)
      PROVE  LET b == Hear("jobs", a, e)
             IN  /\ b \in Records("jobs") /\ b.rows = a.rows /\ b.poolsJobs = a.poolsJobs
                 /\ b.poolsWorkerCount = [a.poolsWorkerCount EXCEPT ![e.pool] = @ + 1]
  <2>1. Good("jobs", Hear("jobs", a, e))
    BY <1>3, JobsHear
  <2>2. Hear("jobs", a, e).rows = a.rows /\ Hear("jobs", a, e).poolsJobs = a.poolsJobs
    <3>1. RowsFollow(a, e, Hear("jobs", a, e))
      BY <1>3, JobsHear
    <3> QED BY <1>3, <3>1 DEF RowsFollow
  <2>3. Hear("jobs", a, e).poolsWorkerCount = [a.poolsWorkerCount EXCEPT ![e.pool] = @ + 1]
    <3>1. CountsFollow(a, e, Hear("jobs", a, e))
      BY <1>3, JobsHear
    <3> QED BY <1>3, <3>1 DEF CountsFollow
  <2> QED BY <2>1, <2>2, <2>3 DEF Good
<1> QED BY <1>1, <1>2, <1>3

\* Rows that only connected pools and machines have.
RowsOver(S, ids, value) == [x \in S |-> IF x \in ids THEN value[x] ELSE NoRow]

Adds(k, to, q) == [i \in 1..k |-> Event("add", to[i], q[i], NoJob)]

\* The first k machines of queue q are given to the pools in `to'.
GivenAway(k, to, q) ==
    /\ k \in Nat /\ to \in [1..k -> Clients]
    /\ \A i \in 1..k : q[i] \in Workers
    /\ \A i, j \in 1..k : q[i] = q[j] => i = j

\* The tables after the event e.
RowsAfter(e, ps, ws, wc, wp) ==
    /\ wc \in [Clients -> Nat] /\ wp \in [Workers -> Clients \cup {NoPool}]
    /\ Hear("pools", stat["pools"], e).rows = RowsOver(Clients, ps, wc)
    /\ Hear("workers", stat["workers"], e).rows = RowsOver(Workers, ws, wp)
    /\ Hear("jobs", stat["jobs"], e).poolsWorkerCount = wc

\* An event, then the machines a distribution gives to pools: each listed pool
\* counts its own, each machine gets its pool.
LEMMA AddsHeard ==
    ASSUME AllGood, NEW e, Fits(e), NEW k, NEW to, NEW q, GivenAway(k, to, q),
           NEW ps, NEW ws, NEW wc, NEW wp, RowsAfter(e, ps, ws, wc, wp)
    PROVE  LET after(t) == Heard(t, <<e>> \o Adds(k, to, q))
               first == Hear("jobs", stat["jobs"], e)
           IN  /\ \A t \in Tables : Good(t, after(t))
               /\ after("pools").rows = RowsOver(Clients, ps, CountsGiven(to, wc))
               /\ after("workers").rows = RowsOver(Workers, ws, PoolsGiven(to, q, wp))
               /\ after("jobs").poolsWorkerCount = CountsGiven(to, wc)
               /\ after("jobs").rows = first.rows /\ after("jobs").poolsJobs = first.poolsJobs
<1> USE DEF GivenAway, RowsAfter
<1> DEFINE more == Adds(k, to, q)
           count(i) == [c \in Clients |-> wc[c] + Cardinality(FirstTaken(to, i, c))]
           given(i) == [w \in Workers |->
                         IF \E j \in 1..i : q[j] = w
                         THEN to[CHOOSE j \in DOMAIN to : q[j] = w] ELSE wp[w]]
           first == Hear("jobs", stat["jobs"], e)
<1>0. connected \subseteq Pages /\ \A t \in Tables : Good(t, stat[t])
  BY DEF AllGood
<1>a. DOMAIN to = 1..k /\ \A i \in 1..k : to[i] \in Clients /\ i \in 0..k /\ i - 1 \in 0..k
  OBVIOUS
<1>1. \A i \in 1..k : more[i].name = "add" /\ more[i].pool = to[i] /\ more[i].worker = q[i]
  BY DEF Adds, Event
<1>2. more = [i \in 1..k |-> more[i]]
  BY DEF Adds
<1> HIDE DEF more
<1>3. \A i \in 1..k : Fits(more[i])
  BY <1>1 DEF Fits
<1>b. ASSUME NEW c \in Clients
      PROVE  /\ Cardinality(FirstTaken(to, 0, c)) = 0
             /\ \A i \in 1..k : Cardinality(FirstTaken(to, i, c)) =
                  Cardinality(FirstTaken(to, i - 1, c)) + IF to[i] = c THEN 1 ELSE 0
             /\ \A i \in 0..k : Cardinality(FirstTaken(to, i, c)) \in Nat
             /\ FirstTaken(to, k, c) = Taken(to, c)
  <2>1. k \in Nat /\ to \in [1..k -> Clients]
    OBVIOUS
  <2> HIDE DEF count, given, more
  <2> QED BY <2>1, CountTaken
<1>4. count(0) = wc /\ count(k) = CountsGiven(to, wc) /\ \A i \in 0..k : count(i) \in [Clients -> Nat]
  BY <1>b DEF CountsGiven
<1>5. \A i \in 1..k : count(i) = [count(i - 1) EXCEPT ![to[i]] = @ + 1]
  <2> TAKE i \in 1..k
  <2>1. \A c \in Clients : count(i)[c] = count(i - 1)[c] + IF to[i] = c THEN 1 ELSE 0
    <3> TAKE c \in Clients
    <3>1. wc[c] \in Nat /\ Cardinality(FirstTaken(to, i - 1, c)) \in Nat
      BY <1>a, <1>b
    <3>2. Cardinality(FirstTaken(to, i, c)) =
            Cardinality(FirstTaken(to, i - 1, c)) + IF to[i] = c THEN 1 ELSE 0
      BY <1>b
    <3> QED BY <3>1, <3>2
  <2>2. count(i) \in [Clients -> Nat] /\ count(i - 1) \in [Clients -> Nat]
    BY <1>4, <1>a
  <2> HIDE DEF count
  <2> QED BY <1>a, <2>1, <2>2
<1>6. given(0) = wp /\ given(k) = PoolsGiven(to, q, wp) /\ \A i \in 0..k : given(i) \in [Workers -> Clients \cup {NoPool}]
  <2>1. ASSUME NEW i \in 0..k, NEW w \in Workers PROVE given(i)[w] \in Clients \cup {NoPool}
    <3>1. CASE \E j \in 1..i : q[j] = w
      <4>1. PICK j \in 1..i : q[j] = w
        BY <3>1
      <4>2. j \in DOMAIN to
        BY <1>a
      <4>3. PICK l \in DOMAIN to : l = CHOOSE m \in DOMAIN to : q[m] = w
        BY <4>1, <4>2
      <4>4. given(i)[w] = to[CHOOSE m \in DOMAIN to : q[m] = w]
        BY <3>1
      <4> HIDE DEF given
      <4>5. given(i)[w] = to[l]
        BY <4>3, <4>4
      <4> QED BY <1>a, <4>3, <4>5
    <3>2. CASE ~\E j \in 1..i : q[j] = w
      BY <3>2
    <3> QED BY <3>1, <3>2
  <2>2. given(0) = wp
    <3>1. \A w \in Workers : ~\E j \in 1..0 : q[j] = w
      OBVIOUS
    <3> QED BY <3>1
  <2>3. given(k) = PoolsGiven(to, q, wp)
    BY <1>a DEF PoolsGiven
  <2>4. \A i \in 0..k : given(i) \in [Workers -> Clients \cup {NoPool}]
    BY <2>1
  <2> QED BY <2>2, <2>3, <2>4
<1>7. \A i \in 1..k : given(i) = [given(i - 1) EXCEPT ![q[i]] = to[i]]
  <2> TAKE i \in 1..k
  <2>1. q[i] \in Workers
    OBVIOUS
  <2>2. (CHOOSE j \in DOMAIN to : q[j] = q[i]) = i
    BY <1>a
  <2>3. \A w \in Workers : (\E j \in 1..i : q[j] = w) <=> q[i] = w \/ \E j \in 1..(i - 1) : q[j] = w
    <3>1. \A j \in 1..i : j = i \/ j \in 1..(i - 1)
      OBVIOUS
    <3> QED BY <3>1
  <2>4. \A w \in Workers : given(i)[w] = IF w = q[i] THEN to[i] ELSE given(i - 1)[w]
    <3> TAKE w \in Workers
    <3>1. CASE w = q[i]
      <4>1. \E j \in 1..i : q[j] = w
        BY <2>3, <3>1
      <4>2. given(i)[w] = to[CHOOSE j \in DOMAIN to : q[j] = w]
        BY <4>1
      <4> HIDE DEF given
      <4> QED BY <2>2, <3>1, <4>2
    <3>2. CASE w # q[i]
      BY <2>3, <3>2
    <3> QED BY <3>1, <3>2
  <2>5. given(i - 1) \in [Workers -> Clients \cup {NoPool}] /\ given(i) \in [Workers -> Clients \cup {NoPool}]
    BY <1>6, <1>a
  <2> HIDE DEF given
  <2> QED BY <2>1, <2>4, <2>5
<1> HIDE DEF count, given
<1>c. ASSUME NEW i \in 1..k
      PROVE  /\ \A a : Good("pools", a) =>
                  LET b == Hear("pools", a, more[i])
                  IN  b \in Records("pools") /\ b.rows = Counted(a.rows, to[i], 1)
             /\ \A a : Good("workers", a) =>
                  LET b == Hear("workers", a, more[i])
                  IN  b \in Records("workers") /\ b.rows = Moved(a.rows, q[i], to[i])
             /\ \A a : Good("jobs", a) =>
                  LET b == Hear("jobs", a, more[i])
                  IN  /\ b \in Records("jobs") /\ b.rows = a.rows /\ b.poolsJobs = a.poolsJobs
                      /\ b.poolsWorkerCount = [a.poolsWorkerCount EXCEPT ![to[i]] = @ + 1]
  <2> DEFINE f == more[i]
  <2>1. f.name = "add" /\ f.pool = to[i] /\ f.worker = q[i] /\ Fits(f)
    BY <1>1, <1>3
  <2> HIDE DEF f
  <2>2. /\ \A a : Good("pools", a) =>
             LET b == Hear("pools", a, f)
             IN  b \in Records("pools") /\ b.rows = Counted(a.rows, f.pool, 1)
        /\ \A a : Good("workers", a) =>
             LET b == Hear("workers", a, f)
             IN  b \in Records("workers") /\ b.rows = Moved(a.rows, f.worker, f.pool)
        /\ \A a : Good("jobs", a) =>
             LET b == Hear("jobs", a, f)
             IN  /\ b \in Records("jobs") /\ b.rows = a.rows /\ b.poolsJobs = a.poolsJobs
                 /\ b.poolsWorkerCount = [a.poolsWorkerCount EXCEPT ![f.pool] = @ + 1]
    BY <1>0, <2>1, AddHeard, Zenon
  <2> QED BY <2>1, <2>2, Zenon DEF f
<1>8. k \in 0..k /\ 0 \in 0..k
  OBVIOUS
<1>9. Good("pools", Heard("pools", <<e>> \o more)) /\ Heard("pools", <<e>> \o more).rows = RowsOver(Clients, ps, count(k))
  <2> DEFINE at == [i \in 0..k |-> {a \in Records("pools") : a.rows = RowsOver(Clients, ps, count(i))}]
             b0 == Hear("pools", stat["pools"], e)
  <2>0. "pools" \in Tables
    BY TablesAre
  <2>1. b0 \in at[0]
    <3>1. b0 \in Records("pools")
      BY <1>0, <2>0, PoolsHear DEF Good
    <3> HIDE DEF b0
    <3> QED BY <1>4, <1>8, <3>1 DEF b0
  <2>2. ASSUME NEW i \in 1..k, NEW a \in at[i - 1], Good("pools", a)
        PROVE  Hear("pools", a, more[i]) \in at[i]
    <3> DEFINE b == Hear("pools", a, more[i])
    <3>1. /\ b \in Records("pools")
          /\ b.rows = Counted(a.rows, to[i], 1)
      BY <1>c, <2>2
    <3>2. a.rows = RowsOver(Clients, ps, count(i - 1))
      BY <1>a, <2>2
    <3>3. count(i) = [count(i - 1) EXCEPT ![to[i]] = @ + 1] /\ count(i - 1) \in [Clients -> Nat]
      BY <1>a, <1>4, <1>5
    <3>4. \A n \in Nat : n # NoRow
      BY RowsAssumption
    <3> HIDE DEF b
    <3>5. b.rows = RowsOver(Clients, ps, count(i))
      BY <1>a, <3>1, <3>2, <3>3, <3>4 DEF RowsOver, Counted
    <3> QED BY <1>a, <3>1, <3>5 DEF b
  <2>3. at[k] = {a \in Records("pools") : a.rows = RowsOver(Clients, ps, count(k))}
    BY <1>8
  <2> HIDE DEF at
  <2>4. Good("pools", Heard("pools", <<e>> \o more)) /\ Heard("pools", <<e>> \o more) \in at[k]
    BY <1>2, <1>3, <2>0, <2>1, <2>2, FirstAndMore
  <2> QED BY <2>3, <2>4
<1>10. /\ Good("workers", Heard("workers", <<e>> \o more))
       /\ Heard("workers", <<e>> \o more).rows = RowsOver(Workers, ws, given(k))
  <2> DEFINE at == [i \in 0..k |-> {a \in Records("workers") : a.rows = RowsOver(Workers, ws, given(i))}]
             b0 == Hear("workers", stat["workers"], e)
  <2>0. "workers" \in Tables
    BY TablesAre
  <2>1. b0 \in at[0]
    <3>1. b0 \in Records("workers")
      BY <1>0, <2>0, WorkersHear DEF Good
    <3> HIDE DEF b0
    <3> QED BY <1>6, <1>8, <3>1 DEF b0
  <2>2. ASSUME NEW i \in 1..k, NEW a \in at[i - 1], Good("workers", a)
        PROVE  Hear("workers", a, more[i]) \in at[i]
    <3> DEFINE b == Hear("workers", a, more[i])
    <3>1. /\ b \in Records("workers")
          /\ b.rows = Moved(a.rows, q[i], to[i])
      BY <1>c, <2>2
    <3>2. a.rows = RowsOver(Workers, ws, given(i - 1))
      BY <1>a, <2>2
    <3>3. /\ given(i) = [given(i - 1) EXCEPT ![q[i]] = to[i]]
          /\ given(i - 1) \in [Workers -> Clients \cup {NoPool}]
      BY <1>a, <1>6, <1>7
    <3>4. \A c \in Clients \cup {NoPool} : c # NoRow
      BY TablesAre
    <3> HIDE DEF b
    <3>5. b.rows = RowsOver(Workers, ws, given(i))
      BY <3>1, <3>2, <3>3, <3>4 DEF RowsOver, Moved
    <3> QED BY <1>a, <3>1, <3>5 DEF b
  <2>3. at[k] = {a \in Records("workers") : a.rows = RowsOver(Workers, ws, given(k))}
    BY <1>8
  <2> HIDE DEF at
  <2>4. Good("workers", Heard("workers", <<e>> \o more)) /\ Heard("workers", <<e>> \o more) \in at[k]
    BY <1>2, <1>3, <2>0, <2>1, <2>2, FirstAndMore
  <2> QED BY <2>3, <2>4
<1>11. /\ Good("jobs", Heard("jobs", <<e>> \o more))
       /\ Heard("jobs", <<e>> \o more).poolsWorkerCount = count(k)
       /\ Heard("jobs", <<e>> \o more).rows = first.rows
       /\ Heard("jobs", <<e>> \o more).poolsJobs = first.poolsJobs
  <2> DEFINE at == [i \in 0..k |-> {a \in Records("jobs") :
                                      /\ a.poolsWorkerCount = count(i)
                                      /\ a.rows = first.rows /\ a.poolsJobs = first.poolsJobs}]
  <2>0. "jobs" \in Tables
    BY TablesAre
  <2>1. first \in at[0]
    <3>1. first \in Records("jobs")
      BY <1>0, <2>0, JobsHear DEF Good
    <3> HIDE DEF first
    <3> QED BY <1>4, <1>8, <3>1 DEF first
  <2>2. ASSUME NEW i \in 1..k, NEW a \in at[i - 1], Good("jobs", a)
        PROVE  Hear("jobs", a, more[i]) \in at[i]
    <3> DEFINE b == Hear("jobs", a, more[i])
    <3>1. /\ b \in Records("jobs")
          /\ b.poolsWorkerCount = [a.poolsWorkerCount EXCEPT ![to[i]] = @ + 1]
          /\ b.rows = a.rows /\ b.poolsJobs = a.poolsJobs
      BY <1>c, <2>2
    <3>2. /\ a.poolsWorkerCount = count(i - 1)
          /\ a.rows = first.rows /\ a.poolsJobs = first.poolsJobs
      BY <1>a, <2>2
    <3>3. count(i) = [count(i - 1) EXCEPT ![to[i]] = @ + 1]
      BY <1>5
    <3> HIDE DEF b
    <3> QED BY <1>a, <3>1, <3>2, <3>3 DEF b
  <2>3. at[k] = {a \in Records("jobs") : /\ a.poolsWorkerCount = count(k)
                                         /\ a.rows = first.rows /\ a.poolsJobs = first.poolsJobs}
    BY <1>8
  <2> HIDE DEF at, first
  <2>4. Good("jobs", Heard("jobs", <<e>> \o more)) /\ Heard("jobs", <<e>> \o more) \in at[k]
    BY <1>2, <1>3, <2>0, <2>1, <2>2, FirstAndMore DEF first
  <2> QED BY <2>3, <2>4
<1> QED BY <1>4, <1>6, <1>9, <1>10, <1>11, TablesAre DEF more

\* A machine is taken from a pool.
LEMMA DelHeard ==
    ASSUME connected \subseteq Pages, NEW e, Fits(e), e.name = "del"
    PROVE  /\ \A a : Good("pools", a) =>
                LET b == Hear("pools", a, e)
                IN  b \in Records("pools") /\ b.rows = Counted(a.rows, e.pool, -1)
           /\ \A a : Good("workers", a) =>
                LET b == Hear("workers", a, e)
                IN  b \in Records("workers") /\ b.rows = Moved(a.rows, e.worker, NoPool)
           /\ \A a : Good("jobs", a) =>
                LET b == Hear("jobs", a, e)
                IN  /\ b \in Records("jobs") /\ b.rows = a.rows /\ b.poolsJobs = a.poolsJobs
                    /\ b.poolsWorkerCount =
                         [a.poolsWorkerCount EXCEPT ![e.pool] = IF @ = 0 THEN 0 ELSE @ - 1]
<1>1. ASSUME NEW a, Good("pools", a)
      PROVE  LET b == Hear("pools", a, e)
             IN  b \in Records("pools") /\ b.rows = Counted(a.rows, e.pool, -1)
  <2>1. Good("pools", Hear("pools", a, e)) /\ Hear("pools", a, e).rows = Counted(a.rows, e.pool, -1)
    BY <1>1, PoolsHear
  <2> QED BY <2>1 DEF Good
<1>2. ASSUME NEW a, Good("workers", a)
      PROVE  LET b == Hear("workers", a, e)
             IN  b \in Records("workers") /\ b.rows = Moved(a.rows, e.worker, NoPool)
  <2>1. /\ Good("workers", Hear("workers", a, e))
        /\ Hear("workers", a, e).rows = Moved(a.rows, e.worker, NoPool)
    BY <1>2, WorkersHear
  <2> QED BY <2>1 DEF Good
<1>3. ASSUME NEW a, Good("jobs", a)
      PROVE  LET b == Hear("jobs", a, e)
             IN  /\ b \in Records("jobs") /\ b.rows = a.rows /\ b.poolsJobs = a.poolsJobs
                 /\ b.poolsWorkerCount =
                      [a.poolsWorkerCount EXCEPT ![e.pool] = IF @ = 0 THEN 0 ELSE @ - 1]
  <2>1. Good("jobs", Hear("jobs", a, e))
    BY <1>3, JobsHear
  <2>2. Hear("jobs", a, e).rows = a.rows /\ Hear("jobs", a, e).poolsJobs = a.poolsJobs
    <3>1. RowsFollow(a, e, Hear("jobs", a, e))
      BY <1>3, JobsHear
    <3> QED BY <1>3, <3>1 DEF RowsFollow
  <2>3. Hear("jobs", a, e).poolsWorkerCount =
          [a.poolsWorkerCount EXCEPT ![e.pool] = IF @ = 0 THEN 0 ELSE @ - 1]
    <3>1. CountsFollow(a, e, Hear("jobs", a, e))
      BY <1>3, JobsHear
    <3> QED BY <1>3, <3>1 DEF CountsFollow
  <2> QED BY <2>1, <2>2, <2>3 DEF Good
<1> QED BY <1>1, <1>2, <1>3

Dels(c, k, order) == [i \in 1..k |-> Event("del", c, order[i], NoJob)]
LostEvents(c, k, order) == <<PoolEvent("disconnect", c)>> \o Dels(c, k, order)

\* The first k machines of order, of which pool c counts at least as many.
TakenAway(k, order, c, wc) ==
    /\ c \in Clients /\ k \in Nat /\ k <= wc[c]
    /\ \A i \in 1..k : order[i] \in Workers
PoolsTaken(k, order, wp) ==
    [w \in Workers |-> IF \E i \in 1..k : order[i] = w THEN NoPool ELSE wp[w]]

CountsTaken(k, c, wc) == [wc EXCEPT ![c] = @ - k]
JobsTaken(c, pJobs) == [pJobs EXCEPT ![c] = NoJob]

RowsNow(ps, ws, wc, wp) ==
    /\ wc \in [Clients -> Nat] /\ wp \in [Workers -> Clients \cup {NoPool}]
    /\ stat["pools"].rows = RowsOver(Clients, ps, wc)
    /\ stat["workers"].rows = RowsOver(Workers, ws, wp)
    /\ stat["jobs"].poolsWorkerCount = wc

\* A pool is lost, then its machines are taken from it: Pools has no row for
\* it any more and passes over them, Jobs counts down what it counted up.
LEMMA DelsHeard ==
    ASSUME AllGood, NEW ps, NEW ws, NEW wc, NEW wp, RowsNow(ps, ws, wc, wp),
           NEW k, NEW order, NEW c, TakenAway(k, order, c, wc)
    PROVE  LET after(t) == Heard(t, LostEvents(c, k, order))
               old == stat["jobs"]
           IN  /\ \A t \in Tables : Good(t, after(t))
               /\ after("pools").rows = RowsOver(Clients, ps \ {c}, wc)
               /\ after("workers").rows = RowsOver(Workers, ws, PoolsTaken(k, order, wp))
               /\ after("jobs").poolsWorkerCount = CountsTaken(k, c, wc)
               /\ after("jobs").rows = Without(old.rows, old.poolsJobs[c])
               /\ after("jobs").poolsJobs = JobsTaken(c, old.poolsJobs)
<1> USE DEF RowsNow, TakenAway
<1> DEFINE e == PoolEvent("disconnect", c)
           more == Dels(c, k, order)
           freed(i) == PoolsTaken(i, order, wp)
           count(i) == [wc EXCEPT ![c] = @ - i]
           rows == Without(stat["jobs"].rows, stat["jobs"].poolsJobs[c])
           pJobs == [stat["jobs"].poolsJobs EXCEPT ![c] = NoJob]
<1>0. connected \subseteq Pages /\ \A t \in Tables : Good(t, stat[t])
  BY DEF AllGood
<1>a. \A i \in 1..k : i \in 0..k /\ i - 1 \in 0..k
  OBVIOUS
<1>1. \A i \in 1..k : more[i].name = "del" /\ more[i].pool = c /\ more[i].worker = order[i]
  BY DEF Dels, Event
<1>2. more = [i \in 1..k |-> more[i]]
  BY DEF Dels
<1>e. e.name = "disconnect" /\ e.pool = c
  BY DEF PoolEvent, Event
<1> HIDE DEF more, e
<1>3. Fits(e) /\ \A i \in 1..k : Fits(more[i])
  BY <1>1, <1>e DEF Fits
<1>4. count(0) = wc /\ \A i \in 0..k : count(i) \in [Clients -> Nat]
  OBVIOUS
<1>5. \A i \in 1..k : count(i) = [count(i - 1) EXCEPT ![c] = IF @ = 0 THEN 0 ELSE @ - 1]
  <2> TAKE i \in 1..k
  <2>1. count(i - 1)[c] # 0 /\ count(i)[c] = count(i - 1)[c] - 1
    OBVIOUS
  <2>2. \A d \in Clients : d # c => count(i)[d] = count(i - 1)[d]
    OBVIOUS
  <2>3. count(i) \in [Clients -> Nat] /\ count(i - 1) \in [Clients -> Nat]
    BY <1>4, <1>a
  <2> HIDE DEF count
  <2> QED BY <2>1, <2>2, <2>3
<1> USE DEF PoolsTaken
<1>6. freed(0) = wp /\ \A i \in 0..k : freed(i) \in [Workers -> Clients \cup {NoPool}]
  <2>1. 1..0 = {}
    OBVIOUS
  <2> QED BY <2>1
<1>7. \A i \in 1..k : freed(i) = [freed(i - 1) EXCEPT ![order[i]] = NoPool]
  <2> TAKE i \in 1..k
  <2>1. order[i] \in Workers
    OBVIOUS
  <2>2. \A w \in Workers :
          (\E j \in 1..i : order[j] = w) <=> order[i] = w \/ \E j \in 1..(i - 1) : order[j] = w
    <3>1. \A j \in 1..i : j = i \/ j \in 1..(i - 1)
      OBVIOUS
    <3> QED BY <3>1
  <2>3. \A w \in Workers : freed(i)[w] = IF w = order[i] THEN NoPool ELSE freed(i - 1)[w]
    BY <2>2
  <2>4. freed(i - 1) \in [Workers -> Clients \cup {NoPool}] /\ freed(i) \in [Workers -> Clients \cup {NoPool}]
    BY <1>6, <1>a
  <2> HIDE DEF freed, PoolsTaken
  <2> QED BY <2>1, <2>3, <2>4
<1> HIDE DEF count, freed, PoolsTaken
<1>8. ASSUME NEW i \in 1..k
      PROVE  /\ \A a : Good("pools", a) =>
                  LET b == Hear("pools", a, more[i])
                  IN  b \in Records("pools") /\ b.rows = Counted(a.rows, c, -1)
             /\ \A a : Good("workers", a) =>
                  LET b == Hear("workers", a, more[i])
                  IN  b \in Records("workers") /\ b.rows = Moved(a.rows, order[i], NoPool)
             /\ \A a : Good("jobs", a) =>
                  LET b == Hear("jobs", a, more[i])
                  IN  /\ b \in Records("jobs") /\ b.rows = a.rows /\ b.poolsJobs = a.poolsJobs
                      /\ b.poolsWorkerCount =
                           [a.poolsWorkerCount EXCEPT ![c] = IF @ = 0 THEN 0 ELSE @ - 1]
  <2> DEFINE f == more[i]
  <2>1. f.name = "del" /\ f.pool = c /\ f.worker = order[i] /\ Fits(f)
    BY <1>1, <1>3
  <2> HIDE DEF f
  <2>2. /\ \A a : Good("pools", a) =>
             LET b == Hear("pools", a, f)
             IN  b \in Records("pools") /\ b.rows = Counted(a.rows, f.pool, -1)
        /\ \A a : Good("workers", a) =>
             LET b == Hear("workers", a, f)
             IN  b \in Records("workers") /\ b.rows = Moved(a.rows, f.worker, NoPool)
        /\ \A a : Good("jobs", a) =>
             LET b == Hear("jobs", a, f)
             IN  /\ b \in Records("jobs") /\ b.rows = a.rows /\ b.poolsJobs = a.poolsJobs
                 /\ b.poolsWorkerCount =
                      [a.poolsWorkerCount EXCEPT ![f.pool] = IF @ = 0 THEN 0 ELSE @ - 1]
    BY <1>0, <2>1, DelHeard, Zenon
  <2> QED BY <2>1, <2>2, Zenon DEF f
<1>9. /\ "pools" \in Tables /\ "workers" \in Tables /\ "jobs" \in Tables
      /\ k \in 0..k /\ 0 \in 0..k
  BY TablesAre
<1>10. /\ Good("pools", Heard("pools", <<e>> \o more))
       /\ Heard("pools", <<e>> \o more).rows = RowsOver(Clients, ps \ {c}, wc)
  <2> DEFINE at == [i \in 0..k |-> {a \in Records("pools") : a.rows = RowsOver(Clients, ps \ {c}, wc)}]
             b0 == Hear("pools", stat["pools"], e)
  <2>1. b0 \in at[0]
    <3>1. Good("pools", b0) /\ b0.rows = [stat["pools"].rows EXCEPT ![c] = NoRow]
      BY <1>0, <1>3, <1>9, <1>e, PoolsHear
    <3> HIDE DEF b0
    <3>2. b0.rows = RowsOver(Clients, ps \ {c}, wc)
      BY <3>1 DEF RowsOver
    <3> QED BY <1>9, <3>1, <3>2 DEF Good
  <2>2. ASSUME NEW i \in 1..k, NEW a \in at[i - 1], Good("pools", a)
        PROVE  Hear("pools", a, more[i]) \in at[i]
    <3> DEFINE b == Hear("pools", a, more[i])
    <3>1. b \in Records("pools") /\ b.rows = Counted(a.rows, c, -1)
      BY <1>8, <2>2
    <3>2. a.rows = RowsOver(Clients, ps \ {c}, wc)
      BY <1>a, <2>2
    <3>3. a.rows[c] = NoRow
      BY <3>2 DEF RowsOver
    <3> HIDE DEF b
    <3>4. b.rows = RowsOver(Clients, ps \ {c}, wc)
      BY <3>1, <3>2, <3>3 DEF RowsOver, Counted
    <3> QED BY <1>a, <3>1, <3>4 DEF b
  <2>3. at[k] = {a \in Records("pools") : a.rows = RowsOver(Clients, ps \ {c}, wc)}
    BY <1>9
  <2> HIDE DEF at
  <2>4. Good("pools", Heard("pools", <<e>> \o more)) /\ Heard("pools", <<e>> \o more) \in at[k]
    BY <1>2, <1>3, <1>9, <2>1, <2>2, FirstAndMore
  <2> QED BY <2>3, <2>4
<1>11. /\ Good("workers", Heard("workers", <<e>> \o more))
       /\ Heard("workers", <<e>> \o more).rows = RowsOver(Workers, ws, freed(k))
  <2> DEFINE at == [i \in 0..k |-> {a \in Records("workers") : a.rows = RowsOver(Workers, ws, freed(i))}]
             b0 == Hear("workers", stat["workers"], e)
  <2>1. b0 \in at[0]
    <3>1. Good("workers", b0) /\ b0.rows = stat["workers"].rows
      BY <1>0, <1>3, <1>9, <1>e, WorkersHear
    <3> HIDE DEF b0
    <3> QED BY <1>6, <1>9, <3>1 DEF Good
  <2>2. ASSUME NEW i \in 1..k, NEW a \in at[i - 1], Good("workers", a)
        PROVE  Hear("workers", a, more[i]) \in at[i]
    <3> DEFINE b == Hear("workers", a, more[i])
    <3>1. b \in Records("workers") /\ b.rows = Moved(a.rows, order[i], NoPool)
      BY <1>8, <2>2
    <3>2. a.rows = RowsOver(Workers, ws, freed(i - 1))
      BY <1>a, <2>2
    <3>3. /\ freed(i) = [freed(i - 1) EXCEPT ![order[i]] = NoPool]
          /\ freed(i - 1) \in [Workers -> Clients \cup {NoPool}]
      BY <1>a, <1>6, <1>7
    <3>4. \A d \in Clients \cup {NoPool} : d # NoRow
      BY TablesAre
    <3> HIDE DEF b
    <3>5. b.rows = RowsOver(Workers, ws, freed(i))
      BY <3>1, <3>2, <3>3, <3>4 DEF RowsOver, Moved
    <3> QED BY <1>a, <3>1, <3>5 DEF b
  <2>3. at[k] = {a \in Records("workers") : a.rows = RowsOver(Workers, ws, freed(k))}
    BY <1>9
  <2> HIDE DEF at
  <2>4. Good("workers", Heard("workers", <<e>> \o more)) /\ Heard("workers", <<e>> \o more) \in at[k]
    BY <1>2, <1>3, <1>9, <2>1, <2>2, FirstAndMore
  <2> QED BY <2>3, <2>4
<1>12. /\ Good("jobs", Heard("jobs", <<e>> \o more))
       /\ Heard("jobs", <<e>> \o more).poolsWorkerCount = count(k)
       /\ Heard("jobs", <<e>> \o more).rows = rows
       /\ Heard("jobs", <<e>> \o more).poolsJobs = pJobs
  <2> DEFINE at == [i \in 0..k |-> {a \in Records("jobs") :
                                      /\ a.poolsWorkerCount = count(i)
                                      /\ a.rows = rows /\ a.poolsJobs = pJobs}]
             b0 == Hear("jobs", stat["jobs"], e)
  <2>1. b0 \in at[0]
    <3>0. Good("jobs", stat["jobs"])
      BY <1>0, <1>9
    <3>1. Good("jobs", b0)
      BY <1>0, <1>3, <3>0, JobsHear
    <3>2. b0.rows = rows
      <4>1. RowsFollow(stat["jobs"], e, b0)
        BY <1>0, <1>3, <3>0, <1>e, JobsHear
      <4> QED BY <1>0, <1>3, <3>0, <1>e, <4>1 DEF RowsFollow
    <3>4. b0.poolsJobs = pJobs
      <4>1. b0.poolsJobs = [stat["jobs"].poolsJobs EXCEPT ![e.pool] = NoJob]
        <5>1. RowsFollow(stat["jobs"], e, b0)
          BY <1>0, <1>3, <3>0, <1>e, JobsHear
        <5> QED BY <1>0, <1>3, <3>0, <1>e, <5>1 DEF RowsFollow
      <4> QED BY <1>e, <4>1
    <3>3. b0.poolsWorkerCount = wc
      <4>1. CountsFollow(stat["jobs"], e, b0)
        BY <1>0, <1>3, <3>0, <1>e, JobsHear
      <4> QED BY <1>0, <1>3, <3>0, <1>e, <4>1 DEF CountsFollow
    <3> HIDE DEF b0, rows, pJobs
    <3> QED BY <1>4, <1>9, <3>1, <3>2, <3>3, <3>4 DEF Good
  <2> HIDE DEF rows, pJobs
  <2>2. ASSUME NEW i \in 1..k, NEW a \in at[i - 1], Good("jobs", a)
        PROVE  Hear("jobs", a, more[i]) \in at[i]
    <3> DEFINE b == Hear("jobs", a, more[i])
    <3>1. /\ b \in Records("jobs") /\ b.rows = a.rows /\ b.poolsJobs = a.poolsJobs
          /\ b.poolsWorkerCount = [a.poolsWorkerCount EXCEPT ![c] = IF @ = 0 THEN 0 ELSE @ - 1]
      BY <1>8, <2>2
    <3>2. a.poolsWorkerCount = count(i - 1) /\ a.rows = rows /\ a.poolsJobs = pJobs
      BY <1>a, <2>2
    <3>3. count(i) = [count(i - 1) EXCEPT ![c] = IF @ = 0 THEN 0 ELSE @ - 1]
      BY <1>5
    <3> HIDE DEF b
    <3> QED BY <1>a, <3>1, <3>2, <3>3 DEF b
  <2>3. at[k] = {a \in Records("jobs") : /\ a.poolsWorkerCount = count(k)
                                         /\ a.rows = rows /\ a.poolsJobs = pJobs}
    BY <1>9
  <2> HIDE DEF at
  <2>4. Good("jobs", Heard("jobs", <<e>> \o more)) /\ Heard("jobs", <<e>> \o more) \in at[k]
    BY <1>2, <1>3, <1>9, <2>1, <2>2, FirstAndMore
  <2> QED BY <2>3, <2>4
<1> QED BY <1>10, <1>11, <1>12, TablesAre DEF more, e, count, freed, CountsTaken, JobsTaken, LostEvents

-----------------------------------------------------------------------------
(* The events of a handler *)

\* What FreeWorkersToPools does once `to' is chosen.
Chosen(to, q, ps, wp, wc) ==
    /\ to \in Distributions(Len(q), ps, wc)
    /\ freeWorkers' = SubSeq(q, Len(to) + 1, Len(q))
    /\ workerPool' = PoolsGiven(to, q, wp)
    /\ workersCount' = CountsGiven(to, wc)

\* The events of a distribution are those of the entries it gives away.
LEMMA AddedFacts ==
    ASSUME NEW q, IsQueue(q), NEW ps, ps \subseteq Clients, NEW wp, NEW wc,
           NEW to, Chosen(to, q, ps, wp, wc)
    PROVE  GivenAway(Len(to), to, q) /\ Added(q) = Adds(Len(to), to, q)
<1> USE DEF Chosen
<1> DEFINE k == Len(to)
<1>1. q \in Seq(Workers) /\ Len(q) \in Nat /\ DOMAIN q = 1..Len(q) /\ \A i \in 1..Len(q) : q[i] \in Workers
  BY LenProperties, ElementOfSeq DEF IsQueue
<1>2. k \in 0..Len(q) /\ to \in [1..k -> ps] /\ DOMAIN to = 1..k
  BY <1>1, DistributionFacts
<1> HIDE DEF k
<1>3. to \in [1..k -> Clients] /\ \A i \in 1..k : i \in 1..Len(q) /\ q[i] \in Workers
  BY <1>1, <1>2
<1>4. \A i, j \in 1..k : q[i] = q[j] => i = j
  BY <1>1, <1>3 DEF IsQueue
<1>5. \A i \in 1..k : workerPool'[q[i]] = to[i]
  <2> TAKE i \in 1..k
  <2>1. (CHOOSE j \in DOMAIN to : q[j] = q[i]) = i
    BY <1>2, <1>4
  <2>2. q[i] \in Workers /\ \E j \in DOMAIN to : q[j] = q[i]
    BY <1>2, <1>3
  <2> QED BY <2>1, <2>2 DEF PoolsGiven
<1>6. Len(q) - Len(freeWorkers') = k
  <2>1. k + 1 \in Int /\ Len(q) \in Int /\ \A i \in (k + 1)..Len(q) : q[i] \in Workers
    BY <1>1, <1>2
  <2>2. Len(SubSeq(q, k + 1, Len(q))) =
          IF k + 1 <= Len(q) THEN Len(q) - (k + 1) + 1 ELSE 0
    BY <2>1, SubSeqProperties
  <2>3. freeWorkers' = SubSeq(q, k + 1, Len(q))
    BY DEF k
  <2>4. Len(q) \in Nat /\ k \in 0..Len(q)
    BY <1>1, <1>2
  <2>5. Len(freeWorkers') = Len(q) - k
    <3>1. Len(freeWorkers') = IF k + 1 <= Len(q) THEN Len(q) - (k + 1) + 1 ELSE 0
      BY <2>2, <2>3
    <3>2. \A n \in Nat : \A j \in 0..n : (IF j + 1 <= n THEN n - (j + 1) + 1 ELSE 0) = n - j
      OBVIOUS
    <3> QED BY <2>4, <3>1, <3>2, Zenon
  <2> QED BY <2>4, <2>5
<1>7. Added(q) = Adds(k, to, q)
  BY <1>5, <1>6 DEF Added, Adds
<1> QED BY <1>2, <1>3, <1>4, <1>7 DEF k, GivenAway

\* A table whose archive was cut, and the rows lost to the pages for it.
LEMMA CutFacts ==
    ASSUME NEW t \in Tables, NEW a, Good(t, a), NEW cut, NEW l,
           l = [p \in Pages |-> LostBy(p, lost[t][p], a, cut)],
           connected \subseteq Pages, connected' = connected, cut \subseteq RowIds[t],
           lost'[t] = l, stat'[t] = [a EXCEPT !.archive = @ \ cut]
    PROVE  Good(t, stat[t])' /\ stat'[t].rows = a.rows /\ SameOwn(t, a, stat'[t])
<1> DEFINE b == [a EXCEPT !.archive = @ \ cut]
<1>1. a \in Records(t) /\ Sound(t, a)
  BY DEF Good
<1>2. /\ b \in Records(t) /\ b.rows = a.rows /\ b.archive = a.archive \ cut
      /\ b.sockets = a.sockets /\ b.view = a.view /\ b.crowded = a.crowded /\ SameOwn(t, a, b)
  <2>1. CASE t = "jobs"
    BY <1>1, <2>1 DEF Records, SameOwn
  <2>2. CASE t # "jobs"
    BY <1>1, <2>2 DEF Records, SameOwn
  <2> QED BY <2>1, <2>2
<1> HIDE DEF b
<1>3. \A p \in Pages : \A id :
        id \in l[p] <=> /\ a.rows[id] = NoRow
                        /\ \/ id \in lost[t][p]
                           \/ p \notin Range(a.sockets) /\ id \in cut
  <2> SUFFICES ASSUME NEW p \in Pages, NEW id
               PROVE  id \in l[p] <=> /\ a.rows[id] = NoRow
                                      /\ \/ id \in lost[t][p]
                                         \/ p \notin Range(a.sockets) /\ id \in cut
    OBVIOUS
  <2>1. l[p] = LostBy(p, lost[t][p], a, cut)
    BY Zenon
  <2>2. PICK before, away : /\ before = lost[t][p]
                            /\ away = IF p \in Range(a.sockets) THEN {} ELSE cut
    OBVIOUS
  <2>3. l[p] = {x \in before \cup away : a.rows[x] = NoRow}
    BY <2>1, <2>2, Zenon DEF LostBy
  <2> QED BY <2>2, <2>3
<1>4. /\ Range(a.sockets) \subseteq connected \cup {Gone}
      /\ \A p \in connected : p \in Range(a.sockets) =>
           \A id \in RowIds[t] : Shows(t, a, p, id)
      /\ \A p \in Pages, id \in RowIds[t] :
           a.rows[id] = NoRow /\ a.view[p][id] \notin {NoRow, Dead} => id \in a.archive \cup lost[t][p]
      /\ ~a.crowded => connected \subseteq Range(a.sockets)
      /\ \A p \in Pages : lost[t][p] \subseteq RowIds[t]
  BY <1>1, Zenon DEF Sound
<1> HIDE DEF LostBy
<1>5. ASSUME NEW p \in connected, p \in Range(a.sockets), NEW id \in RowIds[t]
      PROVE  IF a.rows[id] = NoRow THEN a.view[p][id] \in {NoRow, Dead} \/ id \in l[p]
             ELSE a.view[p][id] = a.rows[id]
  BY <1>3, <1>4, <1>5 DEF Shows
<1>6. ASSUME NEW p \in Pages, NEW id \in RowIds[t],
             a.rows[id] = NoRow, a.view[p][id] \notin {NoRow, Dead}
      PROVE  id \in (a.archive \ cut) \cup l[p]
  <2>1. p \in Range(a.sockets) => p \in connected
    BY <1>4, RowsAssumption
  <2>2. p \in Range(a.sockets) => id \in l[p]
    BY <1>5, <1>6, <2>1
  <2> QED BY <1>3, <1>4, <1>6, <2>2
<1>7. \A p \in Pages : l[p] \subseteq RowIds[t]
  BY <1>3, <1>4
<1>8. stat'[t] = b
  BY DEF b
<1>9. Sound(t, stat[t])'
  <2>1. \A p \in connected : p \in Range(b.sockets) =>
          \A id \in RowIds[t] : Shows(t, stat[t], p, id)'
    BY <1>2, <1>5, <1>8 DEF Shows
  <2>2. \A p \in Pages, id \in RowIds[t] :
          b.rows[id] = NoRow /\ b.view[p][id] \notin {NoRow, Dead} => id \in b.archive \cup l[p]
    BY <1>2, <1>6
  <2>3. /\ Range(b.sockets) \subseteq connected \cup {Gone}
        /\ ~b.crowded => connected \subseteq Range(b.sockets)
    BY <1>2, <1>4
  <2> QED BY <1>7, <1>8, <2>1, <2>2, <2>3 DEF Sound
<1> QED BY <1>2, <1>8, <1>9 DEF Good

\* The tables once they heard the events of a handler.
LEMMA HearAllFacts ==
    ASSUME AllGood, NEW events, HearAll(events),
           \A t \in Tables : Good(t, Heard(t, events))
    PROVE  /\ stat' = [t \in Tables |-> stat'[t]] /\ AllGood'
           /\ \A t \in Tables : stat'[t].rows = Heard(t, events).rows
           /\ stat'["jobs"].poolsJobs = Heard("jobs", events).poolsJobs
           /\ stat'["jobs"].poolsWorkerCount = Heard("jobs", events).poolsWorkerCount
<1>1. PICK cut :
        /\ \A t \in Tables : cut[t] \subseteq Droppable(t, events)
        /\ stat' = [t \in Tables |-> [Heard(t, events) EXCEPT !.archive = @ \ cut[t]]]
        /\ lost' = [t \in Tables |-> [p \in Pages |->
                     LostBy(p, lost[t][p], Heard(t, events), cut[t])]]
  <2>1. PICK dp \in SUBSET Droppable("pools", events),
             dw \in SUBSET Droppable("workers", events),
             dj \in SUBSET Droppable("jobs", events) :
          LET cut == [pools |-> dp, workers |-> dw, jobs |-> dj]
          IN /\ stat' = [t \in Tables |-> [Heard(t, events) EXCEPT !.archive = @ \ cut[t]]]
             /\ lost' = [t \in Tables |-> [p \in Pages |->
                          LostBy(p, lost[t][p], Heard(t, events), cut[t])]]
    BY Zenon DEF HearAll
  <2>2. PICK cut : cut = [pools |-> dp, workers |-> dw, jobs |-> dj]
    OBVIOUS
  <2>3. cut["pools"] = dp /\ cut["workers"] = dw /\ cut["jobs"] = dj
    BY <2>2
  <2>4. \A t \in Tables : cut[t] \subseteq Droppable(t, events)
    BY <2>3, TablesAre
  <2> QED BY <2>1, <2>2, <2>4, Zenon
<1>2. connected' = connected /\ connected \subseteq Pages /\ \A t \in Tables : Good(t, stat[t])
  BY DEF HearAll, AllGood
<1>3. ASSUME NEW t \in Tables
      PROVE  /\ Good(t, stat[t])' /\ stat'[t].rows = Heard(t, events).rows
             /\ SameOwn(t, Heard(t, events), stat'[t])
  <2>1. PICK a, c, l : a = Heard(t, events) /\ c = cut[t] /\ l = lost'[t]
    OBVIOUS
  <2>2. Good(t, a) /\ stat'[t] = [a EXCEPT !.archive = @ \ c]
    BY <1>1, <2>1
  <2>3. l = [p \in Pages |-> LostBy(p, lost[t][p], a, c)]
    BY <1>1, <2>1
  <2>4. c \subseteq RowIds[t]
    <3>1. stat[t].archive \subseteq RowIds[t]
      BY <1>2, FieldTypes DEF Good
    <3> QED BY <1>1, <2>1, <3>1 DEF Droppable
  <2>5. connected' = connected /\ connected \subseteq Pages /\ lost'[t] = l
    BY <1>2, <2>1
  <2>6. Good(t, stat[t])' /\ stat'[t].rows = a.rows /\ SameOwn(t, a, stat'[t])
    BY <2>2, <2>3, <2>4, <2>5, CutFacts, Zenon
  <2> QED BY <2>1, <2>6
<1>4. "jobs" \in Tables
  BY TablesAre
<1>5. stat' = [t \in Tables |-> stat'[t]]
  BY <1>1
<1> QED BY <1>2, <1>3, <1>4, <1>5 DEF AllGood, SameOwn

LEMMA DistributionHeard ==
    ASSUME AllGood, NEW e, Fits(e), NEW q, IsQueue(q), NEW ps, ps \subseteq Clients, NEW ws,
           NEW wp, NEW pw, NEW wc, RowsAfter(e, ps, ws, wc, wp),
           FreeWorkersToPools(q, ps, wp, pw, wc), HearAll(<<e>> \o Added(q))
    PROVE  LET first == Hear("jobs", stat["jobs"], e)
           IN  /\ stat' = [t \in Tables |-> stat'[t]] /\ AllGood'
               /\ stat'["pools"].rows = RowsOver(Clients, ps, workersCount')
               /\ stat'["workers"].rows = RowsOver(Workers, ws, workerPool')
               /\ stat'["jobs"].poolsWorkerCount = workersCount'
               /\ stat'["jobs"].rows = first.rows /\ stat'["jobs"].poolsJobs = first.poolsJobs
<1>1. PICK to : Chosen(to, q, ps, wp, wc)
  BY Zenon DEF FreeWorkersToPools, Chosen
<1> DEFINE k == Len(to)
           events == <<e>> \o Adds(k, to, q)
<1>2. GivenAway(k, to, q) /\ Added(q) = Adds(k, to, q)
  BY <1>1, AddedFacts
<1> HIDE DEF k
<1>3. LET after(t) == Heard(t, events)
          first == Hear("jobs", stat["jobs"], e)
      IN  /\ \A t \in Tables : Good(t, after(t))
          /\ after("pools").rows = RowsOver(Clients, ps, CountsGiven(to, wc))
          /\ after("workers").rows = RowsOver(Workers, ws, PoolsGiven(to, q, wp))
          /\ after("jobs").poolsWorkerCount = CountsGiven(to, wc)
          /\ after("jobs").rows = first.rows /\ after("jobs").poolsJobs = first.poolsJobs
  BY <1>2, AddsHeard
<1>4. HearAll(events)
  BY <1>2
<1> HIDE DEF events
<1>5. /\ stat' = [t \in Tables |-> stat'[t]] /\ AllGood'
      /\ \A t \in Tables : stat'[t].rows = Heard(t, events).rows
      /\ stat'["jobs"].poolsJobs = Heard("jobs", events).poolsJobs
      /\ stat'["jobs"].poolsWorkerCount = Heard("jobs", events).poolsWorkerCount
  BY <1>3, <1>4, HearAllFacts
<1> QED BY <1>1, <1>3, <1>5, TablesAre DEF Chosen

-----------------------------------------------------------------------------
(* The invariant of the tables *)

\* Each row of Jobs is the last job of one connected pool.
JobsOwned(rows, pJobs, ps) ==
    /\ \A j \in JobIds : rows[j] # NoRow <=> \E c \in Clients : pJobs[c] = j
    /\ \A c \in Clients : pJobs[c] # NoJob => c \in ps
    /\ \A c, d \in Clients : pJobs[c] = pJobs[d] /\ pJobs[c] # NoJob => c = d

StatInv ==
    /\ stat = [t \in Tables |-> stat[t]]
    /\ AllGood
    /\ stat["pools"].rows = RowsOver(Clients, pools, workersCount)
    /\ stat["workers"].rows = RowsOver(Workers, workers, workerPool)
    /\ stat["jobs"].poolsWorkerCount = workersCount
    /\ JobsOwned(stat["jobs"].rows, stat["jobs"].poolsJobs, pools)

\* A pool is lost with its job.
LEMMA JobOver ==
    ASSUME NEW rows \in [JobIds -> Nat \cup {NoRow}], NEW pJobs \in [Clients -> JobIds \cup {NoJob}],
           NEW ps, NEW c \in Clients, JobsOwned(rows, pJobs, ps)
    PROVE  JobsOwned(Without(rows, pJobs[c]), [pJobs EXCEPT ![c] = NoJob], ps \ {c})
<1> DEFINE r == Without(rows, pJobs[c])
           p == [pJobs EXCEPT ![c] = NoJob]
<1>1. \A d \in Clients : p[d] = IF d = c THEN NoJob ELSE pJobs[d]
  OBVIOUS
<1>2. \A j \in JobIds : r[j] = IF j = pJobs[c] THEN NoRow ELSE rows[j]
  BY DEF Without
<1> HIDE DEF r, p
<1>3. \A j \in JobIds : j # NoJob
  BY RowsAssumption
<1>4. ASSUME NEW j \in JobIds PROVE r[j] # NoRow <=> \E d \in Clients : p[d] = j
  BY <1>1, <1>2, <1>3 DEF JobsOwned
<1>5. \A d \in Clients : p[d] # NoJob => d \in ps \ {c}
  BY <1>1 DEF JobsOwned
<1>6. \A d, f \in Clients : p[d] = p[f] /\ p[d] # NoJob => d = f
  BY <1>1 DEF JobsOwned
<1> QED BY <1>4, <1>5, <1>6 DEF JobsOwned, r, p

\* A pool's job is replaced by one that nobody has.
LEMMA JobReplaced ==
    ASSUME NEW rows \in [JobIds -> Nat \cup {NoRow}], NEW pJobs \in [Clients -> JobIds \cup {NoJob}],
           NEW ps, NEW c \in Clients \cap ps, JobsOwned(rows, pJobs, ps),
           NEW j \in JobIds, \A d \in Clients : pJobs[d] # j, NEW n \in Nat
    PROVE  JobsOwned([Without(rows, pJobs[c]) EXCEPT ![j] = n], [pJobs EXCEPT ![c] = j], ps)
<1> DEFINE r == [Without(rows, pJobs[c]) EXCEPT ![j] = n]
           p == [pJobs EXCEPT ![c] = j]
<1>1. \A d \in Clients : p[d] = IF d = c THEN j ELSE pJobs[d]
  OBVIOUS
<1>2. \A i \in JobIds : r[i] = IF i = j THEN n ELSE IF i = pJobs[c] THEN NoRow ELSE rows[i]
  BY DEF Without
<1> HIDE DEF r, p
<1>3. n # NoRow /\ \A i \in JobIds : i # NoJob
  BY RowsAssumption
<1>4. ASSUME NEW i \in JobIds PROVE r[i] # NoRow <=> \E d \in Clients : p[d] = i
  BY <1>1, <1>2, <1>3 DEF JobsOwned
<1>5. \A d \in Clients : p[d] # NoJob => d \in ps
  BY <1>1 DEF JobsOwned
<1>6. \A d, f \in Clients : p[d] = p[f] /\ p[d] # NoJob => d = f
  BY <1>1 DEF JobsOwned
<1> QED BY <1>4, <1>5, <1>6 DEF JobsOwned, r, p

LEMMA InitEstablishesStatInv == StatInit => IInv /\ StatInv
<1> SUFFICES ASSUME StatInit PROVE IInv /\ StatInv
  OBVIOUS
<1>1. IInv
  BY InitEstablishesIInv DEF StatInit
<1>2. /\ stat = [t \in Tables |-> IF t = "jobs" THEN NewJobs ELSE NewTable(t)]
      /\ connected = {} /\ pools = {} /\ workers = {}
      /\ lost = [t \in Tables |-> [p \in Pages |-> {}]]
      /\ workersCount = [c \in Clients |-> 0] /\ workerPool = [w \in Workers |-> NoPool]
  BY DEF StatInit, Init
<1>3. \A t \in Tables : stat[t] = IF t = "jobs" THEN NewJobs ELSE NewTable(t)
  BY <1>2
<1>4. stat = [t \in Tables |-> stat[t]]
  BY <1>2
<1>5. ASSUME NEW t \in Tables
      PROVE  /\ stat[t] \in Records(t) /\ stat[t].rows = Empty(t) /\ stat[t].archive = {}
             /\ stat[t].sockets = <<>> /\ \A p \in Pages : stat[t].view[p] = Empty(t)
             /\ t = "jobs" => /\ stat[t].poolsJobs = [c \in Clients |-> NoJob]
                              /\ stat[t].poolsWorkerCount = [c \in Clients |-> 0]
  <2> DEFINE E == Empty(t)
             V == [p \in Pages |-> E]
             L == <<>>
             J == [c \in Clients |-> NoJob]
             C == [c \in Clients |-> 0]
  <2>1. /\ E \in Rows(t) /\ V \in Views(t) /\ L \in Seq(Pages \cup {Gone})
        /\ \A p \in Pages : V[p] = E
        /\ J \in [Clients -> JobIds \cup {NoJob}] /\ C \in [Clients -> Nat]
    BY DEF Empty, Rows, Views
  <2>2. stat[t] = IF t = "jobs"
                  THEN [rows |-> E, archive |-> {}, sockets |-> L, view |-> V, crowded |-> FALSE,
                        poolsJobs |-> J, poolsWorkerCount |-> C]
                  ELSE [rows |-> E, archive |-> {}, sockets |-> L, view |-> V, crowded |-> FALSE]
    BY <1>3, Zenon DEF NewJobs, NewTable
  <2> HIDE DEF E, V, L, J, C
  <2>3. CASE t = "jobs"
    <3>1. /\ stat[t].rows = E /\ stat[t].archive = {} /\ stat[t].sockets = L /\ stat[t].view = V
          /\ stat[t].poolsJobs = J /\ stat[t].poolsWorkerCount = C
      BY <2>2, <2>3
    <3>2. stat[t] \in Records(t)
      BY <2>1, <2>2, <2>3 DEF Records
    <3> QED BY <2>1, <3>1, <3>2 DEF E, L, J, C
  <2>4. CASE t # "jobs"
    <3>1. stat[t].rows = E /\ stat[t].archive = {} /\ stat[t].sockets = L /\ stat[t].view = V
      BY <2>2, <2>4
    <3>2. stat[t] \in Records(t)
      BY <2>1, <2>2, <2>4 DEF Records
    <3> QED BY <2>1, <2>4, <3>1, <3>2 DEF E, L
  <2> QED BY <2>3, <2>4
<1>6. \A t \in Tables : \A id \in RowIds[t] : Empty(t)[id] = NoRow
  BY DEF Empty
<1>7. AllGood
  <2>1. ASSUME NEW t \in Tables PROVE Sound(t, stat[t])
    <3>1. Range(stat[t].sockets) = {}
      BY <1>5 DEF Range
    <3> QED BY <1>2, <1>5, <1>6, <3>1 DEF Sound
  <2> QED BY <1>2, <1>5, <2>1 DEF AllGood, Good
<1>8. /\ stat["pools"].rows = RowsOver(Clients, pools, workersCount)
      /\ stat["workers"].rows = RowsOver(Workers, workers, workerPool)
  BY <1>2, <1>5, TablesAre DEF Empty, RowsOver
<1>9. JobsOwned(stat["jobs"].rows, stat["jobs"].poolsJobs, pools)
  <2>1. /\ \A j \in JobIds : stat["jobs"].rows[j] = NoRow
        /\ \A c \in Clients : stat["jobs"].poolsJobs[c] = NoJob
    BY <1>5, <1>6, TablesAre
  <2> QED BY <2>1, RowsAssumption DEF JobsOwned
<1>10. stat["jobs"].poolsWorkerCount = workersCount
  BY <1>2, <1>5, TablesAre
<1> QED BY <1>1, <1>4, <1>7, <1>8, <1>9, <1>10 DEF StatInv

\* What the invariant says of the proxy's maps and of Jobs' columns.
LEMMA StatFacts ==
    ASSUME IInv, StatInv
    PROVE  /\ connected \subseteq Pages /\ \A t \in Tables : Good(t, stat[t])
           /\ "pools" \in Tables /\ "workers" \in Tables /\ "jobs" \in Tables
           /\ stat["jobs"].rows \in [JobIds -> Nat \cup {NoRow}]
           /\ stat["jobs"].poolsJobs \in [Clients -> JobIds \cup {NoJob}]
           /\ pools \subseteq Clients /\ pools = {c \in Clients : phase[c] = "connected"}
           /\ workers \subseteq Workers
           /\ IsQueue(freeWorkers)
           /\ workersCount \in [Clients -> Nat]
           /\ workerPool \in [Workers -> Clients \cup {NoPool}]
           /\ poolWorkers \in [Clients -> SUBSET Workers]
           /\ \A c \in Clients : /\ workersCount[c] = Cardinality(poolWorkers[c])
                                 /\ poolWorkers[c] # {} => c \in pools
<1>1. /\ "pools" \in Tables /\ "workers" \in Tables /\ "jobs" \in Tables
      /\ RowIds["jobs"] = JobIds /\ Values["jobs"] = Nat
  BY TablesAre
<1>2. connected \subseteq Pages /\ \A t \in Tables : Good(t, stat[t])
  BY DEF StatInv, AllGood
<1>3. stat["jobs"].rows \in [JobIds -> Nat \cup {NoRow}]
  BY <1>1, <1>2, FieldTypes DEF Good, Rows
<1>4. stat["jobs"].poolsJobs \in [Clients -> JobIds \cup {NoJob}]
  BY <1>1, <1>2, FieldTypes DEF Good
<1>5. /\ pools \subseteq Clients /\ pools = {c \in Clients : phase[c] = "connected"}
      /\ workers \subseteq Workers
  BY DEF IInv, ClientInv, HeldIsLive
<1>6. /\ IsQueue(freeWorkers)
      /\ workersCount \in [Clients -> Nat]
      /\ workerPool \in [Workers -> Clients \cup {NoPool}]
      /\ poolWorkers \in [Clients -> SUBSET Workers]
      /\ \A c \in Clients : /\ workersCount[c] = Cardinality(poolWorkers[c])
                            /\ poolWorkers[c] # {} => c \in pools
  BY DEF IInv, Placed
<1> QED BY <1>1, <1>2, <1>3, <1>4, <1>5, <1>6

\* A pool connects.
LEMMA PoolConnectKeeps ==
    ASSUME IInv, StatInv, NEW c \in Clients, StatPoolConnect(c)
    PROVE  StatInv'
<1> DEFINE e == PoolEvent("connect", c)
           cnt == [workersCount EXCEPT ![c] = 0]
           pw == [poolWorkers EXCEPT ![c] = {}]
           ps == pools \cup {c}
<1>0. /\ connected \subseteq Pages /\ \A t \in Tables : Good(t, stat[t])
      /\ "pools" \in Tables /\ "workers" \in Tables /\ "jobs" \in Tables
      /\ ps \subseteq Clients /\ pools = {d \in Clients : phase[d] = "connected"}
      /\ IsQueue(freeWorkers)
      /\ workersCount \in [Clients -> Nat]
      /\ workerPool \in [Workers -> Clients \cup {NoPool}]
      /\ \A d \in Clients : /\ workersCount[d] = Cardinality(poolWorkers[d])
                            /\ poolWorkers[d] # {} => d \in pools
  BY StatFacts
<1>1. /\ PoolConnect(c) /\ HearAll(<<e>> \o Added(freeWorkers))
      /\ phase[c] = "opening" /\ pools' = ps /\ workers' = workers
      /\ FreeWorkersToPools(freeWorkers, ps, workerPool, pw, cnt)
  BY DEF StatPoolConnect, PoolConnect
<1>2. cnt = workersCount /\ workersCount[c] = 0
  BY <1>0, <1>1, FS_EmptySet
<1>3. e.name = "connect" /\ e.pool = c
  BY DEF PoolEvent, Event
<1> HIDE DEF e, cnt, pw
<1>4. Fits(e)
  BY <1>3 DEF Fits
<1>5. Hear("pools", stat["pools"], e).rows = RowsOver(Clients, ps, workersCount)
  <2>1. Hear("pools", stat["pools"], e).rows = [stat["pools"].rows EXCEPT ![e.pool] = 0]
    BY <1>0, <1>3, <1>4, PoolsHear
  <2>2. stat["pools"].rows = RowsOver(Clients, pools, workersCount)
    BY DEF StatInv
  <2> QED BY <1>2, <1>3, <2>1, <2>2 DEF RowsOver
<1>6. Hear("workers", stat["workers"], e).rows = RowsOver(Workers, workers, workerPool)
  <2>1. Hear("workers", stat["workers"], e).rows = stat["workers"].rows
    BY <1>0, <1>3, <1>4, WorkersHear
  <2> QED BY <2>1 DEF StatInv
<1>7. /\ Hear("jobs", stat["jobs"], e).poolsWorkerCount = workersCount
      /\ Hear("jobs", stat["jobs"], e).rows = stat["jobs"].rows
      /\ Hear("jobs", stat["jobs"], e).poolsJobs = stat["jobs"].poolsJobs
  <2>1. Hear("jobs", stat["jobs"], e).poolsWorkerCount = stat["jobs"].poolsWorkerCount
    <3>1. CountsFollow(stat["jobs"], e, Hear("jobs", stat["jobs"], e))
      BY <1>0, <1>3, <1>4, JobsHear
    <3> QED BY <1>0, <1>3, <1>4, <3>1 DEF CountsFollow
  <2>2. /\ Hear("jobs", stat["jobs"], e).rows = stat["jobs"].rows
        /\ Hear("jobs", stat["jobs"], e).poolsJobs = stat["jobs"].poolsJobs
    <3>1. RowsFollow(stat["jobs"], e, Hear("jobs", stat["jobs"], e))
      BY <1>0, <1>3, <1>4, JobsHear
    <3> QED BY <1>0, <1>3, <1>4, <3>1 DEF RowsFollow
  <2> QED BY <2>1, <2>2 DEF StatInv
<1>8. RowsAfter(e, ps, workers, workersCount, workerPool)
  BY <1>0, <1>5, <1>6, <1>7 DEF RowsAfter
<1>9. AllGood
  BY <1>0 DEF AllGood
<1>10. /\ stat' = [t \in Tables |-> stat'[t]] /\ AllGood'
       /\ stat'["pools"].rows = RowsOver(Clients, ps, workersCount')
       /\ stat'["workers"].rows = RowsOver(Workers, workers, workerPool')
       /\ stat'["jobs"].poolsWorkerCount = workersCount'
       /\ stat'["jobs"].rows = stat["jobs"].rows
       /\ stat'["jobs"].poolsJobs = stat["jobs"].poolsJobs
  <2> HIDE DEF ps
  <2>1. FreeWorkersToPools(freeWorkers, ps, workerPool, pw, workersCount)
    BY <1>1, <1>2
  <2> QED BY <1>0, <1>1, <1>4, <1>7, <1>8, <1>9, <2>1, DistributionHeard
<1>11. JobsOwned(stat["jobs"].rows, stat["jobs"].poolsJobs, ps)
  BY DEF StatInv, JobsOwned
<1> QED BY <1>1, <1>10, <1>11 DEF StatInv

\* A machine connects.
LEMMA WorkerConnectKeeps ==
    ASSUME IInv, StatInv, NEW w \in Workers, StatWorkerConnect(w)
    PROVE  StatInv'
<1> DEFINE e == WorkerEvent("workerConnect", w)
           q == Append(freeWorkers, w)
           ws == workers \cup {w}
<1>0. /\ connected \subseteq Pages /\ \A t \in Tables : Good(t, stat[t])
      /\ "pools" \in Tables /\ "workers" \in Tables /\ "jobs" \in Tables
      /\ pools \subseteq Clients
      /\ workersCount \in [Clients -> Nat]
      /\ workerPool \in [Workers -> Clients \cup {NoPool}]
  BY StatFacts
<1>1. /\ WorkerConnect(w) /\ HearAll(<<e>> \o Added(q))
      /\ w \notin workers /\ workers' = ws /\ pools' = pools
      /\ FreeWorkersToPools(q, pools, workerPool, poolWorkers, workersCount)
  BY DEF StatWorkerConnect, WorkerConnect
<1>2. IsQueue(q) /\ workerPool[w] = NoPool
  <2>1. Placed(freeWorkers, workers, workerPool, pools, poolWorkers, workersCount) /\ workers \subseteq Workers
    BY DEF IInv, ClientInv
  <2>2. Placed(q, ws, workerPool, pools, poolWorkers, workersCount)
    BY <1>1, <2>1, JoinKeepsPlaced
  <2> QED BY <1>1, <2>1, <2>2 DEF Placed
<1>3. e.name = "workerConnect" /\ e.worker = w
  BY DEF WorkerEvent, Event
<1> HIDE DEF e, q
<1>4. Fits(e)
  BY <1>3 DEF Fits
<1>5. Hear("pools", stat["pools"], e).rows = RowsOver(Clients, pools, workersCount)
  <2>1. Hear("pools", stat["pools"], e).rows = stat["pools"].rows
    BY <1>0, <1>3, <1>4, PoolsHear
  <2> QED BY <2>1 DEF StatInv
<1>6. Hear("workers", stat["workers"], e).rows = RowsOver(Workers, ws, workerPool)
  <2>1. Hear("workers", stat["workers"], e).rows = [stat["workers"].rows EXCEPT ![e.worker] = NoPool]
    BY <1>0, <1>3, <1>4, WorkersHear
  <2>2. stat["workers"].rows = RowsOver(Workers, workers, workerPool)
    BY DEF StatInv
  <2> QED BY <1>2, <1>3, <2>1, <2>2 DEF RowsOver
<1>7. /\ Hear("jobs", stat["jobs"], e).poolsWorkerCount = workersCount
      /\ Hear("jobs", stat["jobs"], e).rows = stat["jobs"].rows
      /\ Hear("jobs", stat["jobs"], e).poolsJobs = stat["jobs"].poolsJobs
  <2>1. Hear("jobs", stat["jobs"], e).poolsWorkerCount = stat["jobs"].poolsWorkerCount
    <3>1. CountsFollow(stat["jobs"], e, Hear("jobs", stat["jobs"], e))
      BY <1>0, <1>3, <1>4, JobsHear
    <3> QED BY <1>0, <1>3, <1>4, <3>1 DEF CountsFollow
  <2>2. /\ Hear("jobs", stat["jobs"], e).rows = stat["jobs"].rows
        /\ Hear("jobs", stat["jobs"], e).poolsJobs = stat["jobs"].poolsJobs
    <3>1. RowsFollow(stat["jobs"], e, Hear("jobs", stat["jobs"], e))
      BY <1>0, <1>3, <1>4, JobsHear
    <3> QED BY <1>0, <1>3, <1>4, <3>1 DEF RowsFollow
  <2> QED BY <2>1, <2>2 DEF StatInv
<1>8. RowsAfter(e, pools, ws, workersCount, workerPool)
  BY <1>0, <1>5, <1>6, <1>7 DEF RowsAfter
<1>9. AllGood
  BY <1>0 DEF AllGood
<1>10. /\ stat' = [t \in Tables |-> stat'[t]] /\ AllGood'
       /\ stat'["pools"].rows = RowsOver(Clients, pools, workersCount')
       /\ stat'["workers"].rows = RowsOver(Workers, ws, workerPool')
       /\ stat'["jobs"].poolsWorkerCount = workersCount'
       /\ stat'["jobs"].rows = stat["jobs"].rows
       /\ stat'["jobs"].poolsJobs = stat["jobs"].poolsJobs
  <2> HIDE DEF ws
  <2> QED BY <1>0, <1>1, <1>2, <1>4, <1>7, <1>8, <1>9, DistributionHeard
<1> QED BY <1>1, <1>10 DEF StatInv

\* A connection closes.
LEMMA SocketCloseKeeps ==
    ASSUME IInv, StatInv, NEW c \in Clients, StatSocketClose(c)
    PROVE  StatInv'
<1>0. /\ connected \subseteq Pages /\ \A t \in Tables : Good(t, stat[t])
      /\ "pools" \in Tables /\ "workers" \in Tables /\ "jobs" \in Tables
      /\ stat["jobs"].rows \in [JobIds -> Nat \cup {NoRow}]
      /\ stat["jobs"].poolsJobs \in [Clients -> JobIds \cup {NoJob}]
      /\ workersCount \in [Clients -> Nat]
      /\ workerPool \in [Workers -> Clients \cup {NoPool}]
      /\ poolWorkers \in [Clients -> SUBSET Workers]
      /\ workersCount[c] = Cardinality(poolWorkers[c])
  BY StatFacts
<1>1. workers' = workers
  BY DEF StatSocketClose, SocketClose
<1>2. CASE phase[c] # "connected"
  <2>1. UNCHANGED <<pools, workersCount, workerPool>> /\ HearAll(<<>>)
    BY <1>2 DEF StatSocketClose, SocketClose, assignVars
  <2>2. \A t \in Tables : Heard(t, <<>>) = stat[t]
    BY HeardNone
  <2>3. /\ stat' = [t \in Tables |-> stat'[t]] /\ AllGood'
        /\ \A t \in Tables : stat'[t].rows = Heard(t, <<>>).rows
        /\ stat'["jobs"].poolsJobs = Heard("jobs", <<>>).poolsJobs
        /\ stat'["jobs"].poolsWorkerCount = Heard("jobs", <<>>).poolsWorkerCount
    <3>1. AllGood
      BY DEF StatInv
    <3> QED BY <1>0, <2>1, <2>2, <3>1, HearAllFacts
  <2> QED BY <1>0, <1>1, <2>1, <2>2, <2>3 DEF StatInv
<1>3. CASE phase[c] = "connected"
  <2>0. PICK order, k : /\ order = CHOOSE s \in InKeyOrder(poolWorkers[c]) : TRUE
                        /\ k = workersCount[c]
    OBVIOUS
  <2> DEFINE events == LostEvents(c, k, order)
             taken == PoolsTaken(k, order, workerPool)
  <2>1. PoolDisconnect(c) /\ HearAll(<<PoolEvent("disconnect", c)>> \o Removed(c))
    BY <1>3 DEF StatSocketClose, SocketClose
  <2>2. order \in InKeyOrder(poolWorkers[c])
    BY <2>0, <2>1 DEF PoolDisconnect
  <2>3. order \in [1..k -> poolWorkers[c]] /\ poolWorkers[c] \subseteq {order[i] : i \in DOMAIN order}
    BY <1>0, <2>0, <2>2 DEF InKeyOrder
  <2>4. k \in Nat /\ poolWorkers[c] \subseteq Workers
    BY <1>0, <2>0
  <2>5. Removed(c) = Dels(c, k, order)
    BY <2>0, <2>3 DEF Removed, Dels
  <2>6. DOMAIN order = 1..k /\ \A i \in 1..k : order[i] \in poolWorkers[c] /\ order[i] \in Workers
    BY <2>3, <2>4
  <2>7. /\ pools' = pools \ {c} /\ workersCount' = [workersCount EXCEPT ![c] = 0]
        /\ workerPool' = taken
    <3>1. \A w \in Workers : w \in poolWorkers[c] <=> \E i \in 1..k : order[i] = w
      BY <2>3, <2>6
    <3>2. workerPool' = [w \in Workers |-> IF w \in poolWorkers[c] THEN NoPool ELSE workerPool[w]]
      BY <2>1 DEF PoolDisconnect
    <3>3. workerPool' = taken
      BY <3>1, <3>2 DEF PoolsTaken
    <3> QED BY <2>1, <3>3 DEF PoolDisconnect
  <2>8. LET after(t) == Heard(t, events)
            old == stat["jobs"]
        IN  /\ \A t \in Tables : Good(t, after(t))
            /\ after("pools").rows = RowsOver(Clients, pools \ {c}, workersCount)
            /\ after("workers").rows = RowsOver(Workers, workers, taken)
            /\ after("jobs").poolsWorkerCount = CountsTaken(k, c, workersCount)
            /\ after("jobs").rows = Without(old.rows, old.poolsJobs[c])
            /\ after("jobs").poolsJobs = JobsTaken(c, old.poolsJobs)
    <3>1. AllGood /\ RowsNow(pools, workers, workersCount, workerPool)
      BY <1>0 DEF StatInv, RowsNow
    <3>2. TakenAway(k, order, c, workersCount)
      <4>1. k <= workersCount[c]
        BY <1>0, <2>0
      <4> QED BY <2>4, <2>6, <4>1 DEF TakenAway
    <3> QED BY <3>1, <3>2, DelsHeard
  <2>9. HearAll(events)
    BY <2>1, <2>5 DEF LostEvents
  <2> HIDE DEF events, taken
  <2>10. /\ stat' = [t \in Tables |-> stat'[t]] /\ AllGood'
         /\ \A t \in Tables : stat'[t].rows = Heard(t, events).rows
         /\ stat'["jobs"].poolsJobs = Heard("jobs", events).poolsJobs
         /\ stat'["jobs"].poolsWorkerCount = Heard("jobs", events).poolsWorkerCount
    <3>1. AllGood
      BY DEF StatInv
    <3> QED BY <2>8, <2>9, <3>1, HearAllFacts
  <2>11. /\ CountsTaken(k, c, workersCount) = workersCount'
         /\ RowsOver(Clients, pools \ {c}, workersCount) = RowsOver(Clients, pools', workersCount')
    <3>1. workersCount[c] - k = 0
      BY <1>0, <2>0
    <3> QED BY <1>0, <2>7, <3>1 DEF RowsOver, CountsTaken
  <2>12. JobsOwned(stat'["jobs"].rows, stat'["jobs"].poolsJobs, pools')
    <3>1. JobsOwned(stat["jobs"].rows, stat["jobs"].poolsJobs, pools)
      BY DEF StatInv
    <3>2. JobsOwned(Without(stat["jobs"].rows, stat["jobs"].poolsJobs[c]),
                    JobsTaken(c, stat["jobs"].poolsJobs), pools \ {c})
      BY <1>0, <3>1, JobOver DEF JobsTaken
    <3> QED BY <1>0, <2>7, <2>8, <2>10, <3>2
  <2> QED BY <1>0, <1>1, <2>7, <2>8, <2>10, <2>11, <2>12 DEF StatInv
<1> QED BY <1>2, <1>3

\* One event of which the tables hear.
LEMMA OneEventHeard ==
    ASSUME AllGood, NEW e, Fits(e), NEW events, events = <<e>>, HearAll(events)
    PROVE  /\ stat' = [t \in Tables |-> stat'[t]] /\ AllGood'
           /\ \A t \in Tables : stat'[t].rows = Hear(t, stat[t], e).rows
           /\ stat'["jobs"].poolsJobs = Hear("jobs", stat["jobs"], e).poolsJobs
           /\ stat'["jobs"].poolsWorkerCount = Hear("jobs", stat["jobs"], e).poolsWorkerCount
<1>1. connected \subseteq Pages /\ \A t \in Tables : Good(t, stat[t])
  BY DEF AllGood
<1>2. \A t \in Tables : Good(t, Hear(t, stat[t], e))
  <2>1. Good("pools", stat["pools"]) /\ Good("workers", stat["workers"]) /\ Good("jobs", stat["jobs"])
    BY <1>1, TablesAre
  <2>2. Good("pools", Hear("pools", stat["pools"], e))
    BY <1>1, <2>1, PoolsHear
  <2>3. Good("workers", Hear("workers", stat["workers"], e))
    BY <1>1, <2>1, WorkersHear
  <2>4. Good("jobs", Hear("jobs", stat["jobs"], e))
    BY <1>1, <2>1, JobsHear
  <2> QED BY <2>2, <2>3, <2>4, TablesAre
<1>3. \A t : Heard(t, events) = Hear(t, stat[t], e)
  BY HeardOne
<1> QED BY <1>1, <1>2, <1>3, HearAllFacts

\* A machine disconnects that waited for a pool.
LEMMA FreeWorkerDisconnectKeeps ==
    ASSUME IInv, StatInv, NEW w \in Workers, StatWorkerDisconnect(w), workerPool[w] = NoPool
    PROVE  StatInv'
<1> DEFINE e == WorkerEvent("workerDisconnect", w)
           events == <<e>>
<1>0. /\ connected \subseteq Pages /\ \A t \in Tables : Good(t, stat[t])
      /\ "pools" \in Tables /\ "workers" \in Tables /\ "jobs" \in Tables
      /\ workers \subseteq Workers
      /\ workerPool \in [Workers -> Clients \cup {NoPool}]
  BY StatFacts
<1>1. /\ w \in workers /\ workers' = workers \ {w} /\ UNCHANGED <<pools, workersCount>>
      /\ workerPool' = [workerPool EXCEPT ![w] = NoPool]
  BY DEF StatWorkerDisconnect, WorkerDisconnect
<1>2. HearAll(events)
  <2>1. HearAll(<<e>> \o <<>>)
    BY DEF StatWorkerDisconnect
  <2>2. <<e>> \in Seq({e})
    OBVIOUS
  <2>3. <<e>> \o <<>> = <<e>>
    BY <2>2, ConcatEmptySeq
  <2> QED BY <2>1, <2>3
<1>3. e.name = "workerDisconnect" /\ e.worker = w
  BY DEF WorkerEvent, Event
<1> HIDE DEF e
<1>4. Fits(e)
  BY <1>3 DEF Fits
<1>5. /\ stat' = [t \in Tables |-> stat'[t]] /\ AllGood'
      /\ \A t \in Tables : stat'[t].rows = Hear(t, stat[t], e).rows
      /\ stat'["jobs"].poolsJobs = Hear("jobs", stat["jobs"], e).poolsJobs
      /\ stat'["jobs"].poolsWorkerCount = Hear("jobs", stat["jobs"], e).poolsWorkerCount
  BY <1>2, <1>4, OneEventHeard DEF StatInv
<1>6. stat'["pools"].rows = stat["pools"].rows
  <2>1. Hear("pools", stat["pools"], e).rows = stat["pools"].rows
    BY <1>0, <1>3, <1>4, PoolsHear
  <2> QED BY <1>0, <1>5, <2>1
<1>7. stat'["workers"].rows = RowsOver(Workers, workers', workerPool')
  <2>1. Hear("workers", stat["workers"], e).rows = [stat["workers"].rows EXCEPT ![e.worker] = NoRow]
    BY <1>0, <1>3, <1>4, WorkersHear
  <2>2. stat'["workers"].rows = [stat["workers"].rows EXCEPT ![w] = NoRow]
    BY <1>0, <1>3, <1>5, <2>1
  <2>3. stat["workers"].rows = RowsOver(Workers, workers, workerPool)
    BY DEF StatInv
  <2> QED BY <1>0, <1>1, <2>2, <2>3 DEF RowsOver
<1>8. /\ stat'["jobs"].poolsWorkerCount = stat["jobs"].poolsWorkerCount
      /\ stat'["jobs"].rows = stat["jobs"].rows
      /\ stat'["jobs"].poolsJobs = stat["jobs"].poolsJobs
  <2>1. Hear("jobs", stat["jobs"], e).poolsWorkerCount = stat["jobs"].poolsWorkerCount
    <3>1. CountsFollow(stat["jobs"], e, Hear("jobs", stat["jobs"], e))
      BY <1>0, <1>3, <1>4, JobsHear
    <3> QED BY <1>0, <1>3, <1>4, <3>1 DEF CountsFollow
  <2>2. /\ Hear("jobs", stat["jobs"], e).rows = stat["jobs"].rows
        /\ Hear("jobs", stat["jobs"], e).poolsJobs = stat["jobs"].poolsJobs
    <3>1. RowsFollow(stat["jobs"], e, Hear("jobs", stat["jobs"], e))
      BY <1>0, <1>3, <1>4, JobsHear
    <3> QED BY <1>0, <1>3, <1>4, <3>1 DEF RowsFollow
  <2> QED BY <1>0, <1>5, <2>1, <2>2
<1> QED BY <1>1, <1>5, <1>6, <1>7, <1>8 DEF StatInv

\* Two events.
LEMMA HeardTwo ==
    ASSUME NEW t, NEW e, NEW f
    PROVE  Heard(t, <<e>> \o <<f>>) = Hear(t, Hear(t, stat[t], e), f)
<1> DEFINE X == {e, f}
           events == <<e>> \o <<f>>
<1>1. <<e>> \in Seq(X) /\ <<f>> \in Seq(X) /\ Len(<<e>>) = 1 /\ Len(<<f>>) = 1
  OBVIOUS
<1>2. <<e>>[1] = e /\ <<f>>[1] = f
  OBVIOUS
<1>3. /\ Len(events) = 1 + 1
      /\ \A i \in 1..(1 + 1) : events[i] = IF i <= 1 THEN <<e>>[i] ELSE <<f>>[i - 1]
  BY <1>1, ConcatProperties
<1> HIDE DEF events
<1>4. Len(events) = 2 /\ events[1] = e /\ events[2] = f
  BY <1>2, <1>3
<1>5. PICK heard : /\ heard[0] = stat[t]
                   /\ \A i \in 1..2 : heard[i] = Hear(t, heard[i - 1], events[i])
                   /\ Heard(t, events) = heard[2]
  BY <1>4, HeardSteps
<1>6. 1 \in 1..2 /\ 2 \in 1..2 /\ 1 - 1 = 0 /\ 2 - 1 = 1
  OBVIOUS
<1>7. heard[1] = Hear(t, stat[t], e) /\ heard[2] = Hear(t, heard[1], f)
  BY <1>4, <1>5, <1>6
<1> QED BY <1>5, <1>7 DEF events

\* A machine disconnects from its pool: Workers has no row for it any more
\* when it hears that the pool lost it.
LEMMA PoolWorkerDisconnectKeeps ==
    ASSUME IInv, StatInv, NEW w \in Workers, StatWorkerDisconnect(w), workerPool[w] # NoPool
    PROVE  StatInv'
<1> DEFINE p == workerPool[w]
           e == WorkerEvent("workerDisconnect", w)
           f == Event("del", p, w, NoJob)
           after(t) == Hear(t, stat[t], e)
           events == <<e>> \o <<f>>
<1>0. /\ connected \subseteq Pages /\ \A t \in Tables : Good(t, stat[t])
      /\ "pools" \in Tables /\ "workers" \in Tables /\ "jobs" \in Tables
      /\ workers \subseteq Workers
      /\ workersCount \in [Clients -> Nat]
      /\ workerPool \in [Workers -> Clients \cup {NoPool}]
  BY StatFacts
<1>1. /\ w \in workers /\ workers' = workers \ {w} /\ UNCHANGED pools
      /\ workersCount' = [workersCount EXCEPT ![p] = @ - 1]
      /\ workerPool' = [workerPool EXCEPT ![w] = NoPool]
      /\ HearAll(events)
  BY DEF StatWorkerDisconnect, WorkerDisconnect, DelWorker
<1>2. p \in Clients /\ p \in pools /\ workersCount[p] # 0
  <2>1. p \in Clients
    BY <1>0
  <2>2. /\ w \in poolWorkers[p] /\ p \in pools /\ poolWorkers[p] \subseteq workers
        /\ workersCount[p] = Cardinality(poolWorkers[p])
    BY <1>1, <2>1 DEF IInv, Placed
  <2>3. IsFiniteSet(poolWorkers[p])
    BY <1>0, <2>2, WorkersAssumption, FS_Subset
  <2> QED BY <2>1, <2>2, <2>3, FS_EmptySet
<1>3. /\ e.name = "workerDisconnect" /\ e.worker = w
      /\ f.name = "del" /\ f.worker = w /\ f.pool = p
  BY DEF WorkerEvent, Event
<1> HIDE DEF e, f, p
<1>4. Fits(e) /\ Fits(f)
  BY <1>2, <1>3 DEF Fits
<1>5. /\ Good("pools", after("pools")) /\ after("pools").rows = stat["pools"].rows
      /\ Good("workers", after("workers"))
      /\ after("workers").rows = [stat["workers"].rows EXCEPT ![w] = NoRow]
      /\ Good("jobs", after("jobs"))
      /\ after("jobs").rows = stat["jobs"].rows /\ after("jobs").poolsJobs = stat["jobs"].poolsJobs
      /\ after("jobs").poolsWorkerCount = workersCount
  <2>1. Good("pools", after("pools")) /\ after("pools").rows = stat["pools"].rows
    BY <1>0, <1>3, <1>4, PoolsHear
  <2>2. /\ Good("workers", after("workers"))
        /\ after("workers").rows = [stat["workers"].rows EXCEPT ![w] = NoRow]
    <3>1. /\ Good("workers", after("workers"))
          /\ after("workers").rows = [stat["workers"].rows EXCEPT ![e.worker] = NoRow]
      BY <1>0, <1>3, <1>4, WorkersHear
    <3> QED BY <1>3, <3>1
  <2>3. Good("jobs", after("jobs"))
    BY <1>0, <1>4, JobsHear
  <2>4. after("jobs").rows = stat["jobs"].rows /\ after("jobs").poolsJobs = stat["jobs"].poolsJobs
    <3>1. RowsFollow(stat["jobs"], e, after("jobs"))
      BY <1>0, <1>3, <1>4, JobsHear
    <3> QED BY <1>0, <1>3, <1>4, <3>1 DEF RowsFollow
  <2>5. after("jobs").poolsWorkerCount = stat["jobs"].poolsWorkerCount
    <3>1. CountsFollow(stat["jobs"], e, after("jobs"))
      BY <1>0, <1>3, <1>4, JobsHear
    <3> QED BY <1>0, <1>3, <1>4, <3>1 DEF CountsFollow
  <2> QED BY <2>1, <2>2, <2>3, <2>4, <2>5 DEF StatInv
<1> HIDE DEF after
<1>6. \A t : Heard(t, events) = Hear(t, after(t), f)
  BY HeardTwo DEF after
<1> HIDE DEF events
<1>7. /\ Good("pools", Heard("pools", events))
      /\ Heard("pools", events).rows = Counted(stat["pools"].rows, p, -1)
      /\ Good("workers", Heard("workers", events))
      /\ Heard("workers", events).rows = Moved([stat["workers"].rows EXCEPT ![w] = NoRow], w, NoPool)
      /\ Good("jobs", Heard("jobs", events))
      /\ Heard("jobs", events).rows = stat["jobs"].rows
      /\ Heard("jobs", events).poolsJobs = stat["jobs"].poolsJobs
      /\ Heard("jobs", events).poolsWorkerCount = workersCount'
  <2>1. /\ Good("pools", Heard("pools", events))
        /\ Heard("pools", events).rows = Counted(stat["pools"].rows, p, -1)
    <3>1. PICK a : a = after("pools")
      OBVIOUS
    <3>2. Good("pools", a) /\ a.rows = stat["pools"].rows
      BY <1>5, <3>1
    <3>3. Good("pools", Hear("pools", a, f)) /\ Hear("pools", a, f).rows = Counted(a.rows, f.pool, -1)
      BY <1>0, <1>3, <1>4, <3>2, PoolsHear
    <3> QED BY <1>3, <1>6, <3>1, <3>2, <3>3
  <2>2. /\ Good("workers", Heard("workers", events))
        /\ Heard("workers", events).rows = Moved(after("workers").rows, w, NoPool)
    <3>1. PICK a : a = after("workers")
      OBVIOUS
    <3>2. Good("workers", a)
      BY <1>5, <3>1
    <3>3. Good("workers", Hear("workers", a, f)) /\ Hear("workers", a, f).rows = Moved(a.rows, f.worker, NoPool)
      BY <1>0, <1>3, <1>4, <3>2, WorkersHear
    <3> QED BY <1>3, <1>6, <3>1, <3>3
  <2>3. PICK b : b = after("jobs")
    OBVIOUS
  <2>4. Good("jobs", b)
    BY <1>5, <2>3
  <2>5. /\ Good("jobs", Heard("jobs", events))
        /\ Heard("jobs", events).rows = after("jobs").rows
        /\ Heard("jobs", events).poolsJobs = after("jobs").poolsJobs
        /\ Heard("jobs", events).poolsWorkerCount =
             [after("jobs").poolsWorkerCount EXCEPT ![p] = IF @ = 0 THEN 0 ELSE @ - 1]
    <3>1. Good("jobs", Hear("jobs", b, f))
      BY <1>0, <1>4, <2>4, JobsHear
    <3>2. Hear("jobs", b, f).rows = b.rows /\ Hear("jobs", b, f).poolsJobs = b.poolsJobs
      <4>1. RowsFollow(b, f, Hear("jobs", b, f))
        BY <1>0, <1>3, <1>4, <2>4, JobsHear
      <4> QED BY <1>0, <1>3, <1>4, <2>4, <4>1 DEF RowsFollow
    <3>3. Hear("jobs", b, f).poolsWorkerCount =
            [b.poolsWorkerCount EXCEPT ![f.pool] = IF @ = 0 THEN 0 ELSE @ - 1]
      <4>1. CountsFollow(b, f, Hear("jobs", b, f))
        BY <1>0, <1>3, <1>4, <2>4, JobsHear
      <4> QED BY <1>0, <1>3, <1>4, <2>4, <4>1 DEF CountsFollow
    <3> QED BY <1>3, <1>6, <2>3, <3>1, <3>2, <3>3
  <2>6. [workersCount EXCEPT ![p] = IF @ = 0 THEN 0 ELSE @ - 1] = workersCount'
    BY <1>1, <1>2
  <2> QED BY <1>5, <2>1, <2>2, <2>5, <2>6
<1>8. /\ stat' = [t \in Tables |-> stat'[t]] /\ AllGood'
      /\ \A t \in Tables : stat'[t].rows = Heard(t, events).rows
      /\ stat'["jobs"].poolsJobs = Heard("jobs", events).poolsJobs
      /\ stat'["jobs"].poolsWorkerCount = Heard("jobs", events).poolsWorkerCount
  BY <1>1, <1>7, HearAllFacts, TablesAre DEF StatInv
<1>9. Counted(stat["pools"].rows, p, -1) = RowsOver(Clients, pools, workersCount')
  <2>1. stat["pools"].rows = RowsOver(Clients, pools, workersCount)
    BY DEF StatInv
  <2>2. \A c \in Clients : workersCount[c] # NoRow
    BY <1>0, RowsAssumption
  <2>3. /\ workersCount[p] + (-1) = workersCount[p] - 1
        /\ \A c \in Clients : workersCount'[c] = IF c = p THEN workersCount[c] - 1 ELSE workersCount[c]
    BY <1>0, <1>1, <1>2
  <2> QED BY <1>2, <2>1, <2>2, <2>3 DEF Counted, RowsOver
<1>10. Moved([stat["workers"].rows EXCEPT ![w] = NoRow], w, NoPool) = RowsOver(Workers, workers', workerPool')
  <2>1. stat["workers"].rows = RowsOver(Workers, workers, workerPool)
    BY DEF StatInv
  <2> QED BY <1>0, <1>1, <2>1 DEF Moved, RowsOver
<1> QED BY <1>0, <1>1, <1>7, <1>8, <1>9, <1>10 DEF StatInv

\* A pool's next job.
LEMMA AcceptedJobKeeps ==
    ASSUME IInv, StatInv, NEW c \in Clients, NEW j \in JobIds, AcceptedJob(c, j)
    PROVE  StatInv'
<1> DEFINE e == Event("job", c, NoRow, j)
           events == <<e>>
           pJobs == stat["jobs"].poolsJobs
<1>0. /\ connected \subseteq Pages /\ \A t \in Tables : Good(t, stat[t])
      /\ "pools" \in Tables /\ "workers" \in Tables /\ "jobs" \in Tables
      /\ stat["jobs"].rows \in [JobIds -> Nat \cup {NoRow}] /\ pJobs \in [Clients -> JobIds \cup {NoJob}]
      /\ workersCount \in [Clients -> Nat] /\ c \in pools
  BY StatFacts DEF AcceptedJob
<1>1. /\ \A d \in Clients : pJobs[d] # j
      /\ HearAll(events)
      /\ UNCHANGED <<pools, workers, workerPool, workersCount>>
  BY DEF AcceptedJob, vars
<1>2. e.name = "job" /\ e.pool = c /\ e.job = j
  BY DEF Event
<1> HIDE DEF e
<1>3. Fits(e)
  BY <1>2 DEF Fits
<1>4. /\ stat' = [t \in Tables |-> stat'[t]] /\ AllGood'
      /\ \A t \in Tables : stat'[t].rows = Hear(t, stat[t], e).rows
      /\ stat'["jobs"].poolsJobs = Hear("jobs", stat["jobs"], e).poolsJobs
      /\ stat'["jobs"].poolsWorkerCount = Hear("jobs", stat["jobs"], e).poolsWorkerCount
  BY <1>1, <1>3, OneEventHeard DEF StatInv
<1>5. stat'["pools"].rows = stat["pools"].rows
  <2>1. Hear("pools", stat["pools"], e).rows = stat["pools"].rows
    BY <1>0, <1>2, <1>3, PoolsHear
  <2> QED BY <1>0, <1>4, <2>1
<1>6. stat'["workers"].rows = stat["workers"].rows
  <2>1. Hear("workers", stat["workers"], e).rows = stat["workers"].rows
    BY <1>0, <1>2, <1>3, WorkersHear
  <2> QED BY <1>0, <1>4, <2>1
<1>7. /\ stat'["jobs"].poolsWorkerCount = workersCount
      /\ JobsOwned(stat'["jobs"].rows, stat'["jobs"].poolsJobs, pools)
  <2>1. Hear("jobs", stat["jobs"], e).poolsWorkerCount = stat["jobs"].poolsWorkerCount
    <3>1. CountsFollow(stat["jobs"], e, Hear("jobs", stat["jobs"], e))
      BY <1>0, <1>2, <1>3, JobsHear
    <3> QED BY <1>0, <1>2, <1>3, <3>1 DEF CountsFollow
  <2>2. /\ Hear("jobs", stat["jobs"], e).rows =
             [Without(stat["jobs"].rows, pJobs[e.pool])
                EXCEPT ![e.job] = stat["jobs"].poolsWorkerCount[e.pool]]
        /\ Hear("jobs", stat["jobs"], e).poolsJobs = [pJobs EXCEPT ![e.pool] = e.job]
    <3>1. RowsFollow(stat["jobs"], e, Hear("jobs", stat["jobs"], e))
      BY <1>0, <1>2, <1>3, JobsHear
    <3> QED BY <1>0, <1>2, <1>3, <3>1 DEF RowsFollow
  <2>3. /\ stat["jobs"].poolsWorkerCount = workersCount
        /\ JobsOwned(stat["jobs"].rows, pJobs, pools)
    BY DEF StatInv
  <2>4. JobsOwned([Without(stat["jobs"].rows, pJobs[c]) EXCEPT ![j] = workersCount[c]],
                  [pJobs EXCEPT ![c] = j], pools)
    <3> HIDE DEF pJobs
    <3> QED BY <1>0, <1>1, <2>3, JobReplaced
  <2>5. /\ stat'["jobs"].rows = [Without(stat["jobs"].rows, pJobs[c]) EXCEPT ![j] = workersCount[c]]
        /\ stat'["jobs"].poolsJobs = [pJobs EXCEPT ![c] = j]
    <3> HIDE DEF pJobs
    <3> QED BY <1>0, <1>2, <1>4, <2>2, <2>3
  <2> QED BY <1>0, <1>4, <2>1, <2>3, <2>4, <2>5
<1> QED BY <1>1, <1>4, <1>5, <1>6, <1>7 DEF StatInv

\* A pool answers a share: no row changes.
LEMMA ShareAnsweredKeeps ==
    ASSUME IInv, StatInv, NEW c \in Clients, NEW w \in Workers, NEW j, ShareAnswered(c, w, j)
    PROVE  StatInv'
<1> DEFINE e == Event("share", c, w, j)
           events == <<e>>
<1>0. /\ connected \subseteq Pages /\ \A t \in Tables : Good(t, stat[t])
      /\ "pools" \in Tables /\ "workers" \in Tables /\ "jobs" \in Tables
  BY StatFacts
<1>1. HearAll(events) /\ UNCHANGED <<pools, workers, workerPool, workersCount>>
  BY DEF ShareAnswered, vars
<1>2. e.name = "share" /\ e.pool = c /\ e.worker = w
  BY DEF Event
<1> HIDE DEF e
<1>3. Fits(e)
  BY <1>2 DEF Fits
<1>4. /\ stat' = [t \in Tables |-> stat'[t]] /\ AllGood'
      /\ \A t \in Tables : stat'[t].rows = Hear(t, stat[t], e).rows
      /\ stat'["jobs"].poolsJobs = Hear("jobs", stat["jobs"], e).poolsJobs
      /\ stat'["jobs"].poolsWorkerCount = Hear("jobs", stat["jobs"], e).poolsWorkerCount
  BY <1>1, <1>3, OneEventHeard DEF StatInv
<1>5. stat'["pools"].rows = stat["pools"].rows
  <2>1. Hear("pools", stat["pools"], e).rows = stat["pools"].rows
    BY <1>0, <1>2, <1>3, PoolsHear
  <2> QED BY <1>0, <1>4, <2>1
<1>6. stat'["workers"].rows = stat["workers"].rows
  <2>1. Hear("workers", stat["workers"], e).rows = stat["workers"].rows
    BY <1>0, <1>2, <1>3, WorkersHear
  <2> QED BY <1>0, <1>4, <2>1
<1>7. /\ stat'["jobs"].poolsWorkerCount = stat["jobs"].poolsWorkerCount
      /\ stat'["jobs"].rows = stat["jobs"].rows
      /\ stat'["jobs"].poolsJobs = stat["jobs"].poolsJobs
  <2>1. Hear("jobs", stat["jobs"], e).poolsWorkerCount = stat["jobs"].poolsWorkerCount
    <3>1. CountsFollow(stat["jobs"], e, Hear("jobs", stat["jobs"], e))
      BY <1>0, <1>2, <1>3, JobsHear
    <3> QED BY <1>0, <1>2, <1>3, <3>1 DEF CountsFollow
  <2>2. /\ Hear("jobs", stat["jobs"], e).rows = stat["jobs"].rows
        /\ Hear("jobs", stat["jobs"], e).poolsJobs = stat["jobs"].poolsJobs
    <3>1. RowsFollow(stat["jobs"], e, Hear("jobs", stat["jobs"], e))
      BY <1>0, <1>2, <1>3, JobsHear
    <3> QED BY <1>0, <1>2, <1>3, <3>1 DEF RowsFollow
  <2> QED BY <1>0, <1>4, <2>1, <2>2
<1> QED BY <1>1, <1>4, <1>5, <1>6, <1>7 DEF StatInv

\* Nothing that the tables count changes.
LEMMA QuietKeeps ==
    ASSUME StatInv, UNCHANGED <<statVars, pools, workers, workerPool, workersCount>>
    PROVE  StatInv'
<1>1. /\ stat' = stat /\ connected' = connected /\ lost' = lost /\ pools' = pools /\ workers' = workers
      /\ workerPool' = workerPool /\ workersCount' = workersCount
  BY DEF statVars
<1>2. ASSUME NEW t \in Tables PROVE Good(t, stat[t])'
  BY <1>1 DEF StatInv, AllGood, Good, Sound, Shows
<1>3. AllGood'
  BY <1>1, <1>2 DEF StatInv, AllGood
<1> QED BY <1>1, <1>3 DEF StatInv

LEMMA OtherKeeps == ASSUME StatInv, StatOther PROVE StatInv'
<1>1. UNCHANGED <<pools, workers, workerPool, workersCount>>
  BY DEF StatOther, Loop, ControlPoolConnect, ControlPoolDisconnect, ClientError, assignVars
<1> QED BY <1>1, QuietKeeps DEF StatOther

\* The sum and the hash counts are sent; no row of the model changes.
LEMMA TickKeeps == ASSUME StatInv, Tick PROVE StatInv'
<1> DEFINE a == stat["workers"]
<1>0. /\ connected \subseteq Pages /\ \A t \in Tables : Good(t, stat[t])
      /\ "pools" \in Tables /\ "workers" \in Tables /\ "jobs" \in Tables
  BY TablesAre DEF StatInv, AllGood
<1>1. PICK mini \in BOOLEAN : mini = TRUE
  OBVIOUS
<1> DEFINE b == Emit(a, NoRow, NoRow, mini)
           d == Emit(b, NoRow, NoRow, mini)
<1>2. Good("workers", b) /\ b.rows = a.rows
  BY <1>0, ReportKeeps DEF Good
<1> HIDE DEF b
<1>3. Good("workers", d) /\ d.rows = b.rows
  BY <1>0, <1>2, ReportKeeps DEF Good
<1>4. /\ stat' = [stat EXCEPT !["workers"] = d] /\ connected' = connected
      /\ lost' = lost /\ UNCHANGED <<pools, workers, workerPool, workersCount>>
  BY <1>1 DEF Tick, vars, b
<1> HIDE DEF d
<1>5. stat = [t \in Tables |-> stat[t]]
  BY DEF StatInv
<1>6. /\ stat' = [t \in Tables |-> stat'[t]]
      /\ \A t \in Tables : stat'[t] = IF t = "workers" THEN d ELSE stat[t]
  BY <1>4, <1>5
<1>7. ASSUME NEW t \in Tables PROVE Good(t, stat[t])'
  <2>1. Good(t, stat'[t])
    BY <1>0, <1>3, <1>6
  <2> QED BY <1>4, <2>1 DEF Good, Sound, Shows
<1>8. AllGood'
  BY <1>0, <1>4, <1>7 DEF AllGood
<1>9. stat'["workers"].rows = stat["workers"].rows
  BY <1>0, <1>2, <1>3, <1>6
<1>10. stat'["pools"] = stat["pools"] /\ stat'["jobs"] = stat["jobs"]
  BY <1>0, <1>6
<1> QED BY <1>4, <1>6, <1>8, <1>9, <1>10 DEF StatInv


\* A table with list l and views v is sound for the connected pages ps.
Fair(t, a, l, v, ps) ==
    /\ Range(l) \subseteq ps \cup {Gone}
    /\ \A p \in ps : p \in Range(l) =>
         \A id \in RowIds[t] : IF a.rows[id] = NoRow
                               THEN v[p][id] \in {NoRow, Dead} \/ id \in lost[t][p]
                               ELSE v[p][id] = a.rows[id]
    /\ \A p \in Pages, id \in RowIds[t] :
         a.rows[id] = NoRow /\ v[p][id] \notin {NoRow, Dead} => id \in a.archive \cup lost[t][p]
    /\ ~a.crowded => ps \subseteq Range(l)
    /\ \A p \in Pages : lost[t][p] \subseteq RowIds[t]

LEMMA FairAfter ==
    ASSUME NEW t, NEW a, NEW l, NEW v, Fair(t, a, l, v, connected'),
           lost' = lost, stat'[t].sockets = l, stat'[t].view = v,
           stat'[t].rows = a.rows, stat'[t].archive = a.archive, stat'[t].crowded = a.crowded
    PROVE  Sound(t, stat[t])'
<1>1. /\ Range(stat'[t].sockets) \subseteq connected' \cup {Gone}
      /\ ~stat'[t].crowded => connected' \subseteq Range(stat'[t].sockets)
  BY DEF Fair
<1>2. \A p \in connected' : p \in Range(stat'[t].sockets) =>
        \A id \in RowIds[t] : Shows(t, stat[t], p, id)'
  BY DEF Fair, Shows
<1>3. \A p \in Pages, id \in RowIds[t] :
        stat'[t].rows[id] = NoRow /\ stat'[t].view[p][id] \notin {NoRow, Dead}
          => id \in stat'[t].archive \cup lost[t][p]
  BY DEF Fair
<1>4. \A p \in Pages : lost'[t][p] \subseteq RowIds[t]
  BY DEF Fair
<1> QED BY <1>1, <1>2, <1>3, <1>4 DEF Sound

\* Each table gets a new list and new views.
Relisted(L, V) == stat' = [t \in Tables |-> [stat[t] EXCEPT !.sockets = L[t], !.view = V[t]]]

\* What a table's list and views become when a page logs in, or is gone,
\* keeps it sound.
LEMMA PagesChange ==
    ASSUME StatInv, UNCHANGED <<pools, workers, workerPool, workersCount, lost>>,
           connected' \subseteq Pages,
           NEW L, NEW V, Relisted(L, V),
           \A t \in Tables :
             /\ L[t] \in Seq(Pages \cup {Gone}) /\ V[t] \in Views(t)
             /\ Fair(t, stat[t], L[t], V[t], connected')
    PROVE  StatInv'
<1>0. /\ \A t \in Tables : Good(t, stat[t])
      /\ "pools" \in Tables /\ "workers" \in Tables /\ "jobs" \in Tables
  BY TablesAre DEF StatInv, AllGood
<1>1. ASSUME NEW t \in Tables
      PROVE  /\ stat'[t] \in Records(t)
             /\ stat'[t].sockets = L[t] /\ stat'[t].view = V[t]
             /\ stat'[t].rows = stat[t].rows /\ stat'[t].archive = stat[t].archive
             /\ stat'[t].crowded = stat[t].crowded /\ SameOwn(t, stat[t], stat'[t])
  <2>1. stat'[t] = [stat[t] EXCEPT !.sockets = L[t], !.view = V[t]]
    BY Zenon DEF Relisted
  <2>2. stat[t] \in Records(t)
    BY <1>0 DEF Good
  <2>3. PICK a, l, v : a = stat[t] /\ l = L[t] /\ v = V[t]
    OBVIOUS
  <2>4. l \in Seq(Pages \cup {Gone}) /\ v \in Views(t) /\ a \in Records(t)
    BY <2>2, <2>3
  <2> DEFINE b == [a EXCEPT !.sockets = l, !.view = v]
  <2>5. /\ b \in Records(t) /\ b.sockets = l /\ b.view = v /\ b.rows = a.rows
        /\ b.archive = a.archive /\ b.crowded = a.crowded /\ SameOwn(t, a, b)
    BY <2>4 DEF Records, SameOwn
  <2>6. stat'[t] = b
    BY <2>1, <2>3
  <2> HIDE DEF b
  <2> QED BY <2>3, <2>5, <2>6
<1>2. ASSUME NEW t \in Tables PROVE Good(t, stat[t])'
  <2>1. Sound(t, stat[t])'
    BY <1>1, FairAfter
  <2> QED BY <1>1, <2>1 DEF Good
<1>3. AllGood'
  BY <1>2 DEF AllGood
<1>4. stat' = [t \in Tables |-> stat'[t]]
  BY Zenon DEF Relisted
<1>5. /\ \A t \in Tables : stat'[t].rows = stat[t].rows
      /\ stat'["jobs"].poolsJobs = stat["jobs"].poolsJobs
      /\ stat'["jobs"].poolsWorkerCount = stat["jobs"].poolsWorkerCount
  BY <1>0, <1>1 DEF SameOwn
<1>6. /\ stat["pools"].rows = RowsOver(Clients, pools, workersCount)
      /\ stat["workers"].rows = RowsOver(Workers, workers, workerPool)
      /\ stat["jobs"].poolsWorkerCount = workersCount
      /\ JobsOwned(stat["jobs"].rows, stat["jobs"].poolsJobs, pools)
  BY DEF StatInv
<1> QED BY <1>0, <1>3, <1>4, <1>5, <1>6 DEF StatInv

\* A page logs in: it is sent the archive and the rows, and listed.
LEMMA LoginKeeps == ASSUME StatInv, NEW p \in Pages, Login(p) PROVE StatInv'
<1> DEFINE L == [t \in Tables |-> Append(stat[t].sockets, p)]
           V == [t \in Tables |-> [stat[t].view EXCEPT ![p] = ShownAtLogin(@, stat[t])]]
<1>0. /\ connected \subseteq Pages /\ connected' = connected \cup {p}
      /\ UNCHANGED <<pools, workers, workerPool, workersCount, lost>>
      /\ \A t \in Tables : Good(t, stat[t])
  BY DEF StatInv, AllGood, Login, vars
<1>1. Relisted(L, V)
  BY Zenon DEF Relisted, Login
<1>2. ASSUME NEW t \in Tables
      PROVE  /\ L[t] \in Seq(Pages \cup {Gone}) /\ V[t] \in Views(t)
             /\ Fair(t, stat[t], L[t], V[t], connected')
  <2>1. PICK a : a = stat[t]
    OBVIOUS
  <2>2. /\ L[t] = Append(a.sockets, p)
        /\ V[t] = [a.view EXCEPT ![p] = ShownAtLogin(@, a)]
    BY <2>1
  <2> HIDE DEF L, V
  <2>3. PICK l, v : l = L[t] /\ v = V[t]
    OBVIOUS
  <2>4. a \in Records(t) /\ Sound(t, a)
    BY <1>0, <2>1 DEF Good
  <2>5. /\ a.rows \in Rows(t) /\ a.view \in Views(t) /\ a.sockets \in Seq(Pages \cup {Gone})
    BY <2>4, FieldTypes
  <2>6. l \in Seq(Pages \cup {Gone}) /\ Range(l) = Range(a.sockets) \cup {p}
    <3>1. PICK s \in Seq(Pages \cup {Gone}) : s = a.sockets
      BY <2>5
    <3>2. /\ Append(s, p) \in Seq(Pages \cup {Gone}) /\ Len(Append(s, p)) = Len(s) + 1
          /\ Append(s, p)[Len(s) + 1] = p
          /\ \A i \in 1..Len(s) : Append(s, p)[i] = s[i]
      BY AppendProperties
    <3>3. DOMAIN s = 1..Len(s) /\ DOMAIN Append(s, p) = 1..(Len(s) + 1) /\ Len(s) \in Nat
      BY <3>2, LenProperties
    <3>4. Range(Append(s, p)) = Range(s) \cup {p}
      BY <3>2, <3>3 DEF Range
    <3> QED BY <2>2, <2>3, <3>1, <3>2, <3>4
  <2>7. /\ \A q \in Pages \ {p} : v[q] = a.view[q]
        /\ \A id \in RowIds[t] :
             v[p][id] = IF a.rows[id] # NoRow THEN a.rows[id]
                        ELSE IF id \in a.archive THEN Dead ELSE a.view[p][id]
        /\ v \in Views(t)
    <3>1. a.view[p] \in [RowIds[t] -> Values[t] \cup {NoRow, Dead}]
      BY <2>5 DEF Views
    <3>2. PICK x : x = ShownAtLogin(a.view[p], a)
      OBVIOUS
    <3>3. x = [id \in RowIds[t] |-> IF a.rows[id] # NoRow THEN a.rows[id]
                                    ELSE IF id \in a.archive THEN Dead ELSE a.view[p][id]]
      BY <3>1, <3>2 DEF ShownAtLogin
    <3>4. x \in [RowIds[t] -> Values[t] \cup {NoRow, Dead}]
      BY <2>5, <3>1, <3>3 DEF Rows
    <3>5. v = [a.view EXCEPT ![p] = x]
      BY <2>2, <2>3, <3>2
    <3>6. v \in Views(t) /\ v[p] = x /\ \A q \in Pages \ {p} : v[q] = a.view[q]
      BY <2>5, <3>4, <3>5 DEF Views
    <3> QED BY <3>3, <3>6
  <2>8. /\ Range(l) \subseteq connected' \cup {Gone}
        /\ ~a.crowded => connected' \subseteq Range(l)
    BY <1>0, <2>4, <2>6 DEF Sound
  <2>9. \A id \in RowIds[t] :
          /\ a.rows[id] = NoRow => v[p][id] \in {NoRow, Dead} \/ id \in lost[t][p]
          /\ a.rows[id] # NoRow => v[p][id] = a.rows[id]
    BY <2>4, <2>7 DEF Sound
  <2>10. \A q \in connected' : q \in Range(l) =>
           \A id \in RowIds[t] :
             IF a.rows[id] = NoRow THEN v[q][id] \in {NoRow, Dead} \/ id \in lost[t][q]
             ELSE v[q][id] = a.rows[id]
    BY <1>0, <2>4, <2>6, <2>7, <2>9 DEF Sound, Shows
  <2>11. \A q \in Pages, id \in RowIds[t] :
           a.rows[id] = NoRow /\ v[q][id] \notin {NoRow, Dead} => id \in a.archive \cup lost[t][q]
    BY <2>4, <2>7, <2>9 DEF Sound
  <2>12. Fair(t, a, l, v, connected')
    BY <2>4, <2>8, <2>10, <2>11 DEF Fair, Sound
  <2> QED BY <2>1, <2>3, <2>6, <2>7, <2>12
<1>3. connected' \subseteq Pages
  BY <1>0
<1> HIDE DEF L, V
<1> QED BY <1>0, <1>1, <1>2, <1>3, PagesChange

\* A page is gone: its socket stays in each list until an update finds it.
LEMMA PageGoneKeeps == ASSUME StatInv, NEW p \in Pages, PageGone(p) PROVE StatInv'
<1> DEFINE marked(s) == [i \in DOMAIN s |-> IF s[i] = p THEN Gone ELSE s[i]]
           L == [t \in Tables |-> marked(stat[t].sockets)]
           V == [t \in Tables |-> stat[t].view]
<1>0. /\ connected \subseteq Pages /\ connected' = connected \ {p} /\ p # Gone /\ Gone \notin connected
      /\ UNCHANGED <<pools, workers, workerPool, workersCount, lost>>
      /\ \A t \in Tables : Good(t, stat[t])
  BY RowsAssumption DEF StatInv, AllGood, PageGone, vars
<1>1. Relisted(L, V)
  <2>1. ASSUME NEW t \in Tables
        PROVE  [stat[t] EXCEPT !.sockets = marked(@)]
                 = [stat[t] EXCEPT !.sockets = L[t], !.view = V[t]]
    <3>1. PICK a, l : a = stat[t] /\ l = marked(stat[t].sockets)
      OBVIOUS
    <3>2. a \in Records(t)
      BY <1>0, <3>1 DEF Good
    <3>3. [a EXCEPT !.sockets = l] = [a EXCEPT !.sockets = l, !.view = a.view]
      BY <3>2 DEF Records
    <3>4. l = L[t] /\ a.view = V[t]
      BY <3>1
    <3> HIDE DEF marked, L, V
    <3> QED BY <3>1, <3>3, <3>4
  <2>2. stat' = [t \in Tables |-> [stat[t] EXCEPT !.sockets = marked(@)]]
    BY Zenon DEF PageGone
  <2> HIDE DEF marked, L, V
  <2> QED BY <2>1, <2>2 DEF Relisted
<1>2. ASSUME NEW t \in Tables
      PROVE  /\ L[t] \in Seq(Pages \cup {Gone}) /\ V[t] \in Views(t)
             /\ Fair(t, stat[t], L[t], V[t], connected')
  <2>1. PICK a, l : a = stat[t] /\ l = L[t]
    OBVIOUS
  <2>2. l = marked(a.sockets) /\ V[t] = a.view
    BY <2>1
  <2>3. a \in Records(t) /\ Sound(t, a)
    BY <1>0, <2>1 DEF Good
  <2>4. a.view \in Views(t) /\ a.sockets \in Seq(Pages \cup {Gone})
    BY <2>3, FieldTypes
  <2>5. /\ l \in Seq(Pages \cup {Gone})
        /\ Range(l) \subseteq (Range(a.sockets) \ {p}) \cup {Gone}
        /\ Range(a.sockets) \ {p} \subseteq Range(l)
    <3>1. PICK s \in Seq(Pages \cup {Gone}) : s = a.sockets
      BY <2>4
    <3>2. DOMAIN s = 1..Len(s) /\ Len(s) \in Nat /\ \A i \in 1..Len(s) : s[i] \in Pages \cup {Gone}
      BY LenProperties, ElementOfSeq
    <3>3. /\ l = [i \in 1..Len(s) |-> IF s[i] = p THEN Gone ELSE s[i]]
      BY <2>2, <3>1, <3>2
    <3>4. l \in Seq(Pages \cup {Gone})
      BY <3>2, <3>3, SeqDef
    <3>5. DOMAIN l = 1..Len(s) /\ \A i \in 1..Len(s) : l[i] = IF s[i] = p THEN Gone ELSE s[i]
      BY <3>3
    <3>6. Range(l) \subseteq (Range(s) \ {p}) \cup {Gone} /\ Range(s) \ {p} \subseteq Range(l)
      BY <1>0, <3>2, <3>5 DEF Range
    <3> QED BY <3>1, <3>4, <3>6
  <2>6. /\ Range(l) \subseteq connected' \cup {Gone}
        /\ ~a.crowded => connected' \subseteq Range(l)
    BY <1>0, <2>3, <2>5 DEF Sound
  <2>7. \A q \in connected' : q \in Range(l) =>
          \A id \in RowIds[t] :
            IF a.rows[id] = NoRow THEN a.view[q][id] \in {NoRow, Dead} \/ id \in lost[t][q]
            ELSE a.view[q][id] = a.rows[id]
    BY <1>0, <2>3, <2>5 DEF Sound, Shows
  <2>8. \A q \in Pages, id \in RowIds[t] :
          a.rows[id] = NoRow /\ a.view[q][id] \notin {NoRow, Dead} => id \in a.archive \cup lost[t][q]
    BY <2>3 DEF Sound
  <2>9. Fair(t, a, l, a.view, connected')
    BY <2>3, <2>6, <2>7, <2>8 DEF Fair, Sound
  <2> HIDE DEF L, V, marked
  <2> QED BY <2>1, <2>2, <2>4, <2>5, <2>9
<1>3. connected' \subseteq Pages
  BY <1>0
<1> HIDE DEF L, V
<1> QED BY <1>0, <1>1, <1>2, <1>3, PagesChange


\* A step of the tables is one of the proxy, or leaves the proxy alone.
LEMMA ProxySteps == [StatNext]_proxyStatVars => [Next]_vars
<1> SUFFICES ASSUME [StatNext]_proxyStatVars PROVE [Next]_vars
  OBVIOUS
<1>1. ASSUME NEW c \in Clients, StatPoolConnect(c) \/ StatSocketClose(c) PROVE Next
  BY <1>1 DEF StatPoolConnect, StatSocketClose, Next
<1>2. ASSUME NEW w \in Workers, StatWorkerConnect(w) \/ StatWorkerDisconnect(w) PROVE Next
  BY <1>2 DEF StatWorkerConnect, StatWorkerDisconnect, Next
<1>3. CASE StatOther
  BY <1>3 DEF StatOther, Next
<1>4. ASSUME NEW c, NEW j, AcceptedJob(c, j) PROVE UNCHANGED vars
  BY <1>4 DEF AcceptedJob
<1>5. ASSUME NEW c, NEW w, NEW j, ShareAnswered(c, w, j) PROVE UNCHANGED vars
  BY <1>5 DEF ShareAnswered
<1>6. CASE Tick
  BY <1>6 DEF Tick, vars
<1>7. ASSUME NEW p, Login(p) \/ PageGone(p) PROVE UNCHANGED vars
  BY <1>7 DEF Login, PageGone
<1>8. CASE UNCHANGED proxyStatVars
  BY <1>8 DEF proxyStatVars
<1> QED BY <1>1, <1>2, <1>3, <1>4, <1>5, <1>6, <1>7, <1>8, Zenon DEF StatNext

LEMMA NextKeepsStatInv == IInv /\ StatInv /\ [StatNext]_proxyStatVars => IInv' /\ StatInv'
<1> SUFFICES ASSUME IInv, StatInv, [StatNext]_proxyStatVars PROVE IInv' /\ StatInv'
  OBVIOUS
<1>1. IInv'
  BY ProxySteps, NextKeepsIInv
<1> SUFFICES StatInv'
  BY <1>1
<1>2. ASSUME NEW c \in Clients, StatPoolConnect(c) \/ StatSocketClose(c) PROVE StatInv'
  BY <1>2, PoolConnectKeeps, SocketCloseKeeps
<1>3. ASSUME NEW w \in Workers, StatWorkerConnect(w) PROVE StatInv'
  BY <1>3, WorkerConnectKeeps
<1>4. ASSUME NEW w \in Workers, StatWorkerDisconnect(w) PROVE StatInv'
  BY <1>4, FreeWorkerDisconnectKeeps, PoolWorkerDisconnectKeeps
<1>5. CASE StatOther
  BY <1>5, OtherKeeps
<1>6. ASSUME NEW c \in Clients, NEW j \in JobIds, AcceptedJob(c, j) PROVE StatInv'
  BY <1>6, AcceptedJobKeeps
<1>7. ASSUME NEW c \in Clients, NEW w \in Workers, NEW j \in JobIds \cup {NoJob}, ShareAnswered(c, w, j)
      PROVE  StatInv'
  BY <1>7, ShareAnsweredKeeps
<1>8. CASE Tick
  BY <1>8, TickKeeps
<1>9. ASSUME NEW p \in Pages, Login(p) \/ PageGone(p) PROVE StatInv'
  BY <1>9, LoginKeeps, PageGoneKeeps
<1>10. CASE UNCHANGED proxyStatVars
  <2>1. UNCHANGED <<statVars, pools, workers, workerPool, workersCount>>
    BY <1>10 DEF proxyStatVars, vars
  <2> QED BY <2>1, QuietKeeps
<1> QED BY <1>2, <1>3, <1>4, <1>5, <1>6, <1>7, <1>8, <1>9, <1>10, Zenon DEF StatNext

-----------------------------------------------------------------------------
(* Results *)

LEMMA StatInvAgrees == IInv /\ StatInv => TablesAgree /\ PagesAgree /\ PagesAreListed
<1> SUFFICES ASSUME IInv, StatInv PROVE TablesAgree /\ PagesAgree /\ PagesAreListed
  OBVIOUS
<1>0. /\ connected \subseteq Pages /\ \A t \in Tables : stat[t] \in Records(t) /\ Sound(t, stat[t])
      /\ "jobs" \in Tables
      /\ stat["jobs"].rows \in [JobIds -> Nat \cup {NoRow}]
      /\ pools \subseteq Clients /\ workers \subseteq Workers
      /\ workersCount \in [Clients -> Nat]
      /\ workerPool \in [Workers -> Clients \cup {NoPool}]
      /\ \A c \in Clients : /\ workersCount[c] = Cardinality(poolWorkers[c])
                            /\ poolWorkers[c] # {} => c \in pools
  BY StatFacts DEF Good
<1>1. /\ \A c \in Clients : stat["pools"].rows[c] = IF c \in pools THEN workersCount[c] ELSE NoRow
      /\ \A w \in Workers : stat["workers"].rows[w] = IF w \in workers THEN workerPool[w] ELSE NoRow
      /\ stat["jobs"].poolsWorkerCount = workersCount
      /\ JobsOwned(stat["jobs"].rows, stat["jobs"].poolsJobs, pools)
  BY DEF StatInv, RowsOver
<1>2. StatTypeOK
  <2>1. \A t \in Tables : /\ stat[t].archive \subseteq RowIds[t]
                          /\ \A p \in Pages : lost[t][p] \subseteq RowIds[t]
                          /\ Range(stat[t].sockets) \subseteq connected \cup {Gone}
                          /\ stat[t].crowded \in BOOLEAN
    BY <1>0, FieldTypes DEF Sound
  <2>2. /\ stat["jobs"].poolsJobs \in [Clients -> JobIds \cup {NoJob}]
        /\ stat["jobs"].poolsWorkerCount \in [Clients -> Nat]
    BY <1>0, FieldTypes
  <2> QED BY <1>0, <1>1, <2>1, <2>2 DEF StatTypeOK
<1>3. RowsAgree
  BY <1>0, <1>1 DEF RowsAgree
<1>4. JobsAgree
  <2>1. \A j \in JobIds : j # NoJob
    BY RowsAssumption
  <2> QED BY <1>0, <1>1, <2>1 DEF JobsAgree, JobsOwned
<1>5. PagesAgree
  BY <1>0 DEF Sound, Shows, PagesAgree
<1>6. PagesAreListed
  BY <1>0 DEF Sound, PagesAreListed
<1> QED BY <1>2, <1>3, <1>4, <1>5, <1>6 DEF TablesAgree

LEMMA StatInvHolds == StatSpec => [](IInv /\ StatInv)
BY InitEstablishesStatInv, NextKeepsStatInv, PTL DEF StatSpec

\* Pools, Workers and Jobs, which only count the events they hear and never
\* ask, show after every handler each pool connected with the number of its
\* machines, each machine with its pool, and as running the last job of each
\* connected pool and no other.
THEOREM TablesShowTheProxy == StatSpec => []TablesAgree
BY StatInvHolds, StatInvAgrees, PTL

\* A page whose socket a table's webEmit still lists shows the rows of the
\* table and no other as alive, however often it was away, although a change
\* sent to a row carries no `alive' and a change missed is not sent again: but
\* for rows that ended while it was not listed and whose record the archive,
\* cut at a MiB, lost before the page came back.
THEOREM PagesShowTheTables == StatSpec => []PagesAgree
BY StatInvHolds, StatInvAgrees, PTL

\* webEmit, which splices out the sockets it found gone at positions noted
\* before the first splice, loses no connected page as long as no update finds
\* two gone.
THEOREM PagesStayListed == StatSpec => []PagesAreListed
BY StatInvHolds, StatInvAgrees, PTL

=============================================================================

--------------------------- MODULE PackArrayProofs ---------------------------
(* Proofs about PackArray, for any records, name and size of an archive. *)
EXTENDS PackArray, SequenceTheorems, WellFoundedInduction, TLAPS

-----------------------------------------------------------------------------
(* What an archive looks like *)

\* No start marker begins in the characters from .. to of a text, nor at the
\* last of them with its second character behind it.
Quiet(text, from, to) ==
    \A q \in from .. to : text[q] = "0" => q + 1 <= to /\ text[q + 1] # "0"

\* The packed record r stands at place p of a text.
Stands(text, p, r) ==
    \A j \in 1 .. Len(Pack(r)) : text[p + j - 1] = Pack(r)[j]

\* at[i] is the place of the i-th whole record, at[Len(list) + 1] the end.
Places(text, at, list) ==
    /\ at \in [1 .. Len(list) + 1 -> Nat \ {0}]
    /\ at[Len(list) + 1] = Len(text) + 1
    /\ \A i \in 1 .. Len(list) : at[i + 1] = at[i] + Len(Pack(list[i]))
    /\ \A i, j \in 1 .. Len(list) + 1 : i <= j => 7 * (j - i) <= at[j] - at[i]

\* A text is the end of a record that was cut, in which no start marker is
\* found, and whole packed records one after the other.
Layout(text, at, list) ==
    /\ text \in Seq(Characters) /\ list \in Seq(Records)
    /\ Places(text, at, list)
    /\ \A i \in 1 .. Len(list) : Stands(text, at[i], list[i])
    /\ Quiet(text, 1, at[1] - 1)

\* The records of list are the last ones of all.
Lasts(list, all) ==
    /\ Len(list) <= Len(all)
    /\ \A i \in 1 .. Len(list) : list[i] = all[Len(all) - Len(list) + i]

\* The inductive invariant.
Archived(text, written) ==
    \E at, list :
        /\ Layout(text, at, list) /\ Lasts(list, written)
        /\ written # <<>> => list # <<>>

IInv ==
    /\ recent \in Seq(Records) /\ Len(recent) <= MaxRecent
    /\ Len(data) <= MaxSize
    /\ Archived(data, recent)

-----------------------------------------------------------------------------
(* A packed record, character by character *)

\* u is s, of k characters, and then t, of m.
Joined(u, s, k, t, m) ==
    /\ u \in Seq(Characters) /\ Len(u) = k + m
    /\ \A i \in 1 .. k : u[i] = s[i]
    /\ \A i \in 1 .. m : u[k + i] = t[i]

LEMMA Join ==
    ASSUME NEW s \in Seq(Characters), NEW t \in Seq(Characters),
           NEW k, NEW m, k = Len(s), m = Len(t)
    PROVE  Joined(s \o t, s, k, t, m)
<1>1. k \in Nat /\ m \in Nat
  BY LenProperties
<1>2. /\ s \o t \in Seq(Characters) /\ Len(s \o t) = k + m
      /\ \A i \in 1 .. k + m : (s \o t)[i] = IF i <= k THEN s[i] ELSE t[i - k]
  BY ConcatProperties
<1>3. ASSUME NEW i \in 1 .. k PROVE (s \o t)[i] = s[i]
  BY <1>1, <1>2
<1>4. ASSUME NEW i \in 1 .. m PROVE (s \o t)[k + i] = t[i]
  <2>1. k + i \in 1 .. k + m /\ ~(k + i <= k) /\ k + i - k = i
    BY <1>1
  <2> QED BY <1>2, <2>1
<1> QED BY <1>2, <1>3, <1>4 DEF Joined

LEMMA MarkerFacts ==
    ASSUME NEW m \in {MSG_START_MARKER, MSG_DELTA_MARKER, MSG_END_MARKER}
    PROVE  /\ m \in Seq(Characters) /\ Len(m) = 2 /\ m[1] = "0"
           /\ m[2] = IF m = MSG_START_MARKER THEN "0"
                     ELSE IF m = MSG_DELTA_MARKER THEN "1" ELSE "2"
<1>1. "0" \in Characters /\ "1" \in Characters /\ "2" \in Characters
  BY RecordsAssumption DEF Markers
<1>2. ASSUME NEW x \in Characters, NEW y \in Characters
      PROVE  /\ <<x, y>> \in Seq(Characters) /\ Len(<<x, y>>) = 2
             /\ <<x, y>>[1] = x /\ <<x, y>>[2] = y
  OBVIOUS
<1>3. CASE m = MSG_START_MARKER
  BY <1>1, <1>2, <1>3 DEF MSG_START_MARKER
<1>4. CASE m = MSG_DELTA_MARKER
  <2>1. <<"0", "1">>[2] # <<"0", "0">>[2]
    OBVIOUS
  <2>2. MSG_DELTA_MARKER # MSG_START_MARKER
    BY <2>1 DEF MSG_START_MARKER, MSG_DELTA_MARKER
  <2> QED BY <1>1, <1>2, <1>4, <2>2 DEF MSG_DELTA_MARKER
<1>5. CASE m = MSG_END_MARKER
  <2>1. <<"0", "2">>[2] # <<"0", "0">>[2] /\ <<"0", "2">>[2] # <<"0", "1">>[2]
    OBVIOUS
  <2>2. MSG_END_MARKER # MSG_START_MARKER /\ MSG_END_MARKER # MSG_DELTA_MARKER
    BY <2>1 DEF MSG_START_MARKER, MSG_DELTA_MARKER, MSG_END_MARKER
  <2> QED BY <1>1, <1>2, <1>5, <2>2 DEF MSG_END_MARKER
<1> QED BY <1>3, <1>4, <1>5

LEMMA PackFacts ==
    ASSUME NEW r \in Records
    PROVE  /\ Len(Name) \in Nat \ {0} /\ Len(r) \in Nat
           /\ Pack(r) \in Seq(Characters)
           /\ Len(Pack(r)) = Len(Name) + Len(r) + 6
           /\ Pack(r)[1] = "0" /\ Pack(r)[2] = "0"
           /\ \A i \in 1 .. Len(Name) : Pack(r)[2 + i] \notin Markers
           /\ Pack(r)[Len(Name) + 3] = "0" /\ Pack(r)[Len(Name) + 4] = "1"
           /\ \A i \in 1 .. Len(r) :
                Pack(r)[Len(Name) + 4 + i] = r[i] /\ r[i] \notin Markers
           /\ Pack(r)[Len(Name) + Len(r) + 5] = "0"
           /\ Pack(r)[Len(Name) + Len(r) + 6] = "2"
<1> DEFINE a == Len(Name)
           b == Len(r)
           one == MSG_START_MARKER \o Name
           two == one \o MSG_DELTA_MARKER
           three == two \o r
<1>1. /\ Name \in Seq(Characters) /\ Name # <<>> /\ r \in Seq(Characters)
      /\ \A i \in 1 .. a : Name[i] \notin Markers
      /\ \A i \in 1 .. b : r[i] \notin Markers
  <2>1. Name \in Seq(Characters \ Markers) /\ r \in Seq(Characters \ Markers)
    BY RecordsAssumption DEF Texts
  <2>2. Name \in Seq(Characters) /\ r \in Seq(Characters)
    BY <2>1, SeqMonotonic
  <2>3. \A i \in 1 .. a : Name[i] \in Characters \ Markers
    BY <2>1, ElementOfSeq
  <2>4. \A i \in 1 .. b : r[i] \in Characters \ Markers
    BY <2>1, ElementOfSeq
  <2> QED BY <2>2, <2>3, <2>4, RecordsAssumption
<1>2. a \in Nat \ {0} /\ b \in Nat
  BY <1>1, LenProperties, EmptySeq
<1>3. /\ one \in Seq(Characters) /\ Len(one) = 2 + a
      /\ one[1] = "0" /\ one[2] = "0" /\ \A i \in 1 .. a : one[2 + i] = Name[i]
  <2>1. /\ MSG_START_MARKER \in Seq(Characters) /\ Len(MSG_START_MARKER) = 2
        /\ MSG_START_MARKER[1] = "0" /\ MSG_START_MARKER[2] = "0"
    BY MarkerFacts
  <2>2. /\ one \in Seq(Characters) /\ Len(one) = 2 + a
        /\ \A i \in 1 .. 2 : one[i] = MSG_START_MARKER[i]
        /\ \A i \in 1 .. a : one[2 + i] = Name[i]
    <3>1. Joined(one, MSG_START_MARKER, 2, Name, a)
      BY <1>1, <2>1, Join, Zenon
    <3> HIDE DEF one
    <3> QED BY <3>1 DEF Joined
  <2> HIDE DEF one
  <2> QED BY <2>1, <2>2
<1> HIDE DEF one
<1>4. /\ two \in Seq(Characters) /\ Len(two) = a + 4
      /\ \A i \in 1 .. a + 2 : two[i] = one[i]
      /\ two[a + 3] = "0" /\ two[a + 4] = "1"
  <2>1. /\ MSG_DELTA_MARKER \in Seq(Characters) /\ Len(MSG_DELTA_MARKER) = 2
        /\ MSG_DELTA_MARKER[1] = "0" /\ MSG_DELTA_MARKER[2] = "1"
    <3>1. <<"0", "1">>[2] # <<"0", "0">>[2]
      OBVIOUS
    <3> QED BY <3>1, MarkerFacts DEF MSG_START_MARKER, MSG_DELTA_MARKER
  <2>2. /\ two \in Seq(Characters) /\ Len(two) = (2 + a) + 2
        /\ \A i \in 1 .. 2 + a : two[i] = one[i]
        /\ \A i \in 1 .. 2 : two[(2 + a) + i] = MSG_DELTA_MARKER[i]
    <3>1. Joined(two, one, 2 + a, MSG_DELTA_MARKER, 2)
      BY <1>3, <2>1, Join, Zenon
    <3> HIDE DEF two
    <3> QED BY <3>1 DEF Joined
  <2> HIDE DEF two
  <2>3. (2 + a) + 1 = a + 3 /\ (2 + a) + 2 = a + 4 /\ 2 + a = a + 2
    BY <1>2
  <2>4. two[(2 + a) + 1] = "0" /\ two[(2 + a) + 2] = "1"
    BY <2>1, <2>2
  <2> QED BY <2>2, <2>3, <2>4
<1> HIDE DEF two
<1>5. /\ three \in Seq(Characters) /\ Len(three) = (a + 4) + b
      /\ \A i \in 1 .. a + 4 : three[i] = two[i]
      /\ \A i \in 1 .. b : three[a + 4 + i] = r[i]
  <2>1. Joined(three, two, a + 4, r, b)
    BY <1>1, <1>4, Join, Zenon
  <2> HIDE DEF three
  <2> QED BY <2>1 DEF Joined
<1>6. /\ Pack(r) \in Seq(Characters) /\ Len(Pack(r)) = a + b + 6
      /\ \A i \in 1 .. a + 4 + b : Pack(r)[i] = three[i]
      /\ Pack(r)[a + b + 5] = "0" /\ Pack(r)[a + b + 6] = "2"
  <2>0. Pack(r) = three \o MSG_END_MARKER
    BY DEF Pack, one, two
  <2> HIDE DEF three
  <2>1. /\ MSG_END_MARKER \in Seq(Characters) /\ Len(MSG_END_MARKER) = 2
        /\ MSG_END_MARKER[1] = "0" /\ MSG_END_MARKER[2] = "2"
    <3>1. <<"0", "2">>[2] # <<"0", "0">>[2] /\ <<"0", "2">>[2] # <<"0", "1">>[2]
      OBVIOUS
    <3> QED BY <3>1, MarkerFacts DEF MSG_START_MARKER, MSG_DELTA_MARKER, MSG_END_MARKER
  <2>2. /\ Pack(r) \in Seq(Characters) /\ Len(Pack(r)) = (a + 4 + b) + 2
        /\ \A i \in 1 .. a + 4 + b : Pack(r)[i] = three[i]
        /\ \A i \in 1 .. 2 : Pack(r)[(a + 4 + b) + i] = MSG_END_MARKER[i]
    <3>1. Joined(three \o MSG_END_MARKER, three, a + 4 + b, MSG_END_MARKER, 2)
      BY <1>5, <2>1, Join, Zenon
    <3> QED BY <2>0, <3>1 DEF Joined
  <2>3. (a + 4 + b) + 1 = a + b + 5 /\ (a + 4 + b) + 2 = a + b + 6
    BY <1>2
  <2>4. Pack(r)[(a + 4 + b) + 1] = "0" /\ Pack(r)[(a + 4 + b) + 2] = "2"
    BY <2>1, <2>2
  <2> QED BY <2>2, <2>3, <2>4
<1> HIDE DEF three
<1>7. Pack(r)[1] = "0" /\ Pack(r)[2] = "0"
  BY <1>2, <1>3, <1>4, <1>5, <1>6
<1>8. ASSUME NEW i \in 1 .. a PROVE Pack(r)[2 + i] \notin Markers
  <2>1. Pack(r)[2 + i] = three[2 + i]
    BY <1>2, <1>6
  <2>2. three[2 + i] = two[2 + i]
    BY <1>2, <1>5
  <2>3. two[2 + i] = Name[i]
    BY <1>2, <1>3, <1>4
  <2> QED BY <1>1, <2>1, <2>2, <2>3
<1>9. Pack(r)[a + 3] = "0" /\ Pack(r)[a + 4] = "1"
  <2>1. three[a + 3] = "0" /\ three[a + 4] = "1"
    BY <1>2, <1>4, <1>5
  <2> QED BY <1>2, <1>6, <2>1
<1>10. ASSUME NEW i \in 1 .. b PROVE Pack(r)[a + 4 + i] = r[i]
  BY <1>2, <1>5, <1>6
<1> QED BY <1>1, <1>2, <1>6, <1>7, <1>8, <1>9, <1>10

-----------------------------------------------------------------------------
(* Looking for a marker *)

\* Every set of numbers that is not empty has a least one.
LEMMA LeastNumber ==
    ASSUME NEW S, S \subseteq Nat, S # {}
    PROVE  \E m \in S : \A k \in S : m <= k
<1> DEFINE R == OpToRel(<, Nat)
<1>1. IsWellFoundedOn(R, Nat)
  BY NatLessThanWellFounded
<1>2. \A x, y \in Nat : <<x, y>> \in R <=> x < y
  BY DEF OpToRel
<1> HIDE DEF R
<1>3. PICK m \in S : \A k \in S : ~(<<k, m>> \in R)
  BY <1>1, WFMin
<1>4. ASSUME NEW k \in S PROVE m <= k
  <2>1. k \in Nat /\ m \in Nat
    OBVIOUS
  <2>2. ~(k < m)
    BY <1>2, <1>3, <2>1
  <2> QED BY <2>1, <2>2
<1> QED BY <1>4

\* A set that holds 0 and with each number up to n its successor holds them all.
LEMMA UpTo ==
    ASSUME NEW n \in Nat, NEW S, 0 \in S, \A i \in 1..n : i - 1 \in S => i \in S
    PROVE  \A i \in 0..n : i \in S
<1> SUFFICES ASSUME (0..n) \ S # {} PROVE FALSE
  OBVIOUS
<1>1. (0..n) \ S \subseteq Nat
  OBVIOUS
<1>2. PICK m \in (0..n) \ S : \A k \in (0..n) \ S : m <= k
  BY <1>1, LeastNumber
<1>3. m \in 1..n /\ m - 1 \in 0..n /\ ~(m <= m - 1)
  BY <1>2
<1>4. m - 1 \in S
  BY <1>2, <1>3
<1> QED BY <1>2, <1>3, <1>4

Marks == {MSG_START_MARKER, MSG_DELTA_MARKER, MSG_END_MARKER}

\* The two characters of a marker stand at place i of a text.
Occurs(text, marker, i) == text[i] = marker[1] /\ text[i + 1] = marker[2]

\* The places that IndexOf looks at
Found(text, marker, from) ==
    {i \in from .. Len(text) - Len(marker) + 1 :
       SubSeq(text, i, i + Len(marker) - 1) = marker}

LEMMA IndexOfFound ==
    ASSUME NEW text, NEW marker, NEW from
    PROVE  IndexOf(text, marker, from) =
             IF Found(text, marker, from) = {} THEN 0 ELSE Min(Found(text, marker, from))
BY Zenon DEF IndexOf, Found

\* A place is one IndexOf looks for if the marker occurs there.
LEMMA FoundFacts ==
    ASSUME NEW text \in Seq(Characters), NEW marker \in Marks, NEW from \in Nat \ {0}
    PROVE  Found(text, marker, from) =
             {i \in from .. Len(text) - 1 : Occurs(text, marker, i)}
<1>1. marker \in Seq(Characters) /\ Len(marker) = 2
  BY MarkerFacts DEF Marks
<1>2. Len(text) \in Nat
  BY LenProperties
<1>3. Len(text) - 2 + 1 = Len(text) - 1
  BY <1>2
<1>4. ASSUME NEW i \in from .. Len(text) - 1
      PROVE  SubSeq(text, i, i + 2 - 1) = marker <=> Occurs(text, marker, i)
  <2>1. i \in Int /\ i + 1 \in Int /\ i <= i + 1 /\ i + 1 - i + 1 = 2 /\ i + 2 - 1 = i + 1
    BY <1>2
  <2>2. \A j \in i .. i + 1 : text[j] \in Characters
    <3>1. \A j \in i .. i + 1 : j \in 1 .. Len(text)
      BY <1>2
    <3> QED BY <3>1, ElementOfSeq
  <2> DEFINE pair == SubSeq(text, i, i + 1)
  <2>3. /\ pair \in Seq(Characters)
        /\ Len(pair) = IF i <= i + 1 THEN i + 1 - i + 1 ELSE 0
        /\ \A j \in 1 .. i + 1 - i + 1 : pair[j] = text[i + j - 1]
    BY <2>1, <2>2, SubSeqProperties
  <2>4. Len(pair) = 2 /\ pair[1] = text[i] /\ pair[2] = text[i + 1]
    <3>1. i + 1 - 1 = i /\ i + 2 - 1 = i + 1 /\ 1 \in 1 .. 2 /\ 2 \in 1 .. 2
      BY <2>1
    <3> HIDE DEF pair
    <3> QED BY <2>1, <2>3, <3>1
  <2> HIDE DEF pair
  <2>5. ASSUME Occurs(text, marker, i) PROVE pair = marker
    <3>1. \A j \in 1 .. 2 : pair[j] = marker[j]
      BY <2>4, <2>5 DEF Occurs
    <3> QED BY <1>1, <2>3, <2>4, <3>1, SeqEqual
  <2>6. ASSUME pair = marker PROVE Occurs(text, marker, i)
    BY <2>4, <2>6 DEF Occurs
  <2> QED BY <2>1, <2>5, <2>6 DEF pair
<1> QED BY <1>1, <1>3, <1>4 DEF Found

\* The first occurrence is what IndexOf returns.
LEMMA IndexOfFirst ==
    ASSUME NEW text \in Seq(Characters), NEW marker \in Marks, NEW from \in Nat \ {0},
           NEW p \in from .. Len(text) - 1, Occurs(text, marker, p),
           \A q \in from .. p - 1 : ~Occurs(text, marker, q)
    PROVE  IndexOf(text, marker, from) = p
<1> DEFINE S == {i \in from .. Len(text) - 1 : Occurs(text, marker, i)}
<1>1. IndexOf(text, marker, from) = IF S = {} THEN 0 ELSE Min(S)
  BY IndexOfFound, FoundFacts, Zenon
<1>2. Len(text) \in Nat
  BY LenProperties
<1>3. p \in S
  OBVIOUS
<1>4. ASSUME NEW q \in S PROVE q \in Int /\ p <= q
  BY <1>2
<1> HIDE DEF S
<1>5. \A x \in S : (\A y \in S : x <= y) => x = p
  BY <1>2, <1>3, <1>4
<1>6. Min(S) = p
  BY <1>3, <1>4, <1>5 DEF Min
<1> QED BY <1>1, <1>3, <1>6

LEMMA IndexOfNone ==
    ASSUME NEW text \in Seq(Characters), NEW marker \in Marks, NEW from \in Nat \ {0},
           \A q \in from .. Len(text) - 1 : ~Occurs(text, marker, q)
    PROVE  IndexOf(text, marker, from) = 0
<1>1. Found(text, marker, from) = {}
  BY FoundFacts
<1> QED BY <1>1, IndexOfFound

\* IndexOf looks to the right.
LEMMA IndexOfRange ==
    ASSUME NEW text \in Seq(Characters), NEW marker \in Marks, NEW from \in Nat
    PROVE  \/ IndexOf(text, marker, from) = 0
           \/ IndexOf(text, marker, from) \in from .. Len(text) - 1
<1> DEFINE S == Found(text, marker, from)
<1>1. Len(marker) = 2 /\ Len(text) \in Nat
  BY MarkerFacts, LenProperties DEF Marks
<1>2. S \subseteq from .. Len(text) - 1
  BY <1>1 DEF Found
<1> HIDE DEF S
<1>3. CASE S # {}
  <2>1. S \subseteq Nat
    BY <1>1, <1>2
  <2>2. \E m \in S : \A k \in S : m <= k
    BY <1>3, <2>1, LeastNumber
  <2>3. Min(S) \in S
    BY <2>2 DEF Min
  <2>4. IndexOf(text, marker, from) = Min(S)
    BY <1>3, IndexOfFound DEF S
  <2> QED BY <1>2, <2>3, <2>4
<1>4. CASE S = {}
  BY <1>4, IndexOfFound DEF S
<1> QED BY <1>3, <1>4

-----------------------------------------------------------------------------
(* The reader's recursion *)

StartAt(text, from) == IndexOf(text, MSG_START_MARKER, from)
DeltaAt(text, from) == IndexOf(text, MSG_DELTA_MARKER, StartAt(text, from) + 2)
EndAt(text, from)   == IndexOf(text, MSG_END_MARKER, DeltaAt(text, from) + 2)
JsonAt(text, from)  == SubSeq(text, DeltaAt(text, from) + 2, EndAt(text, from) - 1)

Whole(text, from) ==
    StartAt(text, from) # 0 /\ DeltaAt(text, from) # 0 /\ EndAt(text, from) # 0

\* What is found from a place on, given what is found from the later ones on.
NextList(text, list, from) ==
    IF ~Whole(text, from) THEN <<>>
    ELSE (IF JsonAt(text, from) \in Records THEN <<JsonAt(text, from)>> ELSE <<>>)
         \o list[EndAt(text, from)]

\* The reader never stands still and never goes back.
LEMMA EndAtRight ==
    ASSUME NEW text \in Seq(Characters), NEW from \in Nat, Whole(text, from)
    PROVE  EndAt(text, from) \in from + 1 .. Len(text) - 1
<1>0. Len(text) \in Nat
  BY LenProperties
<1>1. StartAt(text, from) \in from .. Len(text) - 1
  BY IndexOfRange DEF StartAt, Whole, Marks
<1>2. StartAt(text, from) + 2 \in Nat
  BY <1>0, <1>1
<1>3. DeltaAt(text, from) \in StartAt(text, from) + 2 .. Len(text) - 1
  BY <1>2, IndexOfRange DEF DeltaAt, Whole, Marks
<1>4. DeltaAt(text, from) + 2 \in Nat
  BY <1>0, <1>2, <1>3
<1>5. EndAt(text, from) \in DeltaAt(text, from) + 2 .. Len(text) - 1
  BY <1>4, IndexOfRange DEF EndAt, Whole, Marks
<1> QED BY <1>0, <1>1, <1>3, <1>5

\* Two lists that agree to the right of a place find the same from there on.
LEMMA NextListSame ==
    ASSUME NEW text \in Seq(Characters), NEW from \in Nat, NEW f, NEW g,
           \A i \in Nat : i > from => f[i] = g[i]
    PROVE  NextList(text, f, from) = NextList(text, g, from)
<1>1. CASE Whole(text, from)
  <2>1. EndAt(text, from) \in Nat /\ EndAt(text, from) > from
    BY <1>1, EndAtRight, LenProperties
  <2>2. f[EndAt(text, from)] = g[EndAt(text, from)]
    BY <2>1
  <2> QED BY <2>2 DEF NextList
<1>2. CASE ~Whole(text, from)
  BY <1>2 DEF NextList
<1> QED BY <1>1, <1>2

\* The recursive definition has a value, which is what it says.
LEMMA UnPackSteps ==
    ASSUME NEW text \in Seq(Characters)
    PROVE  \E list : /\ UnPackArray(text) = list[1]
                     /\ \A from \in Nat : list[from] = NextList(text, list, from)
<1> DEFINE n == Len(text)
           Right(f, m) == /\ f = [x \in Nat |-> f[x]]
                          /\ \A x \in Nat : x + m > n => f[x] = NextList(text, f, x)
           S == {m \in 0 .. n + 1 : \E f : Right(f, m)}
<1>0. n \in Nat
  BY LenProperties
<1>1. 0 \in S
  <2> DEFINE f == [x \in Nat |-> <<>>]
  <2>1. ASSUME NEW x \in Nat, x + 0 > n PROVE <<>> = NextList(text, f, x)
    <3>1. ~(\E e \in x + 1 .. n - 1 : TRUE)
      BY <1>0, <2>1
    <3>2. ~Whole(text, x)
      BY <3>1, EndAtRight
    <3> QED BY <3>2 DEF NextList
  <2>2. \A x \in Nat : f[x] = <<>>
    OBVIOUS
  <2>3. f = [x \in Nat |-> f[x]]
    OBVIOUS
  <2> HIDE DEF f
  <2>4. Right(f, 0)
    BY <2>1, <2>2, <2>3
  <2>5. 0 \in 0 .. n + 1
    BY <1>0
  <2> HIDE DEF Right
  <2> QED BY <2>4, <2>5
<1>2. ASSUME NEW m \in 1 .. n + 1, m - 1 \in S PROVE m \in S
  <2>1. PICK f : Right(f, m - 1)
    BY <1>2
  <2> DEFINE here == n + 1 - m
             g == [x \in Nat |-> IF x = here THEN NextList(text, f, x) ELSE f[x]]
  <2>2. here \in Nat
    BY <1>0
  <2>3. \A x \in Nat : g[x] = IF x = here THEN NextList(text, f, x) ELSE f[x]
    OBVIOUS
  <2>4. g = [x \in Nat |-> g[x]]
    OBVIOUS
  <2> HIDE DEF g
  <2>5. ASSUME NEW x \in Nat, x + m > n PROVE g[x] = NextList(text, g, x)
    <3>1. x >= here
      BY <1>0, <2>5
    <3>2. \A i \in Nat : i > x => f[i] = g[i]
      BY <2>2, <2>3, <3>1
    <3>3. NextList(text, f, x) = NextList(text, g, x)
      BY <3>2, NextListSame
    <3>4. CASE x = here
      BY <2>3, <3>3, <3>4
    <3>5. CASE x # here
      <4>1. x + (m - 1) > n
        BY <1>0, <3>1, <3>5
      <4>2. f[x] = NextList(text, f, x)
        BY <2>1, <4>1
      <4> QED BY <2>3, <3>3, <3>5, <4>2
    <3> QED BY <3>4, <3>5
  <2>6. Right(g, m)
    BY <2>4, <2>5
  <2>7. m \in 0 .. n + 1
    BY <1>0
  <2> HIDE DEF Right
  <2> QED BY <2>6, <2>7
<1>3. n + 1 \in S
  <2>1. n + 1 \in 0 .. n + 1 /\ n + 1 \in Nat
    BY <1>0
  <2> HIDE DEF S
  <2> QED BY <1>1, <1>2, <2>1, UpTo
<1>4. PICK f : Right(f, n + 1)
  BY <1>3
<1>5. f = [x \in Nat |-> NextList(text, f, x)]
  <2>1. \A x \in Nat : x + (n + 1) > n
    BY <1>0
  <2>2. \A x \in Nat : f[x] = NextList(text, f, x)
    BY <1>4, <2>1
  <2>3. f = [x \in Nat |-> f[x]]
    BY <1>4
  <2> QED BY <2>2, <2>3, Zenon
<1> DEFINE list == CHOOSE l : l = [x \in Nat |-> NextList(text, l, x)]
<1>6. list = [x \in Nat |-> NextList(text, list, x)]
  <2> HIDE DEF NextList
  <2> QED BY <1>5, Zenon
<1>7. UnPackArray(text) = list[1]
  BY Zenon DEF UnPackArray, NextList, Whole, JsonAt, EndAt, DeltaAt, StartAt
<1> HIDE DEF list
<1>8. \A x \in Nat : list[x] = NextList(text, list, x)
  BY <1>6
<1> QED BY <1>7, <1>8

-----------------------------------------------------------------------------
(* Reading one record *)

\* After its first character no start marker begins in a packed record, nor
\* with its last character.
LEMMA PackZero ==
    ASSUME NEW r \in Records, NEW j \in 2 .. Len(Pack(r)), Pack(r)[j] = "0"
    PROVE  j + 1 \in 2 .. Len(Pack(r)) /\ Pack(r)[j + 1] # "0"
<1> DEFINE a == Len(Name)
           b == Len(r)
<1>1. a \in Nat \ {0} /\ b \in Nat /\ Len(Pack(r)) = a + b + 6
  BY PackFacts
<1>2. j = 2 \/ j - 2 \in 1 .. a \/ j = a + 3 \/ j = a + 4 \/ j - (a + 4) \in 1 .. b
      \/ j = a + b + 5 \/ j = a + b + 6
  BY <1>1
<1>3. CASE j = 2
  <2>1. Pack(r)[2 + 1] \notin Markers
    BY <1>1, PackFacts
  <2> QED BY <1>1, <1>3, <2>1 DEF Markers
<1>4. CASE j - 2 \in 1 .. a
  <2>1. PICK i \in 1 .. a : j = 2 + i
    <3>1. j = 2 + (j - 2)
      OBVIOUS
    <3> QED BY <1>4, <3>1
  <2> QED BY <2>1, PackFacts DEF Markers
<1>5. CASE j = a + 3
  <2>1. Pack(r)[a + 4] = "1" /\ j + 1 = a + 4
    BY <1>1, <1>5, PackFacts
  <2> QED BY <1>1, <1>5, <2>1
<1>6. CASE j = a + 4
  BY <1>6, PackFacts
<1>7. CASE j - (a + 4) \in 1 .. b
  <2>1. PICK i \in 1 .. b : j = a + 4 + i
    <3>1. j = a + 4 + (j - (a + 4))
      BY <1>1
    <3> QED BY <1>7, <3>1
  <2>2. r[i] \notin Markers /\ Pack(r)[j] = r[i]
    BY <2>1, PackFacts
  <2> QED BY <2>2 DEF Markers
<1>8. CASE j = a + b + 5
  <2>1. Pack(r)[a + b + 6] = "2" /\ j + 1 = a + b + 6
    BY <1>1, <1>8, PackFacts
  <2> QED BY <1>1, <1>8, <2>1
<1>9. CASE j = a + b + 6
  BY <1>9, PackFacts
<1> QED BY <1>2, <1>3, <1>4, <1>5, <1>6, <1>7, <1>8, <1>9

LEMMA PackQuiet ==
    ASSUME NEW text, NEW p \in Nat \ {0}, NEW r \in Records, Stands(text, p, r)
    PROVE  Quiet(text, p + 1, p + Len(Pack(r)) - 1)
<1> DEFINE L == Len(Pack(r))
<1>1. L \in Nat
  BY PackFacts
<1>2. ASSUME NEW q \in p + 1 .. p + L - 1, text[q] = "0"
      PROVE  q + 1 <= p + L - 1 /\ text[q + 1] # "0"
  <2> DEFINE j == q - p + 1
  <2>1. j \in 2 .. L /\ p + j - 1 = q /\ p + (j + 1) - 1 = q + 1
    BY <1>1
  <2>2. Pack(r)[j] = "0"
    BY <1>2, <2>1 DEF Stands
  <2>3. j + 1 \in 2 .. L /\ Pack(r)[j + 1] # "0"
    BY <2>1, <2>2, PackZero
  <2>4. text[q + 1] = Pack(r)[j + 1]
    BY <1>1, <2>1, <2>3 DEF Stands
  <2>5. q + 1 <= p + L - 1
    BY <1>1, <2>3
  <2> QED BY <2>3, <2>4, <2>5
<1> QED BY <1>2 DEF Quiet

\* A reader that starts before a record, with no start marker in between,
\* finds the record and goes on at its end marker.
LEMMA RecordFound ==
    ASSUME NEW text \in Seq(Characters), NEW p \in Nat \ {0}, NEW r \in Records,
           Stands(text, p, r), p + Len(Pack(r)) - 1 <= Len(text),
           NEW from \in 1 .. p, Quiet(text, from, p - 1)
    PROVE  /\ Whole(text, from) /\ JsonAt(text, from) = r
           /\ EndAt(text, from) = p + Len(Pack(r)) - 2
<1> DEFINE a == Len(Name)
           b == Len(r)
<1>1. a \in Nat \ {0} /\ b \in Nat /\ Len(Pack(r)) = a + b + 6 /\ Len(text) \in Nat
  BY PackFacts, LenProperties
<1>2. ASSUME NEW j \in 1 .. a + b + 6 PROVE text[p + j - 1] = Pack(r)[j]
  BY <1>1 DEF Stands
<1>3. StartAt(text, from) = p
  <2>1. p \in from .. Len(text) - 1 /\ from \in Nat \ {0}
    BY <1>1
  <2>2. text[p] = "0" /\ text[p + 1] = "0"
    <3>1. p + 1 - 1 = p /\ p + 2 - 1 = p + 1 /\ 1 \in 1 .. a + b + 6 /\ 2 \in 1 .. a + b + 6
      BY <1>1
    <3> QED BY <1>2, <3>1, PackFacts
  <2>3. MSG_START_MARKER[1] = "0" /\ MSG_START_MARKER[2] = "0"
    BY MarkerFacts
  <2>4. Occurs(text, MSG_START_MARKER, p)
    BY <2>2, <2>3 DEF Occurs
  <2>5. \A q \in from .. p - 1 : ~Occurs(text, MSG_START_MARKER, q)
    BY <2>3 DEF Quiet, Occurs
  <2> QED BY <2>1, <2>4, <2>5, IndexOfFirst DEF StartAt, Marks
<1>4. DeltaAt(text, from) = p + a + 2
  <2>1. p + a + 2 \in p + 2 .. Len(text) - 1 /\ p + 2 \in Nat \ {0}
    BY <1>1
  <2>2. text[p + a + 2] = "0" /\ text[p + a + 2 + 1] = "1"
    <3>1. /\ p + (a + 3) - 1 = p + a + 2 /\ p + (a + 4) - 1 = p + a + 2 + 1
          /\ a + 3 \in 1 .. a + b + 6 /\ a + 4 \in 1 .. a + b + 6
      BY <1>1
    <3> QED BY <1>2, <3>1, PackFacts
  <2>3. MSG_DELTA_MARKER[1] = "0" /\ MSG_DELTA_MARKER[2] = "1"
    BY DEF MSG_DELTA_MARKER
  <2>4. Occurs(text, MSG_DELTA_MARKER, p + a + 2)
    BY <2>2, <2>3 DEF Occurs
  <2>5. ASSUME NEW q \in p + 2 .. p + a + 2 - 1 PROVE ~Occurs(text, MSG_DELTA_MARKER, q)
    <3>1. q - p - 1 \in 1 .. a /\ 2 + (q - p - 1) \in 1 .. a + b + 6
          /\ p + (2 + (q - p - 1)) - 1 = q
      BY <1>1
    <3>2. text[q] = Pack(r)[2 + (q - p - 1)]
      BY <1>2, <3>1
    <3>3. Pack(r)[2 + (q - p - 1)] \notin Markers
      BY <3>1, PackFacts
    <3> QED BY <2>3, <3>2, <3>3 DEF Occurs, Markers
  <2>6. IndexOf(text, MSG_DELTA_MARKER, p + 2) = p + a + 2
    BY <2>1, <2>4, <2>5, IndexOfFirst DEF Marks
  <2> QED BY <1>3, <2>6 DEF DeltaAt
<1>5. EndAt(text, from) = p + a + b + 4
  <2>1. p + a + b + 4 \in p + a + 4 .. Len(text) - 1 /\ p + a + 4 \in Nat \ {0}
    BY <1>1
  <2>2. text[p + a + b + 4] = "0" /\ text[p + a + b + 4 + 1] = "2"
    <3>1. /\ p + (a + b + 5) - 1 = p + a + b + 4 /\ p + (a + b + 6) - 1 = p + a + b + 4 + 1
          /\ a + b + 5 \in 1 .. a + b + 6 /\ a + b + 6 \in 1 .. a + b + 6
      BY <1>1
    <3> QED BY <1>2, <3>1, PackFacts
  <2>3. MSG_END_MARKER[1] = "0" /\ MSG_END_MARKER[2] = "2"
    BY DEF MSG_END_MARKER
  <2>4. Occurs(text, MSG_END_MARKER, p + a + b + 4)
    BY <2>2, <2>3 DEF Occurs
  <2>5. ASSUME NEW q \in p + a + 4 .. p + a + b + 4 - 1
        PROVE  ~Occurs(text, MSG_END_MARKER, q)
    <3>1. q - p - a - 3 \in 1 .. b /\ a + 4 + (q - p - a - 3) \in 1 .. a + b + 6
          /\ p + (a + 4 + (q - p - a - 3)) - 1 = q
      BY <1>1
    <3>2. text[q] = Pack(r)[a + 4 + (q - p - a - 3)]
      BY <1>2, <3>1
    <3>3. Pack(r)[a + 4 + (q - p - a - 3)] \notin Markers
      BY <3>1, PackFacts
    <3> QED BY <2>3, <3>2, <3>3 DEF Occurs, Markers
  <2>6. IndexOf(text, MSG_END_MARKER, p + a + 4) = p + a + b + 4
    BY <2>1, <2>4, <2>5, IndexOfFirst DEF Marks
  <2>7. p + a + 2 + 2 = p + a + 4
    BY <1>1
  <2> QED BY <1>4, <2>6, <2>7 DEF EndAt
<1>6. JsonAt(text, from) = r
  <2> DEFINE json == SubSeq(text, p + a + 4, p + a + b + 3)
  <2>1. JsonAt(text, from) = json
    <3>1. p + a + 2 + 2 = p + a + 4 /\ p + a + b + 4 - 1 = p + a + b + 3
      BY <1>1
    <3> QED BY <1>4, <1>5, <3>1 DEF JsonAt
  <2>2. ASSUME NEW i \in 1 .. b PROVE text[p + a + 4 + i - 1] = r[i]
    <3>1. a + 4 + i \in 1 .. a + b + 6 /\ p + (a + 4 + i) - 1 = p + a + 4 + i - 1
      BY <1>1
    <3>2. Pack(r)[a + 4 + i] = r[i]
      BY PackFacts
    <3> QED BY <1>2, <3>1, <3>2
  <2>3. \A i \in p + a + 4 .. p + a + b + 3 : text[i] \in Characters
    <3>1. \A i \in p + a + 4 .. p + a + b + 3 : i \in 1 .. Len(text)
      BY <1>1
    <3> QED BY <3>1, ElementOfSeq
  <2>4. p + a + 4 \in Int /\ p + a + b + 3 \in Int
    BY <1>1
  <2>5. /\ json \in Seq(Characters)
        /\ Len(json) = IF p + a + 4 <= p + a + b + 3
                       THEN p + a + b + 3 - (p + a + 4) + 1 ELSE 0
        /\ \A i \in 1 .. p + a + b + 3 - (p + a + 4) + 1 :
             json[i] = text[p + a + 4 + i - 1]
    BY <2>3, <2>4, SubSeqProperties
  <2> HIDE DEF json
  <2>6. p + a + b + 3 - (p + a + 4) + 1 = b
    BY <1>1
  <2>7. Len(json) = b
    BY <1>1, <2>5
  <2>8. \A i \in 1 .. b : json[i] = r[i]
    BY <2>2, <2>5, <2>6
  <2>9. r \in Seq(Characters)
    <3>1. r \in Seq(Characters \ Markers)
      BY RecordsAssumption DEF Texts
    <3> QED BY <3>1, SeqMonotonic
  <2>10. json = r
    BY <2>5, <2>7, <2>8, <2>9, SeqEqual
  <2> QED BY <2>1, <2>10
<1>7. p # 0 /\ p + a + 2 # 0 /\ p + a + b + 4 # 0 /\ p + (a + b + 6) - 2 = p + a + b + 4
  BY <1>1
<1> QED BY <1>1, <1>3, <1>4, <1>5, <1>6, <1>7 DEF Whole

-----------------------------------------------------------------------------
(* Reading a whole text *)

LEMMA LayoutFacts ==
    ASSUME NEW text, NEW at, NEW list, Layout(text, at, list)
    PROVE  /\ Len(list) \in Nat /\ Len(text) \in Nat
           /\ at[Len(list) + 1] = Len(text) + 1
           /\ \A i \in 1 .. Len(list) + 1 : at[i] \in Nat \ {0} /\ at[i] <= Len(text) + 1
           /\ \A i \in 1 .. Len(list) :
                /\ list[i] \in Records /\ Stands(text, at[i], list[i])
                /\ at[i + 1] = at[i] + Len(Pack(list[i])) /\ at[i] + 7 <= at[i + 1]
                /\ Quiet(text, at[i] + 1, at[i + 1] - 1)
<1> DEFINE n == Len(list)
<1>1. n \in Nat /\ Len(text) \in Nat
  BY LenProperties DEF Layout
<1>2. at[n + 1] = Len(text) + 1
  BY DEF Layout, Places
<1>3. ASSUME NEW i \in 1 .. n + 1 PROVE at[i] \in Nat \ {0}
  BY <1>3 DEF Layout, Places
<1>4. ASSUME NEW i \in 1 .. n + 1 PROVE at[i] <= Len(text) + 1
  <2>1. n + 1 \in 1 .. n + 1 /\ i <= n + 1
    BY <1>1
  <2>2. 7 * (n + 1 - i) <= at[n + 1] - at[i]
    BY <2>1 DEF Layout, Places
  <2>3. 0 <= n + 1 - i
    BY <1>1
  <2>4. 0 <= 7 * (n + 1 - i)
    BY <1>1, <2>3
  <2> QED BY <1>1, <1>2, <1>3, <2>2, <2>4
<1>5. ASSUME NEW i \in 1 .. n
      PROVE  /\ list[i] \in Records /\ Stands(text, at[i], list[i])
             /\ at[i + 1] = at[i] + Len(Pack(list[i])) /\ at[i] + 7 <= at[i + 1]
             /\ Quiet(text, at[i] + 1, at[i + 1] - 1)
  <2>1. list[i] \in Records
    BY ElementOfSeq DEF Layout
  <2>2. Stands(text, at[i], list[i]) /\ at[i + 1] = at[i] + Len(Pack(list[i]))
    BY DEF Layout, Places
  <2>3. i \in 1 .. n + 1 /\ i + 1 \in 1 .. n + 1 /\ i <= i + 1 /\ 7 * (i + 1 - i) = 7
    BY <1>1
  <2>4. 7 * (i + 1 - i) <= at[i + 1] - at[i]
    BY <2>3 DEF Layout, Places
  <2>5. at[i] + 7 <= at[i + 1]
    BY <1>3, <2>3, <2>4
  <2>6. Quiet(text, at[i] + 1, at[i] + Len(Pack(list[i])) - 1)
    BY <1>3, <2>1, <2>2, <2>3, PackQuiet
  <2>7. Quiet(text, at[i] + 1, at[i + 1] - 1)
    <3>1. PICK t : t = at[i + 1]
      OBVIOUS
    <3>2. t = at[i] + Len(Pack(list[i]))
      BY <2>2, <3>1
    <3>3. Quiet(text, at[i] + 1, t - 1)
      <4>1. at[i] \in Nat /\ Len(Pack(list[i])) \in Nat
        BY <1>3, <2>1, <2>3, PackFacts
      <4> QED BY <2>6, <3>2, <4>1 DEF Quiet
    <3> QED BY <3>1, <3>3
  <2> QED BY <2>1, <2>2, <2>5, <2>7
<1> QED BY <1>1, <1>2, <1>3, <1>4, <1>5

\* The reader finds exactly the whole records of a text.
LEMMA ReadsAll ==
    ASSUME NEW text, NEW at, NEW list, Layout(text, at, list)
    PROVE  UnPackArray(text) = list
<1> DEFINE n == Len(list)
           From(i) == IF i = 1 THEN 1 ELSE at[i] - 2
           Rest(i) == SubSeq(list, i, n)
<1>1. text \in Seq(Characters) /\ list \in Seq(Records) /\ Quiet(text, 1, at[1] - 1)
  BY DEF Layout
<1>2. n \in Nat /\ Len(text) \in Nat
  BY LayoutFacts
<1>3. PICK read : /\ UnPackArray(text) = read[1]
                  /\ \A x \in Nat : read[x] = NextList(text, read, x)
  BY <1>1, UnPackSteps
<1>4. ASSUME NEW i \in 1 .. n + 1
      PROVE  From(i) \in 1 .. at[i] /\ Quiet(text, From(i), at[i] - 1)
  <2>1. at[i] \in Nat \ {0}
    BY LayoutFacts
  <2>2. CASE i = 1
    BY <1>1, <2>1, <2>2
  <2>3. CASE i # 1
    <3>1. i - 1 \in 1 .. n /\ i - 1 + 1 = i /\ i - 1 \in 1 .. n + 1
      BY <1>2, <2>3
    <3>2. at[i - 1] + 7 <= at[i - 1 + 1] /\ Quiet(text, at[i - 1] + 1, at[i - 1 + 1] - 1)
      BY <3>1, LayoutFacts
    <3>3. at[i - 1] \in Nat \ {0}
      BY <3>1, LayoutFacts
    <3>4. From(i) = at[i] - 2 /\ at[i] - 2 \in at[i - 1] + 1 .. at[i] - 1
      BY <2>1, <2>3, <3>1, <3>2, <3>3
    <3>5. Quiet(text, at[i - 1] + 1, at[i] - 1)
      BY <3>1, <3>2
    <3>6. Quiet(text, at[i] - 2, at[i] - 1)
      <4>1. \A q \in at[i] - 2 .. at[i] - 1 : q \in at[i - 1] + 1 .. at[i] - 1
        BY <2>1, <3>3, <3>4
      <4> QED BY <3>5, <4>1 DEF Quiet
    <3>7. at[i] - 2 \in 1 .. at[i]
      BY <2>1, <3>3, <3>4
    <3> QED BY <3>4, <3>6, <3>7
  <2> QED BY <2>2, <2>3
<1>5. read[From(n + 1)] = Rest(n + 1)
  <2>1. n + 1 \in 1 .. n + 1 /\ at[n + 1] = Len(text) + 1
    BY <1>2, LayoutFacts
  <2>2. From(n + 1) \in Nat \ {0} /\ Quiet(text, From(n + 1), Len(text))
    <3>1. From(n + 1) \in 1 .. at[n + 1] /\ Quiet(text, From(n + 1), at[n + 1] - 1)
      BY <1>4, <2>1
    <3>2. at[n + 1] - 1 = Len(text)
      BY <1>2, <2>1
    <3> HIDE DEF From
    <3> QED BY <1>2, <2>1, <3>1, <3>2
  <2> HIDE DEF From
  <2>3. \A q \in From(n + 1) .. Len(text) - 1 : ~Occurs(text, MSG_START_MARKER, q)
    <3>1. MSG_START_MARKER[1] = "0" /\ MSG_START_MARKER[2] = "0"
      BY MarkerFacts
    <3> QED BY <1>2, <2>2, <3>1 DEF Quiet, Occurs
  <2>4. StartAt(text, From(n + 1)) = 0
    BY <1>1, <2>2, <2>3, IndexOfNone DEF StartAt, Marks
  <2>5. read[From(n + 1)] = <<>>
    BY <1>3, <2>2, <2>4 DEF NextList, Whole
  <2>6. Rest(n + 1) = <<>>
    <3>1. n + 1 \in Int /\ n \in Int /\ n < n + 1
      BY <1>2
    <3> QED BY <3>1, SubSeqEmpty
  <2> QED BY <2>5, <2>6
<1>6. ASSUME NEW i \in 1 .. n, read[From(i + 1)] = Rest(i + 1)
      PROVE  read[From(i)] = Rest(i)
  <2> DEFINE r == list[i]
             p == at[i]
             L == Len(Pack(r))
  <2>1. i \in 1 .. n + 1 /\ i + 1 \in 1 .. n + 1 /\ i + 1 # 1
    BY <1>2
  <2>2. /\ r \in Records /\ Stands(text, p, r) /\ at[i + 1] = p + L
        /\ p \in Nat \ {0} /\ at[i + 1] <= Len(text) + 1
    BY <2>1, LayoutFacts
  <2>3. L \in Nat /\ p + L - 1 <= Len(text)
    <3>1. L \in Nat
      BY <2>2, PackFacts
    <3>2. p + L <= Len(text) + 1
      BY <2>2
    <3> HIDE DEF p, L
    <3> QED BY <1>2, <2>2, <3>1, <3>2
  <2>4. From(i) \in 1 .. p /\ Quiet(text, From(i), p - 1)
    BY <1>4, <2>1
  <2>5. From(i + 1) = p + L - 2
    BY <2>1, <2>2
  <2> HIDE DEF From, p, r
  <2>6. /\ Whole(text, From(i)) /\ JsonAt(text, From(i)) = r
        /\ EndAt(text, From(i)) = p + L - 2
    BY <1>1, <2>2, <2>3, <2>4, RecordFound
  <2>7. read[From(i)] = <<r>> \o read[From(i + 1)]
    <3>1. From(i) \in Nat
      BY <2>2, <2>4
    <3> QED BY <1>3, <2>2, <2>5, <2>6, <3>1 DEF NextList
  <2>8. Rest(i) = <<r>> \o Rest(i + 1)
    <3>1. n \in i .. Len(list)
      BY <1>2
    <3> QED BY <1>1, <3>1, SubSeqRecursiveFirst DEF r
  <2> QED BY <1>6, <2>7, <2>8
<1> DEFINE S == {k \in 0 .. n : read[From(n + 1 - k)] = Rest(n + 1 - k)}
<1> HIDE DEF From, Rest
<1>7. 0 \in S
  <2>1. 0 \in 0 .. n /\ n + 1 - 0 = n + 1
    BY <1>2
  <2> QED BY <1>5, <2>1
<1>8. ASSUME NEW k \in 1 .. n, k - 1 \in S PROVE k \in S
  <2>1. k \in 0 .. n /\ n + 1 - k \in 1 .. n /\ n + 1 - (k - 1) = n + 1 - k + 1
    BY <1>2
  <2>2. read[From(n + 1 - k + 1)] = Rest(n + 1 - k + 1)
    BY <1>8, <2>1
  <2>3. read[From(n + 1 - k)] = Rest(n + 1 - k)
    BY <1>6, <2>1, <2>2
  <2> QED BY <2>1, <2>3
<1>9. read[From(1)] = Rest(1)
  <2>1. n \in 0 .. n /\ n + 1 - n = 1
    BY <1>2
  <2>2. n \in S
    <3> HIDE DEF S
    <3> QED BY <1>2, <1>7, <1>8, <2>1, UpTo
  <2> QED BY <2>1, <2>2
<1>10. From(1) = 1 /\ Rest(1) = list
  BY <1>1, SubSeqFull DEF From, Rest
<1> QED BY <1>3, <1>9, <1>10

-----------------------------------------------------------------------------
(* Writing and cutting *)

\* A record written is one whole record more.
LEMMA LayoutWritten ==
    ASSUME NEW text, NEW at, NEW list, Layout(text, at, list), NEW r \in Records
    PROVE  \E place : Layout(text \o Pack(r), place, Append(list, r))
<1> DEFINE n == Len(list)
           T == Len(text)
           L == Len(Pack(r))
           u == text \o Pack(r)
           more == Append(list, r)
           place == [i \in 1 .. n + 2 |-> IF i = n + 2 THEN T + L + 1 ELSE at[i]]
<1>1. n \in Nat /\ T \in Nat /\ at[n + 1] = T + 1
  BY LayoutFacts
<1>2. L \in Nat /\ L >= 7 /\ Pack(r) \in Seq(Characters)
  BY PackFacts
<1>3. /\ u \in Seq(Characters) /\ Len(u) = T + L
      /\ \A i \in 1 .. T : u[i] = text[i]
      /\ \A i \in 1 .. L : u[T + i] = Pack(r)[i]
  <2>1. text \in Seq(Characters)
    BY DEF Layout
  <2>2. Joined(u, text, T, Pack(r), L)
    BY <1>2, <2>1, Join, Zenon
  <2> HIDE DEF u
  <2> QED BY <2>2 DEF Joined
<1>4. /\ more \in Seq(Records) /\ Len(more) = n + 1 /\ more[n + 1] = r
      /\ \A i \in 1 .. n : more[i] = list[i]
  BY AppendProperties DEF Layout
<1>5. /\ \A i \in 1 .. n + 1 : place[i] = at[i]
      /\ place[n + 2] = T + L + 1
      /\ place = [i \in 1 .. n + 2 |-> place[i]]
  BY <1>1
<1> HIDE DEF u, more, place
<1>6. \A i \in 1 .. n + 2 : place[i] \in Nat \ {0}
  <2>1. \A i \in 1 .. n + 1 : at[i] \in Nat \ {0}
    BY LayoutFacts
  <2>2. T + L + 1 \in Nat \ {0}
    BY <1>1, <1>2
  <2>3. \A i \in 1 .. n + 2 : i \in 1 .. n + 1 \/ i = n + 2
    BY <1>1
  <2>4. \A i \in 1 .. n + 1 : place[i] \in Nat \ {0}
    BY <1>5, <2>1
  <2>5. place[n + 2] \in Nat \ {0}
    BY <1>5, <2>2
  <2> QED BY <2>3, <2>4, <2>5, Zenon
<1>7. ASSUME NEW i \in 1 .. n + 1
      PROVE  place[i + 1] = place[i] + Len(Pack(more[i])) /\ Stands(u, place[i], more[i])
  <2>1. CASE i = n + 1
    <3>1. place[i] = T + 1 /\ place[i + 1] = T + L + 1 /\ more[i] = r
      <4>1. i + 1 = n + 2
        BY <1>1, <2>1
      <4> QED BY <1>1, <1>4, <1>5, <2>1, <4>1
    <3>2. ASSUME NEW j \in 1 .. L PROVE u[T + 1 + j - 1] = Pack(r)[j]
      <4>1. T + 1 + j - 1 = T + j
        BY <1>1
      <4> QED BY <1>3, <4>1
    <3>3. T + L + 1 = T + 1 + L
      BY <1>1, <1>2
    <3> QED BY <3>1, <3>2, <3>3 DEF Stands
  <2>2. CASE i # n + 1
    <3>1. i \in 1 .. n /\ i + 1 \in 1 .. n + 1
      BY <1>1, <2>2
    <3>2. place[i] = at[i] /\ place[i + 1] = at[i + 1] /\ more[i] = list[i]
      BY <1>4, <1>5, <3>1
    <3>3. /\ list[i] \in Records /\ Stands(text, at[i], list[i])
          /\ at[i + 1] = at[i] + Len(Pack(list[i])) /\ at[i + 1] <= T + 1
          /\ at[i] \in Nat \ {0}
      BY <3>1, LayoutFacts
    <3>4. Len(Pack(list[i])) \in Nat
      BY <3>3, PackFacts
    <3>5. ASSUME NEW j \in 1 .. Len(Pack(list[i]))
          PROVE  u[at[i] + j - 1] = Pack(list[i])[j]
      <4>1. at[i] + j - 1 \in 1 .. T
        BY <1>1, <3>3, <3>4
      <4> QED BY <1>3, <3>3, <4>1 DEF Stands
    <3> QED BY <3>2, <3>3, <3>5 DEF Stands
  <2> QED BY <2>1, <2>2
<1>8. ASSUME NEW i \in 1 .. n + 2, NEW j \in 1 .. n + 2, i <= j
      PROVE  7 * (j - i) <= place[j] - place[i]
  <2>1. \A x, y \in 1 .. n + 1 : x <= y => 7 * (y - x) <= at[y] - at[x]
    BY DEF Layout, Places
  <2>2. CASE j # n + 2
    <3>1. i \in 1 .. n + 1 /\ j \in 1 .. n + 1
      BY <1>1, <1>8, <2>2
    <3> QED BY <1>5, <1>8, <2>1, <3>1
  <2>3. CASE i = j
    BY <1>6, <2>3
  <2>4. CASE j = n + 2 /\ i # j
    <3>1. i \in 1 .. n + 1 /\ n + 1 \in 1 .. n + 1 /\ i <= n + 1
      BY <1>1, <1>8, <2>4
    <3>2. 7 * (n + 1 - i) <= at[n + 1] - at[i]
      BY <2>1, <3>1
    <3>3. place[j] = T + L + 1 /\ place[i] = at[i] /\ at[i] \in Nat
      BY <1>5, <2>4, <3>1, LayoutFacts
    <3> QED BY <1>1, <1>2, <2>4, <3>1, <3>2, <3>3
  <2> QED BY <2>2, <2>3, <2>4
<1>9. Quiet(u, 1, place[1] - 1)
  <2>1. place[1] = at[1] /\ at[1] \in Nat \ {0} /\ at[1] <= T + 1
    <3>1. 1 \in 1 .. n + 1
      BY <1>1
    <3> QED BY <1>5, <3>1, LayoutFacts
  <2>2. Quiet(text, 1, at[1] - 1)
    BY DEF Layout
  <2>3. \A q \in 1 .. at[1] - 1 : u[q] = text[q]
    BY <1>1, <1>3, <2>1
  <2>4. ASSUME NEW q \in 1 .. at[1] - 1, u[q] = "0"
        PROVE  q + 1 <= at[1] - 1 /\ u[q + 1] # "0"
    <3>1. q + 1 <= at[1] - 1 /\ text[q + 1] # "0"
      BY <2>2, <2>3, <2>4 DEF Quiet
    <3>2. q + 1 \in 1 .. at[1] - 1
      BY <2>1, <3>1
    <3> QED BY <2>3, <3>1, <3>2
  <2> QED BY <2>1, <2>4 DEF Quiet
<1>10. Places(u, place, more)
  <2>1. place \in [1 .. n + 1 + 1 -> Nat \ {0}] /\ place[n + 1 + 1] = T + L + 1
    <3>1. n + 1 + 1 = n + 2
      BY <1>1
    <3>2. place \in [1 .. n + 2 -> Nat \ {0}]
      BY <1>5, <1>6
    <3> QED BY <1>5, <3>1, <3>2
  <2>2. \A i, j \in 1 .. n + 1 + 1 : i <= j => 7 * (j - i) <= place[j] - place[i]
    <3>1. n + 1 + 1 = n + 2
      BY <1>1
    <3> QED BY <1>8, <3>1
  <2> QED BY <1>3, <1>4, <1>7, <2>1, <2>2 DEF Places
<1>11. Layout(u, place, more)
  BY <1>3, <1>4, <1>7, <1>9, <1>10 DEF Layout
<1> QED BY <1>11 DEF u, more

\* What is left of a text when the front is cut off, wherever the cut falls
\* before the last record: the whole records behind the cut.
LEMMA LayoutCut ==
    ASSUME NEW text, NEW at, NEW list, Layout(text, at, list), list # <<>>,
           NEW h \in Nat, h < at[Len(list)]
    PROVE  \E place : \E k \in 1 .. Len(list) :
             Layout(SubSeq(text, h + 1, Len(text)), place, SubSeq(list, k, Len(list)))
<1> DEFINE n == Len(list)
           T == Len(text)
           u == SubSeq(text, h + 1, T)
<1>0. text \in Seq(Characters) /\ list \in Seq(Records)
  BY DEF Layout
<1>1. n \in Nat \ {0} /\ T \in Nat /\ at[n + 1] = T + 1 /\ n \in 1 .. n
  BY <1>0, EmptySeq, LayoutFacts
<1>2. \A i \in 1 .. n + 1 : at[i] \in Nat \ {0} /\ at[i] <= T + 1
  BY LayoutFacts
<1>3. PICK k \in 1 .. n : at[k] > h /\ (k = 1 \/ at[k - 1] <= h)
  <2> DEFINE S == {i \in 1 .. n : at[i] > h}
  <2>1. n \in S
    BY <1>1, <1>2
  <2>2. S \subseteq Nat
    OBVIOUS
  <2>3. PICK k \in S : \A i \in S : k <= i
    <3> HIDE DEF S
    <3> QED BY <2>1, <2>2, LeastNumber
  <2>4. ASSUME k # 1 PROVE at[k - 1] <= h
    <3>1. k - 1 \in 1 .. n /\ ~(k <= k - 1) /\ k - 1 \in 1 .. n + 1
      BY <1>1, <2>4
    <3>2. ~(at[k - 1] > h)
      BY <2>3, <3>1
    <3> QED BY <1>2, <3>1, <3>2
  <2> QED BY <2>3, <2>4
<1> DEFINE m == n - k + 1
           rest == SubSeq(list, k, n)
           place == [i \in 1 .. m + 1 |-> at[k + i - 1] - h]
<1>4. m \in Nat \ {0} /\ k + (m + 1) - 1 = n + 1
  BY <1>1
<1>5. at[k] + 7 <= T + 1 /\ at[k] \in Nat /\ h < T
  <2>1. at[k] + 7 <= at[k + 1] /\ at[k + 1] <= T + 1 /\ at[k] \in Nat
    <3>1. k + 1 \in 1 .. n + 1 /\ k \in 1 .. n + 1
      BY <1>1
    <3>2. at[k] + 7 <= at[k + 1]
      BY LayoutFacts
    <3> QED BY <1>2, <3>1, <3>2
  <2>2. at[k + 1] \in Nat
    <3>1. k + 1 \in 1 .. n + 1
      BY <1>1
    <3> QED BY <1>2, <3>1
  <2> QED BY <1>1, <1>3, <2>1, <2>2
<1>6. u \in Seq(Characters) /\ Len(u) = T - h /\ \A i \in 1 .. T - h : u[i] = text[h + i]
  <2>1. h + 1 \in Int /\ T \in Int /\ h + 1 <= T /\ T - (h + 1) + 1 = T - h
    BY <1>1, <1>5
  <2>2. \A i \in h + 1 .. T : text[i] \in Characters
    <3>1. \A i \in h + 1 .. T : i \in 1 .. T
      BY <1>1
    <3> QED BY <1>0, <3>1, ElementOfSeq
  <2>3. /\ u \in Seq(Characters) /\ Len(u) = IF h + 1 <= T THEN T - (h + 1) + 1 ELSE 0
        /\ \A i \in 1 .. T - (h + 1) + 1 : u[i] = text[h + 1 + i - 1]
    BY <2>1, <2>2, SubSeqProperties
  <2> HIDE DEF u
  <2>4. ASSUME NEW i \in 1 .. T - h PROVE u[i] = text[h + i]
    <3>1. h + 1 + i - 1 = h + i
      BY <1>1
    <3> QED BY <2>1, <2>3, <3>1
  <2> QED BY <2>1, <2>3, <2>4
<1>7. /\ rest \in Seq(Records) /\ Len(rest) = m
      /\ \A i \in 1 .. m : rest[i] = list[k + i - 1]
  <2>1. k \in Int /\ n \in Int /\ k <= n
    BY <1>1
  <2>2. \A i \in k .. n : list[i] \in Records
    <3>1. \A i \in k .. n : i \in 1 .. n
      BY <1>1
    <3> QED BY <1>0, <3>1, ElementOfSeq
  <2> QED BY <2>1, <2>2, SubSeqProperties
<1>8. \A i \in 1 .. m + 1 : place[i] = at[k + i - 1] - h
  OBVIOUS
<1>9. place = [i \in 1 .. m + 1 |-> place[i]]
  OBVIOUS
<1> HIDE DEF u, rest, place
<1>10. \A x, y \in 1 .. n + 1 : x <= y => 7 * (y - x) <= at[y] - at[x]
  BY DEF Layout, Places
<1>11. ASSUME NEW i \in 1 .. m + 1
       PROVE  k + i - 1 \in 1 .. n + 1 /\ place[i] \in Nat \ {0}
  <2>1. k + i - 1 \in 1 .. n + 1 /\ k \in 1 .. n + 1 /\ k <= k + i - 1
    BY <1>1
  <2>2. 7 * (k + i - 1 - k) <= at[k + i - 1] - at[k]
    BY <1>10, <2>1
  <2>3. 0 <= k + i - 1 - k
    BY <1>1
  <2>4. at[k + i - 1] \in Nat /\ at[k] \in Nat
    BY <1>2, <2>1
  <2>5. at[k] <= at[k + i - 1]
    <3>1. 0 <= 7 * (k + i - 1 - k)
      BY <2>3
    <3> QED BY <2>2, <2>4, <3>1
  <2>6. at[k + i - 1] - h \in Nat \ {0}
    BY <1>3, <2>4, <2>5
  <2> QED BY <1>8, <2>1, <2>6
<1>12. ASSUME NEW i \in 1 .. m
       PROVE  place[i + 1] = place[i] + Len(Pack(rest[i])) /\ Stands(u, place[i], rest[i])
  <2> DEFINE j == k + i - 1
             r == list[j]
             L == Len(Pack(r))
  <2>1. j \in 1 .. n /\ j + 1 = k + (i + 1) - 1 /\ i \in 1 .. m + 1 /\ i + 1 \in 1 .. m + 1
    BY <1>1
  <2>2. j + 1 \in 1 .. n + 1 /\ j \in 1 .. n + 1
    BY <1>1, <2>1
  <2>3. /\ r \in Records /\ Stands(text, at[j], r) /\ at[j + 1] = at[j] + L
    BY <2>1, LayoutFacts
  <2>4. place[i] = at[j] - h /\ place[i + 1] = at[j + 1] - h /\ rest[i] = r
    BY <1>7, <1>8, <2>1
  <2>5. at[j] \in Nat /\ at[j + 1] <= T + 1 /\ place[i] \in Nat \ {0}
    BY <1>2, <1>11, <2>1, <2>2
  <2> HIDE DEF j, r
  <2>6. L \in Nat /\ at[j] + L <= T + 1
    <3>1. L \in Nat
      BY <2>3, PackFacts
    <3> QED BY <2>3, <2>5, <3>1
  <2>7. place[i + 1] = place[i] + L
    BY <2>3, <2>4, <2>5, <2>6
  <2>8. ASSUME NEW x \in 1 .. L PROVE u[place[i] + x - 1] = Pack(r)[x]
    <3>1. /\ place[i] + x - 1 \in 1 .. T - h
          /\ h + (place[i] + x - 1) = at[j] + x - 1
      <4> HIDE DEF L
      <4>1. place[i] = at[j] - h
        BY <2>4
      <4>2. \A a \in Nat : \A b \in Nat \ {0} : a + L <= T + 1 /\ b = a - h =>
              b + x - 1 \in 1 .. T - h /\ h + (b + x - 1) = a + x - 1
        BY <1>1, <2>6
      <4> QED BY <2>5, <2>6, <4>1, <4>2
    <3>2. u[place[i] + x - 1] = text[at[j] + x - 1]
      BY <1>6, <3>1
    <3> QED BY <2>3, <3>2 DEF Stands
  <2>9. Stands(u, place[i], r)
    BY <2>8 DEF Stands
  <2> QED BY <2>4, <2>7, <2>9
<1>13. ASSUME NEW i \in 1 .. m + 1, NEW j \in 1 .. m + 1, i <= j
       PROVE  7 * (j - i) <= place[j] - place[i]
  <2>1. k + i - 1 \in 1 .. n + 1 /\ k + j - 1 \in 1 .. n + 1 /\ k + i - 1 <= k + j - 1
    BY <1>11, <1>13
  <2>2. 7 * (k + j - 1 - (k + i - 1)) <= at[k + j - 1] - at[k + i - 1]
    BY <1>10, <2>1
  <2>3. k + j - 1 - (k + i - 1) = j - i
    BY <1>1
  <2>4. at[k + j - 1] \in Nat /\ at[k + i - 1] \in Nat
    BY <1>2, <2>1
  <2>5. at[k + j - 1] - at[k + i - 1] = place[j] - place[i]
    BY <1>8, <2>4
  <2> QED BY <2>2, <2>3, <2>5
<1>14. Quiet(u, 1, place[1] - 1)
  <2>1. place[1] = at[k] - h
    <3>1. 1 \in 1 .. m + 1 /\ k + 1 - 1 = k
      BY <1>4
    <3> QED BY <1>8, <3>1
  <2>2. ASSUME NEW q \in h + 1 .. at[k] - 1, text[q] = "0"
        PROVE  q + 1 <= at[k] - 1 /\ text[q + 1] # "0"
    <3>1. CASE k = 1
      <4>1. q \in 1 .. at[1] - 1
        BY <1>5, <3>1
      <4> QED BY <2>2, <3>1, <4>1 DEF Layout, Quiet
    <3>2. CASE k # 1
      <4>1. k - 1 \in 1 .. n /\ k - 1 + 1 = k /\ k - 1 \in 1 .. n + 1
        BY <1>1, <3>2
      <4>2. Quiet(text, at[k - 1] + 1, at[k - 1 + 1] - 1)
        BY <4>1, LayoutFacts
      <4>3. q \in at[k - 1] + 1 .. at[k] - 1
        <5>1. at[k - 1] \in Nat /\ at[k - 1] <= h
          BY <1>2, <1>3, <3>2, <4>1
        <5> QED BY <1>5, <5>1
      <4> QED BY <2>2, <4>1, <4>2, <4>3 DEF Quiet
    <3> QED BY <3>1, <3>2
  <2>3. ASSUME NEW q \in 1 .. at[k] - h - 1, u[q] = "0"
        PROVE  q + 1 <= at[k] - h - 1 /\ u[q + 1] # "0"
    <3>1. /\ h + q \in h + 1 .. at[k] - 1 /\ q \in 1 .. T - h /\ q + 1 \in 1 .. T - h
          /\ h + (q + 1) = h + q + 1
      <4>1. \A a \in Nat : a + 7 <= T + 1 /\ q \in 1 .. a - h - 1 =>
              /\ h + q \in h + 1 .. a - 1 /\ q \in 1 .. T - h /\ q + 1 \in 1 .. T - h
              /\ h + (q + 1) = h + q + 1
        BY <1>1
      <4> QED BY <1>5, <4>1
    <3>2. h + q + 1 <= at[k] - 1 /\ text[h + q + 1] # "0"
      BY <1>6, <2>2, <2>3, <3>1
    <3>3. q + 1 <= at[k] - h - 1
      BY <1>5, <3>2
    <3> QED BY <1>6, <3>1, <3>2, <3>3
  <2> QED BY <2>1, <2>3 DEF Quiet
<1>15. Places(u, place, rest)
  <2>1. place \in [1 .. m + 1 -> Nat \ {0}]
    BY <1>9, <1>11
  <2>2. place[m + 1] = T - h + 1
    <3>1. m + 1 \in 1 .. m + 1
      BY <1>4
    <3>2. place[m + 1] = at[k + (m + 1) - 1] - h
      <4> HIDE DEF m
      <4> QED BY <1>8, <3>1
    <3>3. place[m + 1] = at[n + 1] - h
      <4> HIDE DEF m
      <4> QED BY <1>4, <3>2
    <3> QED BY <1>1, <3>3
  <2> HIDE DEF m
  <2> QED BY <1>6, <1>7, <1>12, <1>13, <2>1, <2>2 DEF Places
<1>16. Layout(u, place, rest)
  <2> HIDE DEF m
  <2> QED BY <1>6, <1>7, <1>12, <1>14, <1>15 DEF Layout
<1> QED BY <1>16 DEF u, rest

-----------------------------------------------------------------------------
(* The records found are the last ones written *)

LEMMA LastsIsSuffix ==
    ASSUME NEW list \in Seq(Records), NEW all \in Seq(Records), Lasts(list, all)
    PROVE  IsSuffix(list, all)
<1> DEFINE n == Len(list)
           N == Len(all)
           s == Reverse(list)
           t == Reverse(all)
<1>1. n \in Nat /\ N \in Nat /\ n <= N
  BY LenProperties DEF Lasts
<1>2. /\ s = [i \in 1 .. n |-> list[n - i + 1]]
      /\ t = [i \in 1 .. N |-> all[N - i + 1]]
  BY DEF Reverse
<1>3. /\ s \in Seq(Records) /\ Len(s) = n
      /\ \A i \in 1 .. n : s[i] = list[n - i + 1]
  <2>1. \A i \in 1 .. n : list[n - i + 1] \in Records
    <3>1. \A i \in 1 .. n : n - i + 1 \in 1 .. n
      BY <1>1
    <3> QED BY <3>1, ElementOfSeq
  <2>2. s \in [1 .. n -> Records]
    BY <1>2, <2>1
  <2> HIDE DEF s
  <2> QED BY <1>1, <1>2, <2>2
<1>4. /\ t \in Seq(Records) /\ Len(t) = N
      /\ \A i \in 1 .. N : t[i] = all[N - i + 1]
  <2>1. \A i \in 1 .. N : all[N - i + 1] \in Records
    <3>1. \A i \in 1 .. N : N - i + 1 \in 1 .. N
      BY <1>1
    <3> QED BY <3>1, ElementOfSeq
  <2>2. t \in [1 .. N -> Records]
    BY <1>2, <2>1
  <2> HIDE DEF t
  <2> QED BY <1>1, <1>2, <2>2
<1> HIDE DEF s, t
<1>5. ASSUME NEW i \in 1 .. n PROVE s[i] = t[i]
  <2>1. n - i + 1 \in 1 .. n /\ N - n + (n - i + 1) = N - i + 1 /\ i \in 1 .. N
    BY <1>1
  <2>2. list[n - i + 1] = all[N - n + (n - i + 1)]
    BY <2>1 DEF Lasts
  <2> QED BY <1>3, <1>4, <2>1, <2>2
<1>6. SubSeq(s, 1, n) = s
  BY <1>3, SubSeqFull
<1>7. SubSeq(t, 1, n) = s
  <2>1. 1 \in Int /\ n \in Int /\ n - 1 + 1 = n
    BY <1>1
  <2>2. \A i \in 1 .. n : t[i] \in Records
    <3>1. \A i \in 1 .. n : i \in 1 .. N
      BY <1>1
    <3> QED BY <1>4, <3>1, ElementOfSeq
  <2> DEFINE u == SubSeq(t, 1, n)
  <2>3. /\ u \in Seq(Records) /\ Len(u) = IF 1 <= n THEN n - 1 + 1 ELSE 0
        /\ \A i \in 1 .. n - 1 + 1 : u[i] = t[1 + i - 1]
    BY <2>1, <2>2, SubSeqProperties
  <2> HIDE DEF u
  <2>4. Len(u) = n
    BY <1>1, <2>3
  <2>5. \A i \in 1 .. n : u[i] = s[i]
    <3>1. \A i \in 1 .. n : 1 + i - 1 = i
      BY <1>1
    <3> QED BY <1>5, <2>1, <2>3, <3>1
  <2>6. u = s
    BY <1>3, <2>3, <2>4, <2>5, SeqEqual
  <2> QED BY <2>6 DEF u
<1>8. IsPrefix(s, t)
  BY <1>1, <1>3, <1>4, <1>6, <1>7 DEF IsPrefix
<1> QED BY <1>8 DEF IsSuffix, s, t

LEMMA LastsWritten ==
    ASSUME NEW list \in Seq(Records), NEW all \in Seq(Records), Lasts(list, all),
           NEW r \in Records
    PROVE  Lasts(Append(list, r), Append(all, r))
<1> DEFINE n == Len(list)
           N == Len(all)
           l == Append(list, r)
           a == Append(all, r)
<1>1. n \in Nat /\ N \in Nat /\ n <= N
  BY LenProperties DEF Lasts
<1>2. Len(l) = n + 1 /\ l[n + 1] = r /\ \A i \in 1 .. n : l[i] = list[i]
  BY AppendProperties
<1>3. Len(a) = N + 1 /\ a[N + 1] = r /\ \A i \in 1 .. N : a[i] = all[i]
  BY AppendProperties
<1> HIDE DEF l, a
<1>4. ASSUME NEW i \in 1 .. n + 1 PROVE l[i] = a[N + 1 - (n + 1) + i]
  <2>1. CASE i = n + 1
    <3>1. N + 1 - (n + 1) + i = N + 1
      BY <1>1, <2>1
    <3> QED BY <1>2, <1>3, <2>1, <3>1
  <2>2. CASE i # n + 1
    <3>1. i \in 1 .. n /\ N + 1 - (n + 1) + i = N - n + i /\ N - n + i \in 1 .. N
      BY <1>1, <2>2
    <3>2. list[i] = all[N - n + i]
      BY <3>1 DEF Lasts
    <3> QED BY <1>2, <1>3, <3>1, <3>2
  <2> QED BY <2>1, <2>2
<1>5. n + 1 <= N + 1
  BY <1>1
<1>6. Lasts(l, a)
  BY <1>2, <1>3, <1>4, <1>5 DEF Lasts
<1> QED BY <1>6 DEF l, a

\* The last ones of the last ones
LEMMA LastsCut ==
    ASSUME NEW list \in Seq(Records), NEW all \in Seq(Records), Lasts(list, all),
           NEW k \in 1 .. Len(list)
    PROVE  Lasts(SubSeq(list, k, Len(list)), all) /\ SubSeq(list, k, Len(list)) # <<>>
<1> DEFINE n == Len(list)
           N == Len(all)
           l == SubSeq(list, k, n)
<1>1. n \in Nat /\ N \in Nat /\ n <= N
  BY LenProperties DEF Lasts
<1>2. Len(l) = n - k + 1 /\ \A i \in 1 .. n - k + 1 : l[i] = list[k + i - 1]
  <2>1. k \in Int /\ n \in Int /\ k <= n
    BY <1>1
  <2>2. \A i \in k .. n : list[i] \in Records
    <3>1. \A i \in k .. n : i \in 1 .. n
      BY <1>1
    <3> QED BY <3>1, ElementOfSeq
  <2> QED BY <2>1, <2>2, SubSeqProperties
<1> HIDE DEF l
<1>3. ASSUME NEW i \in 1 .. n - k + 1 PROVE l[i] = all[N - (n - k + 1) + i]
  <2>1. k + i - 1 \in 1 .. n /\ N - n + (k + i - 1) = N - (n - k + 1) + i
    BY <1>1
  <2>2. list[k + i - 1] = all[N - n + (k + i - 1)]
    BY <2>1 DEF Lasts
  <2> QED BY <1>2, <2>1, <2>2
<1>4. n - k + 1 <= N /\ n - k + 1 # 0
  BY <1>1
<1>5. Lasts(l, all) /\ l # <<>>
  <2>1. l # <<>>
    BY <1>2, <1>4
  <2>2. Lasts(l, all)
    BY <1>2, <1>3, <1>4 DEF Lasts
  <2> QED BY <2>1, <2>2
<1> QED BY <1>5 DEF l

\* ... are still the last ones when the oldest of all is forgotten.
LEMMA LastsTail ==
    ASSUME NEW list \in Seq(Records), NEW all \in Seq(Records), Lasts(list, all),
           Len(list) < Len(all)
    PROVE  Lasts(list, Tail(all))
<1> DEFINE n == Len(list)
           N == Len(all)
<1>1. n \in Nat /\ N \in Nat /\ n <= N - 1
  BY LenProperties
<1>2. Len(Tail(all)) = N - 1 /\ \A i \in 1 .. N - 1 : Tail(all)[i] = all[i + 1]
  <2>1. all # <<>>
    BY <1>1, EmptySeq
  <2> QED BY <2>1, HeadTailProperties
<1>3. ASSUME NEW i \in 1 .. n PROVE list[i] = Tail(all)[N - 1 - n + i]
  <2>1. N - 1 - n + i \in 1 .. N - 1 /\ N - 1 - n + i + 1 = N - n + i
    BY <1>1
  <2>2. list[i] = all[N - n + i]
    BY DEF Lasts
  <2>3. Tail(all)[N - 1 - n + i] = all[N - 1 - n + i + 1]
    BY <1>2, <2>1
  <2> QED BY <2>1, <2>2, <2>3
<1> QED BY <1>1, <1>2, <1>3 DEF Lasts

-----------------------------------------------------------------------------
(* The inductive invariant *)

\* No more records are in an archive than are remembered.
LEMMA ListBound ==
    ASSUME NEW text, NEW at, NEW list, Layout(text, at, list), Len(text) <= MaxSize
    PROVE  Len(list) <= MaxRecent
<1> DEFINE n == Len(list)
<1>1. n \in Nat /\ Len(text) \in Nat /\ at[n + 1] = Len(text) + 1
  BY LayoutFacts
<1>2. 1 \in 1 .. n + 1 /\ n + 1 \in 1 .. n + 1 /\ 1 <= n + 1
  BY <1>1
<1>3. at[1] \in Nat \ {0}
  BY <1>2, LayoutFacts
<1>4. 7 * (n + 1 - 1) <= at[n + 1] - at[1]
  BY <1>2 DEF Layout, Places
<1>5. MaxSize \in Nat /\ MaxRecent \in Nat /\ MaxSize <= 7 * MaxRecent
  BY RecordsAssumption
<1>6. 7 * n <= MaxSize
  <2>1. n + 1 - 1 = n
    BY <1>1
  <2>2. 7 * n <= at[n + 1] - at[1]
    BY <1>4, <2>1
  <2>3. at[n + 1] - at[1] <= Len(text)
    BY <1>1, <1>3
  <2> DEFINE d == at[n + 1] - at[1]
  <2>4. d \in Int
    BY <1>1, <1>3
  <2> HIDE DEF d
  <2> QED BY <1>1, <1>5, <2>2, <2>3, <2>4 DEF d
<1> QED BY <1>1, <1>5, <1>6

\* What a write leaves: whole records, the last one among them, within the
\* limit.
LEMMA WrittenAndCut ==
    ASSUME NEW text, NEW at, NEW list, Layout(text, at, list), Len(text) <= MaxSize,
           NEW all \in Seq(Records), Lasts(list, all), NEW r \in Records
    PROVE  /\ Len(Cut(text \o Pack(r))) <= MaxSize
           /\ \E place, left :
                /\ Layout(Cut(text \o Pack(r)), place, left) /\ left # <<>>
                /\ Lasts(left, Append(all, r))
<1> DEFINE u == text \o Pack(r)
           more == Append(list, r)
           n == Len(list)
           L == Len(Pack(r))
           h == MaxSize \div 2
<1>0. list \in Seq(Records) /\ text \in Seq(Characters)
  BY DEF Layout
<1>1. Len(u) = Len(text) + L /\ Len(text) \in Nat /\ L \in Nat
  <2>1. Pack(r) \in Seq(Characters)
    BY PackFacts
  <2> QED BY <1>0, <2>1, ConcatProperties, LenProperties
<1>2. MaxSize \in Nat /\ 2 * L <= MaxSize
  BY RecordsAssumption
<1>3. h \in Nat /\ 2 * h <= MaxSize /\ MaxSize <= 2 * h + 1 /\ L <= h
  BY <1>1, <1>2
<1>4. PICK at1 : Layout(u, at1, more)
  BY LayoutWritten
<1>5. more \in Seq(Records) /\ Len(more) = n + 1 /\ more # <<>> /\ more[n + 1] = r
  BY <1>0, AppendProperties
<1>6. Lasts(more, Append(all, r))
  BY <1>0, LastsWritten
<1> HIDE DEF u, more, h
<1>7. CASE Len(u) > MaxSize
  <2>1. n \in Nat /\ n + 1 \in 1 .. n + 1
    BY <1>0, LenProperties
  <2>2. /\ at1[n + 1] \in Nat /\ at1[n + 1 + 1] = Len(u) + 1
        /\ at1[n + 1 + 1] = at1[n + 1] + L
    <3>1. n + 1 \in 1 .. Len(more) /\ n + 1 \in 1 .. Len(more) + 1
      BY <1>5, <2>1
    <3>2. at1[n + 1] \in Nat /\ at1[Len(more) + 1] = Len(u) + 1
      BY <1>4, <3>1, LayoutFacts
    <3>3. at1[n + 1 + 1] = at1[n + 1] + Len(Pack(more[n + 1]))
      BY <1>4, <3>1, LayoutFacts
    <3> QED BY <1>5, <3>2, <3>3
  <2>3. h < at1[Len(more)]
    <3>1. at1[n + 1] + L = Len(u) + 1
      BY <2>2
    <3>2. h < at1[n + 1]
      <4> HIDE DEF L
      <4> QED BY <1>1, <1>2, <1>3, <1>7, <2>2, <3>1
    <3> QED BY <1>5, <3>2
  <2>4. PICK place : \E k \in 1 .. Len(more) :
          Layout(SubSeq(u, h + 1, Len(u)), place, SubSeq(more, k, Len(more)))
    BY <1>3, <1>4, <1>5, <2>3, LayoutCut
  <2>5. PICK k \in 1 .. Len(more) :
          Layout(SubSeq(u, h + 1, Len(u)), place, SubSeq(more, k, Len(more)))
    BY <2>4
  <2> DEFINE left == SubSeq(more, k, Len(more))
  <2>6. Append(all, r) \in Seq(Records)
    BY AppendProperties
  <2>7. Lasts(left, Append(all, r)) /\ left # <<>>
    BY <1>5, <1>6, <2>6, LastsCut
  <2>8. Cut(u) = SubSeq(u, h + 1, Len(u))
    BY <1>7 DEF Cut, h
  <2>9. Len(SubSeq(u, h + 1, Len(u))) <= MaxSize
    <3>1. u \in Seq(Characters)
      BY <1>4 DEF Layout
    <3>2. \A i \in h + 1 .. Len(u) : u[i] \in Characters
      <4>1. \A i \in h + 1 .. Len(u) : i \in 1 .. Len(u)
        BY <1>1, <1>3
      <4> QED BY <3>1, <4>1, ElementOfSeq
    <3>3. h + 1 \in Int /\ Len(u) \in Int /\ h + 1 <= Len(u)
      BY <1>1, <1>2, <1>3, <1>7
    <3>4. Len(SubSeq(u, h + 1, Len(u))) =
            IF h + 1 <= Len(u) THEN Len(u) - (h + 1) + 1 ELSE 0
      BY <3>2, <3>3, SubSeqProperties
    <3>5. Len(SubSeq(u, h + 1, Len(u))) = Len(u) - h
      BY <1>3, <3>3, <3>4
    <3>6. Len(u) - h <= MaxSize
      BY <1>1, <1>2, <1>3
    <3> QED BY <3>5, <3>6
  <2> HIDE DEF left
  <2>10. Layout(Cut(u), place, left)
    BY <2>5, <2>8 DEF left
  <2> QED BY <2>7, <2>8, <2>9, <2>10 DEF u
<1>8. CASE ~(Len(u) > MaxSize)
  <2>1. Cut(u) = u
    BY <1>8 DEF Cut
  <2>2. Len(u) <= MaxSize
    BY <1>1, <1>2, <1>8
  <2> QED BY <1>4, <1>5, <1>6, <2>1, <2>2 DEF u
<1> QED BY <1>7, <1>8

LEMMA InitInv == Init => IInv
<1> SUFFICES ASSUME Init PROVE IInv
  OBVIOUS
<1>1. data = <<>> /\ recent = <<>>
  BY DEF Init
<1>2. MaxSize \in Nat /\ MaxRecent \in Nat
  BY RecordsAssumption
<1> DEFINE at == [i \in 1 .. 1 |-> 1]
<1>3. Len(<<>>) = 0 /\ <<>> \in Seq(Records) /\ <<>> \in Seq(Characters)
  BY EmptySeq
<1>4. at \in [1 .. 1 -> Nat \ {0}] /\ at[1] = 1
  OBVIOUS
<1> HIDE DEF at
<1>5. Places(<<>>, at, <<>>)
  <2>1. \A i, j \in 1 .. 1 : i <= j => 7 * (j - i) <= at[j] - at[i]
    <3>1. \A i, j \in 1 .. 1 : i = 1 /\ j = 1
      OBVIOUS
    <3> QED BY <1>4, <3>1
  <2>2. ~(\E i \in 1 .. 0 : TRUE) /\ 0 + 1 = 1
    OBVIOUS
  <2> QED BY <1>3, <1>4, <2>1, <2>2 DEF Places
<1>6. Layout(<<>>, at, <<>>)
  <2>1. Quiet(<<>>, 1, at[1] - 1)
    <3>1. ~(\E i \in 1 .. 1 - 1 : TRUE)
      OBVIOUS
    <3> QED BY <1>4, <3>1 DEF Quiet
  <2>2. ~(\E i \in 1 .. 0 : TRUE)
    OBVIOUS
  <2> QED BY <1>3, <1>5, <2>1, <2>2 DEF Layout
<1>7. Lasts(<<>>, <<>>)
  <2>1. ~(\E i \in 1 .. 0 : TRUE)
    OBVIOUS
  <2> QED BY <1>3, <2>1 DEF Lasts
<1>8. Archived(<<>>, <<>>)
  BY <1>6, <1>7 DEF Archived
<1> QED BY <1>1, <1>2, <1>3, <1>8 DEF IInv

LEMMA WriteInv ==
    ASSUME IInv, NEW r \in Records, Write(r)
    PROVE  IInv'
<1> DEFINE all == Append(recent, r)
<1>1. PICK at, list : Layout(data, at, list) /\ Lasts(list, recent)
  BY DEF IInv, Archived
<1>2. recent \in Seq(Records) /\ Len(recent) <= MaxRecent /\ Len(data) <= MaxSize
  BY DEF IInv
<1>3. data' = Cut(data \o Pack(r))
  BY DEF Write
<1>4. recent' = IF Len(all) > MaxRecent THEN Tail(all) ELSE all
  BY DEF Write
<1>5. Len(data') <= MaxSize
  <2>1. Len(Cut(data \o Pack(r))) <= MaxSize
    BY <1>1, <1>2, WrittenAndCut
  <2> QED BY <1>3, <2>1
<1>6. PICK place, left :
        /\ Layout(data', place, left) /\ left # <<>> /\ Lasts(left, all)
  <2>1. \E place, left :
          /\ Layout(Cut(data \o Pack(r)), place, left) /\ left # <<>>
          /\ Lasts(left, all)
    BY <1>1, <1>2, WrittenAndCut
  <2> QED BY <1>3, <2>1
<1>7. Len(left) <= MaxRecent /\ left \in Seq(Records)
  <2>1. \A t : Layout(t, place, left) /\ Len(t) <= MaxSize => Len(left) <= MaxRecent
    BY ListBound
  <2> QED BY <1>5, <1>6, <2>1 DEF Layout
<1>8. /\ all \in Seq(Records) /\ Len(all) = Len(recent) + 1 /\ all # <<>>
      /\ Len(recent) \in Nat /\ Len(left) \in Nat /\ MaxRecent \in Nat
  <2>1. all \in Seq(Records) /\ Len(all) = Len(recent) + 1 /\ all # <<>>
    BY <1>2, AppendProperties
  <2>2. Len(recent) \in Nat /\ Len(left) \in Nat
    BY <1>2, <1>7, LenProperties
  <2> QED BY <2>1, <2>2, RecordsAssumption
<1> HIDE DEF all
<1>9. recent' \in Seq(Records) /\ Len(recent') <= MaxRecent /\ Lasts(left, recent')
  <2>1. CASE Len(all) > MaxRecent
    <3>1. Tail(all) \in Seq(Records) /\ Len(Tail(all)) = Len(all) - 1
      BY <1>8, HeadTailProperties
    <3>2. Len(left) < Len(all) /\ Len(all) - 1 <= MaxRecent
      BY <1>2, <1>7, <1>8, <2>1
    <3>3. Lasts(left, Tail(all))
      BY <1>6, <1>7, <1>8, <3>2, LastsTail
    <3>4. recent' = Tail(all)
      BY <1>4, <2>1
    <3> QED BY <3>1, <3>2, <3>3, <3>4
  <2>2. CASE ~(Len(all) > MaxRecent)
    <3>1. recent' = all
      BY <1>4, <2>2
    <3> QED BY <1>6, <1>8, <2>2, <3>1
  <2> QED BY <2>1, <2>2
<1>10. Archived(data, recent)'
  BY <1>6, <1>9 DEF Archived
<1> QED BY <1>5, <1>9, <1>10 DEF IInv

LEMMA NextInv == IInv /\ [Next]_vars => IInv'
<1> SUFFICES ASSUME IInv, [Next]_vars PROVE IInv'
  OBVIOUS
<1>1. CASE Next
  BY <1>1, WriteInv DEF Next
<1>2. CASE UNCHANGED vars
  BY <1>2 DEF vars, IInv, Archived
<1> QED BY <1>1, <1>2

LEMMA InvFindsLast == IInv => PageFindsLast
<1> SUFFICES ASSUME IInv PROVE PageFindsLast
  OBVIOUS
<1>1. PICK at, list :
        /\ Layout(data, at, list) /\ Lasts(list, recent)
        /\ recent # <<>> => list # <<>>
  BY DEF IInv, Archived
<1>2. UnPackArray(data) = list
  BY <1>1, ReadsAll
<1>3. IsSuffix(list, recent)
  BY <1>1, LastsIsSuffix DEF IInv, Layout
<1> QED BY <1>1, <1>2, <1>3 DEF PageFindsLast, IInv

\* An archive is the end of a record that was cut and whole packed records, the
\* last ones written, whatever the records and wherever the cuts fell.
THEOREM ArchiveLayout == Spec => []IInv
<1>1. Init => IInv
  BY InitInv
<1>2. IInv /\ [Next]_vars => IInv'
  BY NextInv
<1> QED BY <1>1, <1>2, PTL DEF Spec

\* Wherever the front was cut off, a page finds the last records written, the
\* last one among them, whole, in their order, and nothing else; and what it
\* is sent is within the limit.
THEOREM FindsLast == Spec => []PageFindsLast
<1>1. IInv => PageFindsLast
  BY InvFindsLast
<1> QED BY <1>1, ArchiveLayout, PTL

=============================================================================

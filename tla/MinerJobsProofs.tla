--------------------------- MODULE MinerJobsProofs ---------------------------
(***************************************************************************)
(* Proofs about MinerJobs, for any number of threads, any ring, window and *)
(* socket.                                                                 *)
(***************************************************************************)
EXTENDS MinerJobs, TLAPS, FiniteSetTheorems

USE RingAssumption, WindowAssumption, MinerBoundsAssumption

Slot == [job_id : 0 .. MaxJobs, blob : 0 .. MaxJobs, nonce : 0 .. MaxNonces,
         target : 0 .. MaxJobs]

Stage == [job_id : 0 .. MaxJobs, blob : 0 .. MaxJobs, nonce : 0 .. MaxNonces]

\* The numbers kept when n is the next one.
KeptBefore(n) == {k \in 1 .. n - 1 : k >= n - Window}

\* Every job that was numbered has a number below the next one; Control keeps
\* the newest of them.
Numbered ==
    /\ kept = KeptBefore(nextSeq)
    /\ base < nextSeq /\ writing < nextSeq
    /\ \A i \in 1 .. Len(toStartup) : toStartup[i] < nextSeq
    /\ \A i \in 0 .. N - 1 : slots[i].job_id < nextSeq
    /\ \A t \in Threads : share[t].job_id < nextSeq
    /\ \A s \in shares : s.job_id \in 0 .. nextSeq - 1

\* A slot holds one job in all its parts, except the one being written.
SlotsWhole ==
    /\ \A i \in 0 .. N - 1 :
         writing = 0 \/ i # Index(jobSeq + 1) =>
             slots[i].blob = slots[i].job_id /\ slots[i].target = slots[i].job_id
    /\ written # 0 => /\ writing # 0
                      /\ slots[Index(jobSeq + 1)].job_id = writing
                      /\ slots[Index(jobSeq + 1)].blob = writing
    /\ written = 2 => slots[Index(jobSeq + 1)].target = writing

\* A thread works with a slot that was published, and while nobody is lapped
\* that slot is not being written and is what the thread copied.
Follows(t) ==
    /\ jobSeqRead[t] <= jobSeq
    /\ pc[t] \in Using => jobSeqRead[t] # 0
    /\ pc[t] \in Using /\ ~lapped =>
           writing = 0 \/ Index(jobSeqRead[t]) # Index(jobSeq + 1)
    /\ pc[t] = "blob" /\ ~lapped => share[t].job_id = SlotOf(t).job_id
    /\ pc[t] \in {"nonce", "hash"} /\ ~lapped =>
           share[t].job_id = SlotOf(t).job_id /\ share[t].blob = SlotOf(t).blob
    /\ pc[t] = "job" /\ jobSeqRead[t] = jobSeq /\ jobSeq # 0 /\ ~lapped =>
           share[t].job_id = SlotOf(t).job_id /\ share[t].blob = SlotOf(t).blob

ThreadsFollow == \A t \in Threads : Follows(t)

IInv == TypeOK /\ Numbered /\ SlotsWhole /\ ThreadsFollow /\ SharesNameTheirJob

-----------------------------------------------------------------------------
(* The ring, the socket and the window *)

LEMMA IndexRange == \A i \in Nat : Index(i) \in 0 .. N - 1
BY DEF Index

\* The slot after the current one is another one.
LEMMA IndexNext == \A i \in Nat : Index(i) # Index(i + 1)
<1> SUFFICES ASSUME NEW i \in Nat, (i % N) = ((i + 1) % N) PROVE FALSE  BY DEF Index
<1>1. N \in Nat /\ N >= 2  OBVIOUS
<1>2. /\ i % N \in 0 .. N - 1
      /\ i = N * (i \div N) + (i % N) /\ i \div N \in Int
  BY <1>1, SMTT(30)
<1>3. i + 1 = N * ((i + 1) \div N) + ((i + 1) % N) /\ (i + 1) \div N \in Int
  BY <1>1, SMTT(30)
<1> DEFINE d == ((i + 1) \div N) - (i \div N)
<1>4. d \in Int /\ 1 = N * d  BY <1>1, <1>2, <1>3, SMTT(30)
<1> HIDE DEF d
<1>5. QED  BY <1>1, <1>4, SMTT(30)

\* What is sent to the socket is kept in order, as much of it as there is room.
LEMMA SvJobTypes ==
    ASSUME toStartup \in Seq(1 .. MaxJobs), Len(toStartup) <= Buffer,
           NEW n \in 1 .. MaxJobs, NEW d \in {<<>>, <<n>>, <<n, n>>}, SvJob(d)
    PROVE  /\ toStartup' \in Seq(1 .. MaxJobs) /\ Len(toStartup') <= Buffer
           /\ \A i \in 1 .. Len(toStartup') :
                \/ i \in 1 .. Len(toStartup) /\ toStartup'[i] = toStartup[i]
                \/ i > Len(toStartup) /\ toStartup'[i] = n
<1> DEFINE room == Buffer - Len(toStartup)
<1>1. Len(toStartup) \in Nat /\ room \in Nat  OBVIOUS
<1>2. d \in Seq(1 .. MaxJobs) /\ Len(d) \in 0 .. 2 /\ \A i \in 1 .. Len(d) : d[i] = n
  <2>1. CASE d = <<>>  BY <2>1
  <2>2. CASE d = <<n>>  BY <2>2
  <2>3. CASE d = <<n, n>>  BY <2>3
  <2>4. QED  BY <2>1, <2>2, <2>3
<1>3. PICK e \in Seq(1 .. MaxJobs) :
        /\ toStartup' = toStartup \o e /\ Len(e) <= room
        /\ \A i \in 1 .. Len(e) : e[i] = n
  <2>1. CASE Len(d) <= room  BY <1>2, <2>1 DEF SvJob
  <2>2. CASE ~(Len(d) <= room)
    <3>1. 1 .. room \subseteq 1 .. Len(d)  BY <1>1, <1>2, <2>2
    <3>2. SubSeq(d, 1, room) \in Seq(1 .. MaxJobs) /\ Len(SubSeq(d, 1, room)) = room
      BY <1>1, <1>2, <2>2, <3>1
    <3>3. \A i \in 1 .. room : SubSeq(d, 1, room)[i] = d[i]  BY <1>1, <1>2, <2>2, <3>1
    <3>4. toStartup' = toStartup \o SubSeq(d, 1, room)  BY <2>2 DEF SvJob
    <3>5. \A i \in 1 .. room : SubSeq(d, 1, room)[i] = n  BY <1>2, <3>1, <3>3
    <3> DEFINE e == SubSeq(d, 1, room)
    <3> HIDE DEF e
    <3>6. /\ e \in Seq(1 .. MaxJobs) /\ toStartup' = toStartup \o e /\ Len(e) = room
          /\ \A i \in 1 .. room : e[i] = n
      BY <3>2, <3>4, <3>5 DEF e
    <3>7. room <= room  BY <1>1
    <3> HIDE DEF room
    <3>8. QED  BY <3>6, <3>7
  <2>3. QED  BY <2>1, <2>2
<1> HIDE DEF room
<1>4. toStartup' \in Seq(1 .. MaxJobs) /\ Len(toStartup') = Len(toStartup) + Len(e)  BY <1>3
<1>5. Len(toStartup') <= Buffer  BY <1>1, <1>3, <1>4 DEF room
<1>6. ASSUME NEW i \in 1 .. Len(toStartup')
      PROVE  \/ i \in 1 .. Len(toStartup) /\ toStartup'[i] = toStartup[i]
             \/ i > Len(toStartup) /\ toStartup'[i] = n
  <2>1. Len(e) \in Nat /\ i \in Nat  BY <1>3
  <2>2. CASE i <= Len(toStartup)
    <3>1. toStartup'[i] = toStartup[i]  BY <1>1, <1>3, <1>6, <2>1, <2>2
    <3>2. QED  BY <1>1, <1>6, <2>1, <2>2, <3>1
  <2>3. CASE i > Len(toStartup)
    <3>1. i - Len(toStartup) \in 1 .. Len(e)  BY <1>1, <1>4, <1>6, <2>1, <2>3
    <3>2. toStartup'[i] = e[i - Len(toStartup)]  BY <1>1, <1>3, <1>4, <1>6, <2>1, <2>3
    <3>3. QED  BY <1>3, <3>1, <3>2
  <2>4. QED  BY <1>1, <2>1, <2>2, <2>3
<1>7. QED  BY <1>4, <1>5, <1>6

\* Of an interval of numbers Newest leaves the upper end, Window numbers at most.
LEMMA NewestOfInterval ==
    ASSUME NEW n \in Nat \ {0}, NEW S,
           S = {k \in 1 .. n - 1 : k >= n - Window}
    PROVE  /\ Newest(S \cup {n}) = {k \in 1 .. n : k >= n + 1 - Window}
           /\ Cardinality(Newest(S \cup {n})) <= Window
<1> DEFINE T == S \cup {n}
<1>1. ASSUME NEW s \in T PROVE Cardinality({r \in T : r > s}) = n - s
  <2>1. s \in Int /\ n \in Int /\ s <= n  BY <1>1
  <2>2. {r \in T : r > s} = (s + 1) .. n  BY <1>1
  <2>3. Cardinality((s + 1) .. n) = IF s + 1 > n THEN 0 ELSE n - (s + 1) + 1
    BY <2>1, FS_Interval
  <2>4. Cardinality((s + 1) .. n) = n - s  BY <2>1, <2>3
  <2> HIDE DEF T
  <2>5. QED  BY <2>2, <2>4
<1>2. Newest(T) = {s \in T : n - s < Window}  BY <1>1 DEF Newest
<1>3. \A s \in T : s \in 1 .. n  OBVIOUS
<1>4. Newest(T) = {k \in 1 .. n : k >= n + 1 - Window}  BY <1>2, <1>3
<1>5. Cardinality({k \in 1 .. n : k >= n + 1 - Window}) <= Window
  <2> DEFINE a == IF n + 1 - Window >= 1 THEN n + 1 - Window ELSE 1
  <2>1. a \in Int /\ n \in Int /\ n - a + 1 <= Window  OBVIOUS
  <2>2. {k \in 1 .. n : k >= n + 1 - Window} = a .. n  OBVIOUS
  <2>3. Cardinality(a .. n) = IF a > n THEN 0 ELSE n - a + 1
    <3> HIDE DEF a
    <3>1. QED  BY <2>1, FS_Interval
  <2>4. Cardinality(a .. n) <= Window
    <3> HIDE DEF a
    <3>1. QED  BY <2>1, <2>3
  <2> HIDE DEF a
  <2>5. QED  BY <2>2, <2>4
<1>6. QED  BY <1>4, <1>5

-----------------------------------------------------------------------------
(* The invariant *)

LEMMA InvInit == Init => IInv
<1> SUFFICES ASSUME Init PROVE IInv  OBVIOUS
<1>1. slots \in [0 .. N - 1 -> Slot]
  <2>1. EmptySlot \in Slot  BY DEF EmptySlot, Slot
  <2>2. QED  BY <2>1 DEF Init
<1>2. share \in [Threads -> Stage]
  <2>1. NoShare \in Stage  BY DEF NoShare, Stage
  <2>2. QED  BY <2>1 DEF Init
<1>3. Cardinality(kept) <= Window  BY FS_EmptySet DEF Init
<1>4. toStartup \in Seq(1 .. MaxJobs) /\ Len(toStartup) = 0  BY DEF Init
<1>5. TypeOK  BY <1>1, <1>2, <1>3, <1>4 DEF Init, TypeOK, Slot, Stage
<1>6. Numbered
  <2>1. kept = KeptBefore(nextSeq)  BY DEF Init, KeptBefore
  <2>2. QED  BY <1>4, <2>1 DEF Init, Numbered, EmptySlot, NoShare
<1>7. SlotsWhole  BY DEF Init, SlotsWhole, EmptySlot
<1>8. ThreadsFollow  BY DEF Init, ThreadsFollow, Follows, Using
<1>9. SharesNameTheirJob  BY DEF Init, SharesNameTheirJob
<1>10. QED  BY <1>5, <1>6, <1>7, <1>8, <1>9 DEF IInv

LEMMA WindowStep ==
    ASSUME NEW n \in 1 .. MaxJobs
    PROVE  /\ Newest(KeptBefore(n) \cup {n}) = KeptBefore(n + 1)
           /\ KeptBefore(n + 1) \subseteq 1 .. MaxJobs
           /\ Cardinality(KeptBefore(n + 1)) <= Window
<1>1. n \in Nat \ {0} /\ (n + 1) - 1 = n  OBVIOUS
<1> DEFINE T == Newest(KeptBefore(n) \cup {n})
<1>2. T = {k \in 1 .. n : k >= n + 1 - Window} /\ Cardinality(T) <= Window
  BY <1>1, NewestOfInterval DEF KeptBefore
<1>3. T = KeptBefore(n + 1)
  <2> HIDE DEF T
  <2>1. QED  BY <1>1, <1>2 DEF KeptBefore
<1>4. KeptBefore(n + 1) \subseteq 1 .. MaxJobs  BY <1>1 DEF KeptBefore
<1> HIDE DEF T
<1>5. QED  BY <1>2, <1>3, <1>4 DEF T

LEMMA BelowNext == \A n \in Int : n < n + 1 /\ \A x \in Int : x < n => x < n + 1
OBVIOUS

\* Control numbers a job and sends it once, twice or not at all.
LEMMA SetJobStep ==
    ASSUME IInv, SetJob, base' = base \/ base' = nextSeq,
           toStartup' \in Seq(1 .. MaxJobs), Len(toStartup') <= Buffer,
           \A i \in 1 .. Len(toStartup') :
               \/ toStartup'[i] = nextSeq
               \/ \E k \in 1 .. Len(toStartup) : toStartup'[i] = toStartup[k],
           UNCHANGED <<ringVars, threadVars, shares, emitted, historyVars>>
    PROVE  IInv'
<1>1. /\ nextSeq \in 1 .. MaxJobs /\ nextSeq' = nextSeq + 1
      /\ kept' = Newest(kept \cup {nextSeq})
  BY DEF SetJob, IInv, TypeOK
<1>2. kept = KeptBefore(nextSeq)  BY DEF IInv, Numbered
<1>3. /\ kept' = KeptBefore(nextSeq')
      /\ kept' \subseteq 1 .. MaxJobs /\ Cardinality(kept') <= Window
  BY <1>1, <1>2, WindowStep
<1>4. TypeOK'
  <2>1. nextSeq' \in 1 .. MaxJobs + 1  BY <1>1
  <2>2. base' \in 0 .. MaxJobs
    <3>1. base \in 0 .. MaxJobs /\ nextSeq \in 0 .. MaxJobs  BY <1>1 DEF IInv, TypeOK
    <3>2. QED  BY <3>1, Zenon
  <2>3. QED  BY <1>3, <2>1, <2>2 DEF IInv, TypeOK, ringVars, threadVars
<1>5. Numbered'
  <2>0. nextSeq \in Nat  BY <1>1
  <2>2. \A i \in 1 .. Len(toStartup') : toStartup'[i] < nextSeq'
    <3>1. SUFFICES ASSUME NEW i \in 1 .. Len(toStartup') PROVE toStartup'[i] < nextSeq'
      OBVIOUS
    <3>2. toStartup'[i] = nextSeq \/ toStartup'[i] < nextSeq  BY DEF IInv, Numbered
    <3>3. toStartup'[i] \in Int  OBVIOUS
    <3>4. QED  BY <1>1, <2>0, <3>2, <3>3
  <2>3. base' < nextSeq' /\ writing < nextSeq'
    <3>1. base \in Nat /\ writing \in Nat  BY DEF IInv, TypeOK
    <3>2. base < nextSeq /\ writing < nextSeq  BY DEF IInv, Numbered
    <3>3. base < nextSeq + 1 /\ nextSeq < nextSeq + 1 /\ writing < nextSeq + 1
      BY <2>0, <3>1, <3>2, BelowNext
    <3>4. QED  BY <1>1, <3>3, Zenon
  <2>4. \A i \in 0 .. N - 1 : slots[i].job_id < nextSeq'
    <3>1. SUFFICES ASSUME NEW i \in 0 .. N - 1 PROVE slots[i].job_id < nextSeq + 1  BY <1>1
    <3>2. slots[i].job_id \in Int  BY DEF IInv, TypeOK
    <3>3. slots[i].job_id < nextSeq  BY DEF IInv, Numbered
    <3>4. QED  BY <2>0, <3>2, <3>3, BelowNext
  <2>5. \A t \in Threads : share[t].job_id < nextSeq'
    <3>1. SUFFICES ASSUME NEW t \in Threads PROVE share[t].job_id < nextSeq + 1  BY <1>1
    <3>2. share[t].job_id \in Int  BY DEF IInv, TypeOK
    <3>3. share[t].job_id < nextSeq  BY DEF IInv, Numbered
    <3>4. QED  BY <2>0, <3>2, <3>3, BelowNext
  <2>6. \A s \in shares : s.job_id \in 0 .. nextSeq' - 1
    <3>1. SUFFICES ASSUME NEW s \in shares PROVE s.job_id \in 0 .. nextSeq' - 1  OBVIOUS
    <3>2. s.job_id \in 0 .. nextSeq - 1  BY DEF IInv, Numbered
    <3>3. 0 .. nextSeq - 1 \subseteq 0 .. (nextSeq + 1) - 1  BY <2>0
    <3>4. QED  BY <1>1, <3>2, <3>3, Zenon
  <2>7. QED  BY <1>3, <2>2, <2>3, <2>4, <2>5, <2>6 DEF Numbered, ringVars, threadVars
<1>6. SlotsWhole' /\ ThreadsFollow' /\ SharesNameTheirJob'
  BY DEF IInv, SlotsWhole, ThreadsFollow, Follows, SharesNameTheirJob, SlotOf, Index,
         ringVars, threadVars, historyVars
<1>7. QED  BY <1>4, <1>5, <1>6 DEF IInv

LEMMA ControlStep ==
    ASSUME IInv, ServerJob \/ WorkersReady \/ \E s \in shares : ClShare(s)
    PROVE  IInv'
<1>1. ASSUME SetJob, base' = base \/ base' = nextSeq,
             UNCHANGED <<ringVars, threadVars, shares, emitted, historyVars>>,
             \/ SvJob(<<>>) \/ SvJob(<<nextSeq>>) \/ SvJob(<<nextSeq, nextSeq>>)
      PROVE  IInv'
  <2>1. nextSeq \in 1 .. MaxJobs /\ toStartup \in Seq(1 .. MaxJobs) /\ Len(toStartup) <= Buffer
    BY <1>1 DEF SetJob, IInv, TypeOK
  <2>2. /\ toStartup' \in Seq(1 .. MaxJobs) /\ Len(toStartup') <= Buffer
        /\ \A i \in 1 .. Len(toStartup') :
             \/ toStartup'[i] = nextSeq
             \/ \E k \in 1 .. Len(toStartup) : toStartup'[i] = toStartup[k]
    BY <1>1, <2>1, SvJobTypes, Zenon
  <2>3. QED  BY <1>1, <2>2, SetJobStep
<1>2. CASE ServerJob \/ WorkersReady
  BY <1>1, <1>2, Zenon DEF ServerJob, WorkersReady
<1>3. ASSUME NEW s \in shares, ClShare(s) PROVE IInv'
  <2> USE DEF IInv
  <2>1. shares' \subseteq shares /\ shares' \cup emitted' \subseteq shares \cup emitted
    BY <1>3 DEF ClShare
  <2>2. UNCHANGED <<controlVars, toStartup, ringVars, threadVars, historyVars>>
    BY <1>3 DEF ClShare
  <2>3. TypeOK'  BY <2>2 DEF TypeOK, controlVars, ringVars, threadVars
  <2>4. Numbered'  BY <2>1, <2>2 DEF Numbered, controlVars, ringVars, threadVars
  <2>5. SlotsWhole' /\ ThreadsFollow'
    BY <2>2 DEF SlotsWhole, ThreadsFollow, Follows, SlotOf, Index, ringVars, threadVars, historyVars
  <2>6. SharesNameTheirJob'  BY <2>1, <2>2 DEF SharesNameTheirJob, historyVars
  <2>7. QED  BY <2>3, <2>4, <2>5, <2>6
<1>4. QED  BY <1>2, <1>3

-----------------------------------------------------------------------------
(* The steps of Startup *)

LEMMA StartSetJobStep ==
    ASSUME IInv, StartSetJob
    PROVE  IInv'
<1>1. writing = 0 /\ toStartup # <<>> /\ writing' = Head(toStartup)
  BY DEF StartSetJob
<1>2. toStartup \in Seq(1 .. MaxJobs) /\ Len(toStartup) <= Buffer  BY DEF IInv, TypeOK
<1>3. /\ writing' \in 1 .. MaxJobs /\ writing' < nextSeq
      /\ toStartup' \in Seq(1 .. MaxJobs) /\ Len(toStartup') <= Buffer
      /\ \A i \in 1 .. Len(toStartup') : toStartup'[i] < nextSeq
  <2>1. toStartup' = Tail(toStartup)  BY DEF StartSetJob
  <2>2. \A i \in 1 .. Len(toStartup) : toStartup[i] < nextSeq  BY DEF IInv, Numbered
  <2>3. Len(toStartup) \in Nat /\ Len(toStartup) >= 1  BY <1>1, <1>2
  <2>4. writing' = toStartup[1] /\ toStartup[1] \in 1 .. MaxJobs  BY <1>1, <1>2, <2>3
  <2>5. /\ toStartup' \in Seq(1 .. MaxJobs) /\ Len(toStartup') = Len(toStartup) - 1
        /\ \A i \in 1 .. Len(toStartup') : toStartup'[i] = toStartup[i + 1]
    BY <1>1, <1>2, <2>1
  <2>6. \A i \in 1 .. Len(toStartup') : i + 1 \in 1 .. Len(toStartup)  BY <2>3, <2>5
  <2>7. \A i \in 1 .. Len(toStartup') : toStartup'[i] < nextSeq  BY <2>2, <2>5, <2>6
  <2>8. Len(toStartup') <= Buffer  BY <1>2, <2>3, <2>5
  <2>9. QED  BY <2>2, <2>3, <2>4, <2>5, <2>7, <2>8
<1>4. UNCHANGED <<controlVars, jobSeq, slots, written, threadVars, shares, emitted, hashed, twice>>
  BY DEF StartSetJob
<1>5. TypeOK'
  <2>1. writing' \in 0 .. MaxJobs  BY <1>3
  <2>2. QED  BY <1>3, <1>4, <2>1 DEF IInv, TypeOK, controlVars, threadVars
<1>6. Numbered'  BY <1>3, <1>4 DEF IInv, Numbered, controlVars, threadVars
<1>7. SlotsWhole'
  <2>1. written = 0  BY <1>1 DEF IInv, SlotsWhole, TypeOK
  <2>2. QED  BY <1>1, <1>4, <2>1 DEF IInv, SlotsWhole
<1>8. ThreadsFollow'
  <2>1. lapped => lapped'  BY DEF StartSetJob
  <2>2. \A t \in Threads : pc[t] \in Using /\ ~lapped' => Index(jobSeqRead[t]) # Index(jobSeq + 1)
    BY DEF StartSetJob
  <2>3. QED  BY <1>4, <2>1, <2>2 DEF IInv, ThreadsFollow, Follows, SlotOf, threadVars
<1>9. SharesNameTheirJob'
  <2>1. lapped => lapped'  BY DEF StartSetJob
  <2>2. QED  BY <1>4, <2>1 DEF IInv, SharesNameTheirJob
<1>10. QED  BY <1>5, <1>6, <1>7, <1>8, <1>9 DEF IInv

LEMMA WriteSlotStep ==
    ASSUME IInv, WriteSlot
    PROVE  IInv'
<1> DEFINE n == Index(jobSeq + 1)
<1>1. /\ writing \in 1 .. MaxJobs /\ written \in {0, 1} /\ written' = written + 1
      /\ writing' = writing /\ jobSeq' = jobSeq /\ jobSeq \in Nat
  BY DEF WriteSlot, IInv, TypeOK
<1>2. n \in 0 .. N - 1 /\ slots \in [0 .. N - 1 -> Slot]
  <2>1. n \in 0 .. N - 1  BY <1>1, IndexRange
  <2>2. slots \in [0 .. N - 1 -> Slot]  BY DEF IInv, TypeOK, Slot
  <2>3. QED  BY <2>1, <2>2
<1>3. UNCHANGED <<controlVars, toStartup, threadVars, shares, emitted, historyVars>>
  BY DEF WriteSlot, SlotUnchanged
<1>4. slots' = IF written = 0
               THEN [slots EXCEPT ![n] = [@ EXCEPT !.job_id = writing, !.blob = writing, !.nonce = 0]]
               ELSE [slots EXCEPT ![n].target = writing]
  BY DEF WriteSlot
<1> HIDE DEF n
<1>5. /\ slots' \in [0 .. N - 1 -> Slot]
      /\ \A i \in 0 .. N - 1 : i # n => slots'[i] = slots[i]
      /\ written = 0 => slots'[n].job_id = writing /\ slots'[n].blob = writing
      /\ written = 1 => /\ slots'[n].job_id = slots[n].job_id
                        /\ slots'[n].blob = slots[n].blob /\ slots'[n].target = writing
  <2>0. slots[n] \in Slot /\ writing \in 0 .. MaxJobs /\ 0 \in 0 .. MaxNonces  BY <1>1, <1>2
  <2>1. CASE written = 0
    <3> DEFINE r == [slots[n] EXCEPT !.job_id = writing, !.blob = writing, !.nonce = 0]
    <3>1. r \in Slot /\ r.job_id = writing /\ r.blob = writing  BY <2>0 DEF Slot
    <3>2. slots' = [slots EXCEPT ![n] = r]  BY <1>2, <1>4, <2>1
    <3> HIDE DEF r
    <3>3. QED  BY <1>2, <2>1, <3>1, <3>2
  <2>2. CASE written = 1
    <3> DEFINE r == [slots[n] EXCEPT !.target = writing]
    <3>1. /\ r \in Slot /\ r.job_id = slots[n].job_id /\ r.blob = slots[n].blob
          /\ r.target = writing
      BY <2>0 DEF Slot
    <3>2. slots' = [slots EXCEPT ![n] = r]  BY <1>2, <1>4, <2>2
    <3> HIDE DEF r
    <3>3. QED  BY <1>2, <2>2, <3>1, <3>2
  <2>3. QED  BY <1>1, <2>1, <2>2
<1>6. TypeOK'
  <2>1. written' \in 0 .. 2  BY <1>1
  <2>2. QED  BY <1>1, <1>3, <1>5, <2>1 DEF IInv, TypeOK, Slot, controlVars, threadVars
<1>7. SlotsWhole'
  <2>1. written = 1 => slots[n].job_id = writing /\ slots[n].blob = writing
    BY DEF n, IInv, SlotsWhole
  <2>2. slots'[n].job_id = writing /\ slots'[n].blob = writing  BY <1>1, <1>5, <2>1
  <2>3. written' = 2 => slots'[n].target = writing  BY <1>1, <1>5
  <2>4. \A i \in 0 .. N - 1 : i # n =>
          slots'[i].blob = slots'[i].job_id /\ slots'[i].target = slots'[i].job_id
    BY <1>5 DEF n, IInv, SlotsWhole
  <2>5. writing # 0  BY <1>1
  <2>6. QED  BY <1>1, <2>2, <2>3, <2>4, <2>5 DEF SlotsWhole, n
<1>8. Numbered'
  <2>1. \A i \in 0 .. N - 1 : slots'[i].job_id < nextSeq
    <3>1. slots'[n].job_id = writing  BY <1>7, <1>1 DEF SlotsWhole, n
    <3>2. QED  BY <1>5, <3>1 DEF IInv, Numbered
  <2>2. QED  BY <1>1, <1>3, <2>1 DEF IInv, Numbered, controlVars, threadVars
<1>9. ThreadsFollow'
  <2>1. ASSUME NEW t \in Threads,
               pc[t] \in Using \/ (pc[t] = "job" /\ jobSeqRead[t] = jobSeq), ~lapped
        PROVE  SlotOf(t)' = SlotOf(t)
    <3>1. jobSeqRead[t] \in Nat  BY DEF IInv, TypeOK
    <3>2. Index(jobSeqRead[t]) # n
      <4>1. CASE pc[t] \in Using  BY <1>1, <2>1, <4>1 DEF IInv, ThreadsFollow, Follows, n
      <4>2. CASE jobSeqRead[t] = jobSeq  BY <1>1, <4>2, IndexNext DEF n
      <4>3. QED  BY <2>1, <4>1, <4>2
    <3>3. Index(jobSeqRead[t]) \in 0 .. N - 1  BY <3>1, IndexRange
    <3>4. QED  BY <1>3, <1>5, <3>2, <3>3 DEF SlotOf, threadVars, Index
  <2>2. QED  BY <1>1, <1>3, <2>1 DEF IInv, ThreadsFollow, Follows, threadVars, historyVars, Using
<1>10. SharesNameTheirJob'  BY <1>3 DEF IInv, SharesNameTheirJob, historyVars
<1>11. QED  BY <1>6, <1>7, <1>8, <1>9, <1>10 DEF IInv

LEMMA PublishStep ==
    ASSUME IInv, Publish
    PROVE  IInv'
<1>1. /\ written = 2 /\ jobSeq' = jobSeq + 1 /\ writing' = 0 /\ written' = 0 /\ slots' = slots
      /\ UNCHANGED <<controlVars, toStartup, threadVars, shares, emitted, historyVars>>
  BY DEF Publish, SlotUnchanged
<1>2. TypeOK'
  <2>1. jobSeq' \in Nat /\ writing' \in 0 .. MaxJobs /\ written' \in 0 .. 2
    BY <1>1 DEF IInv, TypeOK
  <2>2. QED  BY <1>1, <2>1 DEF IInv, TypeOK, controlVars, threadVars
<1>3. Numbered'
  <2>1. writing' < nextSeq  BY <1>1 DEF IInv, TypeOK
  <2>2. QED  BY <1>1, <2>1 DEF IInv, Numbered, controlVars, threadVars
<1>4. SlotsWhole'
  <2>1. /\ slots[Index(jobSeq + 1)].job_id = writing
        /\ slots[Index(jobSeq + 1)].blob = writing
        /\ slots[Index(jobSeq + 1)].target = writing
    BY <1>1 DEF IInv, SlotsWhole
  <2>2. \A i \in 0 .. N - 1 : i # Index(jobSeq + 1) =>
          slots[i].blob = slots[i].job_id /\ slots[i].target = slots[i].job_id
    BY DEF IInv, SlotsWhole
  <2>3. QED  BY <1>1, <2>1, <2>2 DEF SlotsWhole
<1>5. ThreadsFollow'
  <2>1. \A t \in Threads : jobSeqRead[t] <= jobSeq + 1 /\ jobSeqRead[t] # jobSeq + 1
    <3>1. jobSeq \in Nat /\ \A t \in Threads : jobSeqRead[t] \in Nat  BY DEF IInv, TypeOK
    <3>2. \A t \in Threads : jobSeqRead[t] <= jobSeq  BY DEF IInv, ThreadsFollow, Follows
    <3>3. QED  BY <3>1, <3>2
  <2>2. QED  BY <1>1, <2>1 DEF IInv, ThreadsFollow, Follows, SlotOf, threadVars, historyVars
<1>6. SharesNameTheirJob'  BY <1>1 DEF IInv, SharesNameTheirJob, historyVars
<1>7. QED  BY <1>2, <1>3, <1>4, <1>5, <1>6 DEF IInv

-----------------------------------------------------------------------------
(* The steps of a thread *)

\* What one thread does leaves the others alone, and of a slot it changes the
\* nonce at most.
LEMMA ThreadKeeps ==
    ASSUME IInv, NEW t \in Threads, NEW to \in Using \cup {"job"}, ThreadStep(t, to),
           slots' \in [0 .. N - 1 -> Slot],
           \A i \in 0 .. N - 1 : /\ slots'[i].job_id = slots[i].job_id
                                 /\ slots'[i].blob = slots[i].blob
                                 /\ slots'[i].target = slots[i].target,
           jobSeqRead' \in [Threads -> Nat], share' \in [Threads -> Stage],
           \A u \in Threads \ {t} : jobSeqRead'[u] = jobSeqRead[u] /\ share'[u] = share[u],
           share'[t].job_id < nextSeq,
           \A s \in shares' : s \in shares \/ s.job_id \in 0 .. nextSeq - 1,
           Follows(t)', SharesNameTheirJob'
    PROVE  IInv'
<1>1. /\ pc' = [pc EXCEPT ![t] = to]
      /\ UNCHANGED <<controlVars, toStartup, jobSeq, writing, written, emitted, lapped>>
  BY DEF ThreadStep
<1>2. TypeOK'
  <2>1. pc' \in [Threads -> Using \cup {"job"}]  BY <1>1 DEF IInv, TypeOK
  <2>2. QED  BY <1>1, <2>1 DEF IInv, TypeOK, Slot, Stage, controlVars
<1>3. Numbered'
  <2>1. \A u \in Threads : share'[u].job_id < nextSeq  BY DEF IInv, Numbered
  <2>2. \A s \in shares' : s.job_id \in 0 .. nextSeq - 1  BY DEF IInv, Numbered
  <2>3. \A i \in 0 .. N - 1 : slots'[i].job_id < nextSeq  BY DEF IInv, Numbered
  <2>4. QED  BY <1>1, <2>1, <2>2, <2>3 DEF IInv, Numbered, controlVars
<1>4. SlotsWhole'
  <2>1. Index(jobSeq + 1) \in 0 .. N - 1
    <3>1. jobSeq + 1 \in Nat  BY DEF IInv, TypeOK
    <3>2. QED  BY <3>1, IndexRange
  <2>2. QED  BY <1>1, <2>1 DEF IInv, SlotsWhole
<1>5. ThreadsFollow'
  <2>1. SUFFICES ASSUME NEW u \in Threads, u # t PROVE Follows(u)'
    BY DEF ThreadsFollow
  <2>2. jobSeqRead[u] \in Nat  BY DEF IInv, TypeOK
  <2>3. /\ pc'[u] = pc[u] /\ jobSeqRead'[u] = jobSeqRead[u] /\ share'[u] = share[u]
        /\ jobSeq' = jobSeq /\ writing' = writing /\ lapped' = lapped
    BY <1>1, <2>1 DEF IInv, TypeOK
  <2>4. SlotOf(u)'.job_id = SlotOf(u).job_id /\ SlotOf(u)'.blob = SlotOf(u).blob
    BY <2>2, <2>3, IndexRange DEF SlotOf, Index
  <2>5. Follows(u)  BY DEF IInv, ThreadsFollow
  <2>6. QED  BY <2>3, <2>4, <2>5 DEF Follows, Index
<1>6. QED  BY <1>2, <1>3, <1>4, <1>5 DEF IInv

LEMMA GetJobStep ==
    ASSUME IInv, NEW t \in Threads, GetJob(t)
    PROVE  IInv'
<1> DEFINE to == IF jobSeq = jobSeqRead[t] THEN "nonce" ELSE "id"
<1>1. /\ pc[t] = "job" /\ jobSeq # 0 /\ ThreadStep(t, to)
      /\ jobSeqRead' = [jobSeqRead EXCEPT ![t] = jobSeq]
      /\ UNCHANGED <<slots, share, shares, hashed, twice>>
  BY DEF GetJob
<1>2. /\ jobSeq \in Nat /\ jobSeqRead \in [Threads -> Nat]
      /\ slots \in [0 .. N - 1 -> Slot] /\ share \in [Threads -> Stage]
      /\ pc \in [Threads -> Using \cup {"job"}]
  BY DEF IInv, TypeOK, Slot, Stage
<1>3. to \in Using \cup {"job"}  BY DEF Using
<1>4. /\ jobSeq' = jobSeq /\ writing' = writing /\ lapped' = lapped /\ emitted' = emitted
      /\ pc'[t] = to
  BY <1>1, <1>2 DEF ThreadStep
<1>5. Follows(t)'
  <2>1. jobSeqRead'[t] = jobSeq /\ jobSeq <= jobSeq  BY <1>1, <1>2
  <2>2. Index(jobSeq) # Index(jobSeq + 1)  BY <1>2, IndexNext
  <2>3. Follows(t)  BY DEF IInv, ThreadsFollow
  <2>4. CASE jobSeq = jobSeqRead[t]
    <3>1. SlotOf(t)' = SlotOf(t) /\ share'[t] = share[t]  BY <1>1, <2>1, <2>4 DEF SlotOf, Index
    <3>2. QED  BY <1>1, <1>4, <2>1, <2>2, <2>3, <2>4, <3>1 DEF Follows, Index
  <2>5. CASE jobSeq # jobSeqRead[t]
    <3>1. pc'[t] = "id"  BY <1>4, <2>5
    <3>2. QED  BY <1>1, <1>4, <2>1, <2>2, <3>1 DEF Follows, Index
  <2>6. QED  BY <2>4, <2>5
<1>6. SharesNameTheirJob'  BY <1>1, <1>4 DEF IInv, SharesNameTheirJob
<1>7. jobSeqRead' \in [Threads -> Nat]  BY <1>1, <1>2
<1>8. \A u \in Threads \ {t} : jobSeqRead'[u] = jobSeqRead[u]  BY <1>1, <1>2
<1>9. share[t].job_id < nextSeq  BY DEF IInv, Numbered
<1> HIDE DEF to
<1>10. QED  BY <1>1, <1>2, <1>3, <1>5, <1>6, <1>7, <1>8, <1>9, ThreadKeeps

\* A thread's pointer is to a slot.
LEMMA ThreadTypes ==
    ASSUME IInv, NEW t \in Threads
    PROVE  /\ jobSeq \in Nat /\ jobSeqRead \in [Threads -> Nat]
           /\ slots \in [0 .. N - 1 -> Slot] /\ share \in [Threads -> Stage]
           /\ pc \in [Threads -> Using \cup {"job"}]
           /\ Index(jobSeqRead[t]) \in 0 .. N - 1 /\ SlotOf(t) \in Slot
           /\ SlotOf(t).job_id < nextSeq /\ share[t].job_id < nextSeq
<1>1. /\ jobSeq \in Nat /\ jobSeqRead \in [Threads -> Nat]
      /\ slots \in [0 .. N - 1 -> Slot] /\ share \in [Threads -> Stage]
      /\ pc \in [Threads -> Using \cup {"job"}]
  BY DEF IInv, TypeOK, Slot, Stage
<1>2. Index(jobSeqRead[t]) \in 0 .. N - 1  BY <1>1, IndexRange
<1>3. SlotOf(t) \in Slot  BY <1>1, <1>2 DEF SlotOf
<1>4. SlotOf(t).job_id < nextSeq /\ share[t].job_id < nextSeq
  BY <1>2 DEF IInv, Numbered, SlotOf
<1>5. QED  BY <1>1, <1>2, <1>3, <1>4

LEMMA CopyStep ==
    ASSUME IInv, NEW t \in Threads, CopyId(t) \/ CopyBlob(t)
    PROVE  IInv'
<1> DEFINE k == SlotOf(t)
<1>1. PICK to \in {"blob", "job"} :
        /\ ThreadStep(t, to)
        /\ to = "blob" => /\ pc[t] = "id"
                          /\ share' = [share EXCEPT ![t] = [@ EXCEPT !.job_id = k.job_id]]
        /\ to = "job" => /\ pc[t] = "blob"
                         /\ share' = [share EXCEPT ![t] = [@ EXCEPT !.blob = k.blob]]
        /\ UNCHANGED <<slots, jobSeqRead, shares, hashed, twice>>
  BY DEF CopyId, CopyBlob
<1>2. /\ jobSeq \in Nat /\ jobSeqRead \in [Threads -> Nat]
      /\ slots \in [0 .. N - 1 -> Slot] /\ share \in [Threads -> Stage]
      /\ pc \in [Threads -> Using \cup {"job"}]
      /\ k \in Slot /\ k.job_id < nextSeq /\ share[t].job_id < nextSeq
  BY ThreadTypes
<1>3. /\ jobSeq' = jobSeq /\ writing' = writing /\ lapped' = lapped /\ emitted' = emitted
      /\ pc'[t] = to
  BY <1>1, <1>2 DEF ThreadStep
<1>4. Follows(t)  BY DEF IInv, ThreadsFollow
<1>5. SlotOf(t)' = k  BY <1>1 DEF SlotOf, Index
<1> HIDE DEF k
<1>6. /\ share' \in [Threads -> Stage]
      /\ \A u \in Threads \ {t} : share'[u] = share[u]
      /\ to = "blob" => share'[t].job_id = k.job_id
      /\ to = "job" => share'[t].job_id = share[t].job_id /\ share'[t].blob = k.blob
  <2>1. CASE to = "blob"
    <3> DEFINE s == [share[t] EXCEPT !.job_id = k.job_id]
    <3>0. share[t] \in Stage /\ k.job_id \in 0 .. MaxJobs  BY <1>2 DEF Slot
    <3>1. s \in Stage /\ s.job_id = k.job_id  BY <3>0 DEF Stage
    <3>2. share' = [share EXCEPT ![t] = s]  BY <1>1, <1>2, <2>1
    <3> HIDE DEF s
    <3>3. QED  BY <1>2, <2>1, <3>1, <3>2
  <2>2. CASE to = "job"
    <3> DEFINE s == [share[t] EXCEPT !.blob = k.blob]
    <3>1. s \in Stage /\ s.job_id = share[t].job_id /\ s.blob = k.blob  BY <1>2 DEF Stage, Slot
    <3>2. share' = [share EXCEPT ![t] = s]  BY <1>1, <1>2, <2>2
    <3> HIDE DEF s
    <3>3. QED  BY <1>2, <2>2, <3>1, <3>2
  <2>3. QED  BY <1>1, <2>1, <2>2
<1>7. share'[t].job_id < nextSeq  BY <1>1, <1>2, <1>6
<1>8. Follows(t)'
  <2>1. CASE to = "blob"
    <3>1. pc'[t] = "blob" /\ pc[t] \in Using /\ pc'[t] \in Using  BY <1>1, <1>3, <2>1 DEF Using
    <3>2. QED  BY <1>1, <1>3, <1>4, <1>5, <1>6, <2>1, <3>1 DEF Follows, Index
  <2>2. CASE to = "job"
    <3>1. pc'[t] = "job" /\ pc[t] = "blob" /\ pc'[t] \notin Using  BY <1>1, <1>3, <2>2 DEF Using
    <3>2. ~lapped => share[t].job_id = k.job_id  BY <1>4, <3>1 DEF Follows, k
    <3>3. QED  BY <1>1, <1>3, <1>4, <1>5, <1>6, <2>2, <3>1, <3>2 DEF Follows, Index
  <2>3. QED  BY <1>1, <2>1, <2>2
<1>9. SharesNameTheirJob'  BY <1>1, <1>3 DEF IInv, SharesNameTheirJob
<1>10. to \in Using \cup {"job"}  BY <1>1 DEF Using
<1>11. QED  BY <1>1, <1>2, <1>6, <1>7, <1>8, <1>9, <1>10, ThreadKeeps

LEMMA TakeNonceStep ==
    ASSUME IInv, NEW t \in Threads, TakeNonce(t)
    PROVE  IInv'
<1> DEFINE k == SlotOf(t)
<1> DEFINE i == Index(jobSeqRead[t])
<1>1. /\ pc[t] = "nonce" /\ k.nonce < MaxNonces /\ ThreadStep(t, "hash")
      /\ share' = [share EXCEPT ![t].nonce = k.nonce]
      /\ slots' = [slots EXCEPT ![i].nonce = @ + 1]
      /\ jobSeqRead' = jobSeqRead /\ shares' = shares
  BY DEF TakeNonce
<1>2. /\ jobSeq \in Nat /\ jobSeqRead \in [Threads -> Nat]
      /\ slots \in [0 .. N - 1 -> Slot] /\ share \in [Threads -> Stage]
      /\ pc \in [Threads -> Using \cup {"job"}]
      /\ i \in 0 .. N - 1 /\ k \in Slot /\ share[t].job_id < nextSeq /\ k = slots[i]
  BY ThreadTypes DEF SlotOf
<1>3. /\ jobSeq' = jobSeq /\ writing' = writing /\ lapped' = lapped /\ emitted' = emitted
      /\ pc'[t] = "hash"
  BY <1>1, <1>2 DEF ThreadStep
<1>4. Follows(t)  BY DEF IInv, ThreadsFollow
<1>5. i' = i  BY <1>1 DEF Index
<1>6. SlotOf(t)' = slots'[i]  BY <1>5 DEF SlotOf
<1> HIDE DEF k, i
<1>7. /\ slots' \in [0 .. N - 1 -> Slot]
      /\ \A j \in 0 .. N - 1 : /\ slots'[j].job_id = slots[j].job_id
                               /\ slots'[j].blob = slots[j].blob
                               /\ slots'[j].target = slots[j].target
  <2> DEFINE r == [k EXCEPT !.nonce = k.nonce + 1]
  <2>1. r \in Slot /\ r.job_id = k.job_id /\ r.blob = k.blob /\ r.target = k.target
    <3>1. k.nonce + 1 \in 0 .. MaxNonces  BY <1>1, <1>2 DEF Slot
    <3>2. QED  BY <1>2, <3>1 DEF Slot
  <2>2. slots' = [slots EXCEPT ![i] = r]  BY <1>1, <1>2
  <2> HIDE DEF r
  <2>3. QED  BY <1>2, <2>1, <2>2
<1>8. /\ share' \in [Threads -> Stage]
      /\ \A u \in Threads \ {t} : share'[u] = share[u]
      /\ share'[t].job_id = share[t].job_id /\ share'[t].blob = share[t].blob
  <2> DEFINE s == [share[t] EXCEPT !.nonce = k.nonce]
  <2>1. s \in Stage /\ s.job_id = share[t].job_id /\ s.blob = share[t].blob
    BY <1>2 DEF Stage, Slot
  <2>2. share' = [share EXCEPT ![t] = s]  BY <1>1, <1>2
  <2> HIDE DEF s
  <2>3. QED  BY <1>2, <2>1, <2>2
<1>9. Follows(t)'
  <2>1. SlotOf(t)'.job_id = k.job_id /\ SlotOf(t)'.blob = k.blob  BY <1>2, <1>6, <1>7
  <2>2. ~lapped => share[t].job_id = k.job_id /\ share[t].blob = k.blob
    BY <1>1, <1>4 DEF Follows, k
  <2>3. pc[t] \in Using /\ pc'[t] \in Using /\ pc'[t] # "blob" /\ pc'[t] # "job"
    BY <1>1, <1>3 DEF Using
  <2>4. QED  BY <1>1, <1>3, <1>4, <1>8, <2>1, <2>2, <2>3 DEF Follows, Index
<1>10. SharesNameTheirJob'  BY <1>1, <1>3 DEF IInv, SharesNameTheirJob
<1>11. "hash" \in Using \cup {"job"} /\ share'[t].job_id < nextSeq  BY <1>2, <1>8 DEF Using
<1>12. QED  BY <1>1, <1>2, <1>7, <1>8, <1>9, <1>10, <1>11, ThreadKeeps

\* A thread that hashed, or that the bound stops, still has the job it copied.
LEMMA BackToJob ==
    ASSUME IInv, NEW t \in Threads, pc[t] \in {"nonce", "hash"}, ThreadStep(t, "job"),
           UNCHANGED <<slots, jobSeqRead, share>>
    PROVE  Follows(t)'
<1>1. pc \in [Threads -> Using \cup {"job"}]  BY ThreadTypes
<1>2. pc'[t] = "job" /\ UNCHANGED <<jobSeq, writing, lapped>>  BY <1>1 DEF ThreadStep
<1>3. SlotOf(t)' = SlotOf(t)  BY DEF SlotOf, Index
<1>4. Follows(t)  BY DEF IInv, ThreadsFollow
<1>5. "job" \notin Using  BY DEF Using
<1>6. QED  BY <1>2, <1>3, <1>4, <1>5 DEF Follows

LEMMA BeyondBoundStep ==
    ASSUME IInv, NEW t \in Threads, BeyondBound(t)
    PROVE  IInv'
<1>1. /\ pc[t] = "nonce" /\ ThreadStep(t, "job")
      /\ UNCHANGED <<slots, jobSeqRead, share, shares, hashed, twice>>
  BY DEF BeyondBound
<1>2. Follows(t)'  BY <1>1, BackToJob
<1>3. SharesNameTheirJob'  BY <1>1 DEF IInv, SharesNameTheirJob, ThreadStep
<1>4. QED  BY <1>1, <1>2, <1>3, ThreadTypes, ThreadKeeps

LEMMA HashStep ==
    ASSUME IInv, NEW t \in Threads, NEW found \in BOOLEAN, Hash(t, found)
    PROVE  IInv'
<1> DEFINE new == [job_id |-> share[t].job_id, blob |-> share[t].blob,
                   nonce |-> share[t].nonce, target |-> SlotOf(t).target]
<1>1. /\ pc[t] = "hash" /\ ThreadStep(t, "job")
      /\ UNCHANGED <<slots, jobSeqRead, share, hashed, twice>>
      /\ shares' \subseteq shares \cup {new}
  BY DEF Hash
<1>2. /\ jobSeq \in Nat /\ share \in [Threads -> Stage]
      /\ Index(jobSeqRead[t]) \in 0 .. N - 1 /\ share[t].job_id < nextSeq
  BY ThreadTypes
<1>3. Follows(t)'  BY <1>1, BackToJob
<1>4. ~lapped => new.job_id = new.blob /\ new.target = new.blob
  <2>1. SUFFICES ASSUME ~lapped
                 PROVE  share[t].job_id = share[t].blob /\ SlotOf(t).target = share[t].blob
    OBVIOUS
  <2>2. Follows(t) /\ pc[t] \in Using  BY <1>1 DEF IInv, ThreadsFollow, Using
  <2>3. share[t].job_id = SlotOf(t).job_id /\ share[t].blob = SlotOf(t).blob
    BY <1>1, <2>1, <2>2 DEF Follows
  <2>4. writing = 0 \/ Index(jobSeqRead[t]) # Index(jobSeq + 1)  BY <2>1, <2>2 DEF Follows
  <2>5. SlotOf(t).blob = SlotOf(t).job_id /\ SlotOf(t).target = SlotOf(t).job_id
    BY <1>2, <2>4 DEF IInv, SlotsWhole, SlotOf
  <2>6. QED  BY <2>3, <2>5
<1>5. new.job_id \in 0 .. nextSeq - 1
  <2>1. share[t].job_id \in 0 .. MaxJobs /\ nextSeq \in Nat  BY <1>2 DEF Stage, IInv, TypeOK
  <2>2. QED  BY <1>2, <2>1
<1> HIDE DEF new
<1>6. lapped' = lapped /\ emitted' = emitted  BY <1>1 DEF ThreadStep
<1>7. SharesNameTheirJob'  BY <1>1, <1>4, <1>6 DEF IInv, SharesNameTheirJob
<1>8. \A s \in shares' : s \in shares \/ s.job_id \in 0 .. nextSeq - 1  BY <1>1, <1>5
<1>9. QED  BY <1>1, <1>2, <1>3, <1>7, <1>8, ThreadTypes, ThreadKeeps

LEMMA InvStep == IInv /\ [Next]_vars => IInv'
<1> SUFFICES ASSUME IInv, [Next]_vars PROVE IInv'  OBVIOUS
<1>1. CASE ServerJob \/ WorkersReady \/ \E s \in shares : ClShare(s)  BY <1>1, ControlStep
<1>2. CASE StartSetJob  BY <1>2, StartSetJobStep
<1>3. CASE WriteSlot  BY <1>3, WriteSlotStep
<1>4. CASE Publish  BY <1>4, PublishStep
<1>5. ASSUME NEW t \in Threads,
             GetJob(t) \/ CopyId(t) \/ CopyBlob(t) \/ TakeNonce(t) \/ BeyondBound(t)
      PROVE  IInv'
  BY <1>5, GetJobStep, CopyStep, TakeNonceStep, BeyondBoundStep
<1>6. ASSUME NEW t \in Threads, NEW found \in BOOLEAN, Hash(t, found) PROVE IInv'
  BY <1>6, HashStep
<1>7. CASE UNCHANGED vars
  <2>1. TypeOK' /\ Numbered'
    BY <1>7 DEF IInv, TypeOK, Numbered, vars, controlVars, ringVars, threadVars
  <2>2. SlotsWhole' /\ ThreadsFollow' /\ SharesNameTheirJob'
    BY <1>7 DEF IInv, SlotsWhole, ThreadsFollow, Follows, SlotOf, Index, SharesNameTheirJob,
                vars, controlVars, ringVars, threadVars, historyVars
  <2>3. QED  BY <2>1, <2>2 DEF IInv
<1>8. QED  BY <1>1, <1>2, <1>3, <1>4, <1>5, <1>6, <1>7 DEF Next

LEMMA InvAlways == Spec => []IInv
<1>1. QED  BY InvInit, InvStep, PTL DEF Spec

\* The types hold; Control keeps no more jobs than its window and the socket
\* no more datagrams than it holds.
THEOREM TypeCorrect == Spec => []TypeOK
<1>1. IInv => TypeOK  BY DEF IInv
<1>2. QED  BY <1>1, InvAlways, PTL

\* While the ring is not lapped, whatever the threads read between the steps of
\* Startup, a share names the job that was hashed and that set its target.
THEOREM SharesNameTheirJobs == Spec => []SharesNameTheirJob
<1>1. IInv => SharesNameTheirJob  BY DEF IInv
<1>2. QED  BY <1>1, InvAlways, PTL

-----------------------------------------------------------------------------
(* Late shares *)

\* Nobody mines a slot to which no job was ever written, lapped or not.
Named ==
    /\ \A k \in 1 .. jobSeq : slots[Index(k)].job_id # 0
    /\ \A t \in Threads : pc[t] # "id" /\ jobSeqRead[t] # 0 => share[t].job_id # 0
    /\ \A s \in shares : s.job_id # 0

LEMMA NamedThread ==
    ASSUME IInv, Named, NEW t \in Threads, NEW to, ThreadStep(t, to),
           \A i \in 0 .. N - 1 : slots'[i].job_id = slots[i].job_id,
           \A u \in Threads \ {t} : jobSeqRead'[u] = jobSeqRead[u] /\ share'[u] = share[u],
           to # "id" => share'[t].job_id # 0,
           \A s \in shares' : s.job_id # 0
    PROVE  Named'
<1>1. jobSeq' = jobSeq /\ jobSeq \in Nat  BY DEF ThreadStep, IInv, TypeOK
<1>2. \A k \in 1 .. jobSeq' : slots'[Index(k)].job_id # 0
  <2>1. SUFFICES ASSUME NEW k \in 1 .. jobSeq PROVE slots'[Index(k)].job_id # 0  BY <1>1
  <2>2. k \in Nat  BY <1>1
  <2>3. Index(k) \in 0 .. N - 1  BY <2>2, IndexRange
  <2>4. QED  BY <2>3 DEF Named
<1>3. \A u \in Threads : pc'[u] # "id" /\ jobSeqRead'[u] # 0 => share'[u].job_id # 0
  <2>1. pc' = [pc EXCEPT ![t] = to] /\ pc \in [Threads -> Using \cup {"job"}]
    BY DEF ThreadStep, IInv, TypeOK
  <2>2. QED  BY <2>1 DEF Named
<1>4. QED  BY <1>2, <1>3 DEF Named, Index

LEMMA NamedStep == IInv /\ Named /\ [Next]_vars => Named'
<1> SUFFICES ASSUME IInv, Named, [Next]_vars PROVE Named'  OBVIOUS
<1>1. CASE ServerJob \/ WorkersReady \/ (\E s \in shares : ClShare(s)) \/ StartSetJob
           \/ UNCHANGED vars
  <2>1. /\ UNCHANGED <<jobSeq, slots, threadVars>> /\ shares' \subseteq shares
    BY <1>1 DEF ServerJob, WorkersReady, ClShare, StartSetJob, vars, ringVars, threadVars
  <2>2. QED  BY <2>1 DEF Named, Index, threadVars
<1>2. CASE WriteSlot
  <2>1. /\ jobSeq' = jobSeq /\ jobSeq \in Nat /\ writing # 0
        /\ UNCHANGED <<threadVars, shares>>
    BY <1>2 DEF WriteSlot, SlotUnchanged, IInv, TypeOK
  <2>2. IInv'  BY <1>2, WriteSlotStep
  <2>3. \A k \in 1 .. jobSeq : slots'[Index(k)].job_id # 0
    <3>1. SUFFICES ASSUME NEW k \in 1 .. jobSeq PROVE slots'[Index(k)].job_id # 0  OBVIOUS
    <3>2. k \in Nat /\ jobSeq + 1 \in Nat  BY <2>1
    <3>3. Index(k) \in 0 .. N - 1 /\ Index(jobSeq + 1) \in 0 .. N - 1  BY <3>2, IndexRange
    <3>4. CASE Index(k) = Index(jobSeq + 1)
      <4>1. written' # 0 /\ writing' = writing
        BY <1>2 DEF WriteSlot, IInv, TypeOK
      <4>2. slots'[Index(jobSeq + 1)].job_id = writing
        BY <2>1, <2>2, <4>1 DEF IInv, SlotsWhole
      <4>3. QED  BY <2>1, <3>4, <4>2
    <3>5. CASE Index(k) # Index(jobSeq + 1)
      <4>1. slots \in [0 .. N - 1 -> Slot]  BY DEF IInv, TypeOK, Slot
      <4>2. slots'[Index(k)] = slots[Index(k)]  BY <1>2, <3>3, <3>5, <4>1 DEF WriteSlot
      <4>3. QED  BY <4>2 DEF Named
    <3>6. QED  BY <3>4, <3>5
  <2>4. QED  BY <2>1, <2>3 DEF Named, Index, threadVars
<1>3. CASE Publish
  <2>1. /\ written = 2 /\ jobSeq' = jobSeq + 1 /\ jobSeq \in Nat /\ slots' = slots
        /\ UNCHANGED <<threadVars, shares>>
    BY <1>3 DEF Publish, SlotUnchanged, IInv, TypeOK
  <2>2. slots[Index(jobSeq + 1)].job_id = writing /\ writing # 0
    BY <2>1 DEF IInv, SlotsWhole
  <2>3. \A k \in 1 .. jobSeq + 1 : k \in 1 .. jobSeq \/ k = jobSeq + 1  BY <2>1
  <2>4. \A k \in 1 .. jobSeq + 1 : slots[Index(k)].job_id # 0  BY <2>2, <2>3 DEF Named
  <2>5. QED  BY <2>1, <2>4 DEF Named, Index, threadVars
<1>4. ASSUME NEW t \in Threads, GetJob(t) PROVE Named'
  <2>1. PICK to : /\ ThreadStep(t, to) /\ to = IF jobSeq = jobSeqRead[t] THEN "nonce" ELSE "id"
    BY <1>4 DEF GetJob
  <2>2. /\ pc[t] = "job" /\ jobSeq # 0 /\ jobSeqRead' = [jobSeqRead EXCEPT ![t] = jobSeq]
        /\ slots' = slots /\ share' = share /\ shares' = shares
    BY <1>4 DEF GetJob
  <2>3. \A u \in Threads \ {t} : jobSeqRead'[u] = jobSeqRead[u]  BY <2>2, ThreadTypes
  <2>4. to # "id" => share[t].job_id # 0  BY <2>1, <2>2 DEF Named
  <2>5. \A s \in shares : s.job_id # 0  BY DEF Named
  <2>6. QED  BY <2>1, <2>2, <2>3, <2>4, <2>5, NamedThread
<1>5. ASSUME NEW t \in Threads, CopyId(t) \/ CopyBlob(t) PROVE Named'
  <2>1. jobSeqRead[t] \in 1 .. jobSeq
    <3>1. pc[t] \in Using  BY <1>5 DEF CopyId, CopyBlob, Using
    <3>2. jobSeqRead[t] <= jobSeq /\ jobSeqRead[t] # 0  BY <3>1 DEF IInv, ThreadsFollow, Follows
    <3>3. jobSeqRead[t] \in Nat /\ jobSeq \in Nat  BY ThreadTypes
    <3>4. QED  BY <3>2, <3>3
  <2>2. SlotOf(t).job_id # 0  BY <2>1 DEF Named, SlotOf
  <2>3. share \in [Threads -> Stage]  BY ThreadTypes
  <2>4. CASE CopyId(t)
    <3>1. ThreadStep(t, "blob") /\ UNCHANGED <<slots, jobSeqRead, shares>>  BY <2>4 DEF CopyId
    <3>2. /\ \A u \in Threads \ {t} : share'[u] = share[u]
          /\ share'[t].job_id = SlotOf(t).job_id
      BY <2>3, <2>4 DEF CopyId, Stage
    <3>3. \A s \in shares : s.job_id # 0  BY DEF Named
    <3>4. QED  BY <2>2, <3>1, <3>2, <3>3, NamedThread
  <2>5. CASE CopyBlob(t)
    <3>1. ThreadStep(t, "job") /\ pc[t] = "blob" /\ UNCHANGED <<slots, jobSeqRead, shares>>
      BY <2>5 DEF CopyBlob
    <3>2. /\ \A u \in Threads \ {t} : share'[u] = share[u]
          /\ share'[t].job_id = share[t].job_id
      BY <2>3, <2>5 DEF CopyBlob, Stage
    <3>3. share[t].job_id # 0  BY <2>1, <3>1 DEF Named
    <3>4. \A s \in shares : s.job_id # 0  BY DEF Named
    <3>5. QED  BY <3>1, <3>2, <3>3, <3>4, NamedThread
  <2>6. QED  BY <1>5, <2>4, <2>5
<1>6. ASSUME NEW t \in Threads,
             TakeNonce(t) \/ BeyondBound(t) \/ \E found \in BOOLEAN : Hash(t, found)
      PROVE  Named'
  <2>1. pc[t] \in {"nonce", "hash"} /\ jobSeqRead' = jobSeqRead
    BY <1>6 DEF TakeNonce, BeyondBound, Hash
  <2>2. share[t].job_id # 0
    <3>1. pc[t] \in Using /\ pc[t] # "id"  BY <2>1 DEF Using
    <3>2. QED  BY <3>1 DEF Named, IInv, ThreadsFollow, Follows
  <2>3. PICK to \in {"hash", "job"} : ThreadStep(t, to)
    BY <1>6 DEF TakeNonce, BeyondBound, Hash
  <2>4. \A s \in shares' : s.job_id # 0
    <3>1. \A s \in shares' : s \in shares \/ s.job_id = share[t].job_id
      BY <1>6 DEF TakeNonce, BeyondBound, Hash
    <3>2. QED  BY <2>2, <3>1 DEF Named
  <2>5. share'[t].job_id = share[t].job_id /\ \A u \in Threads \ {t} : share'[u] = share[u]
    <3>1. share' = share \/ share' = [share EXCEPT ![t].nonce = SlotOf(t).nonce]
      BY <1>6 DEF TakeNonce, BeyondBound, Hash
    <3>2. share \in [Threads -> Stage]  BY ThreadTypes
    <3>3. QED  BY <3>1, <3>2 DEF Stage
  <2>6. \A i \in 0 .. N - 1 : slots'[i].job_id = slots[i].job_id
    <3>1. slots' = slots \/ slots' = [slots EXCEPT ![Index(jobSeqRead[t])].nonce = @ + 1]
      BY <1>6 DEF TakeNonce, BeyondBound, Hash
    <3>2. slots \in [0 .. N - 1 -> Slot]  BY ThreadTypes
    <3>3. QED  BY <3>1, <3>2 DEF Slot
  <2>7. QED  BY <2>1, <2>2, <2>3, <2>4, <2>5, <2>6, NamedThread
<1>7. QED  BY <1>1, <1>2, <1>3, <1>4, <1>5, <1>6 DEF Next

\* A share Control ignores is older than its window of jobs.
LEMMA IgnoredStep ==
    ASSUME IInv, Named, [Next]_vars, NEW s \in shares \ shares'
    PROVE  s \in emitted' \/ nextSeq > s.job_id + Window
<1>1. ASSUME NEW r \in shares, ClShare(r) PROVE s \in emitted' \/ nextSeq > s.job_id + Window
  <2>1. s = r  BY <1>1 DEF ClShare
  <2>2. CASE s.job_id \in kept  BY <1>1, <2>1, <2>2 DEF ClShare
  <2>3. CASE s.job_id \notin kept
    <3>1. s.job_id \in 0 .. nextSeq - 1 /\ s.job_id # 0  BY DEF IInv, Numbered, Named
    <3>2. kept = KeptBefore(nextSeq) /\ nextSeq \in Nat  BY DEF IInv, Numbered, TypeOK
    <3>3. s.job_id \in 1 .. nextSeq - 1 /\ s.job_id \in Nat  BY <3>1, <3>2
    <3>4. ~(s.job_id >= nextSeq - Window)  BY <2>3, <3>2, <3>3 DEF KeptBefore
    <3>5. QED  BY <3>2, <3>3, <3>4
  <2>4. QED  BY <2>2, <2>3
<1>2. ASSUME ~\E r \in shares : ClShare(r) PROVE shares \subseteq shares'
  BY <1>2 DEF Next, ServerJob, WorkersReady, StartSetJob, WriteSlot, Publish, SlotUnchanged,
       GetJob, CopyId, CopyBlob, TakeNonce, BeyondBound, Hash, vars
<1>3. QED  BY <1>1, <1>2

\* A share is ignored only when Control has numbered as many newer jobs as it
\* keeps, whatever the socket dropped and however slow the thread was.
THEOREM OnlyOldAreIgnored == Spec => OnlyOldIgnored
<1>1. Init => Named  BY DEF Init, Named
<1>2. IInv /\ Named /\ [Next]_vars =>
        [\A s \in shares \ shares' : s \in emitted' \/ nextSeq > s.job_id + Window]_vars
  BY IgnoredStep
<1>3. QED  BY <1>1, <1>2, InvAlways, NamedStep, PTL DEF Spec, OnlyOldIgnored

-----------------------------------------------------------------------------
(* No header is hashed twice *)

\* x was given to Startup before y; only the base job is given twice.
Before(x, y) == x < y \/ (x = base /\ y = base)

BeforeWaiting(x) == x < nextSeq /\ \A i \in 1 .. Len(toStartup) : Before(x, toStartup[i])

\* Before the threads are ready nothing is sent.
Quiet ==
    base = 0 => /\ toStartup = <<>> /\ writing = 0 /\ jobSeq = 0
                /\ hashed = {} /\ twice = {}
                /\ \A i \in 0 .. N - 1 : slots[i].blob = 0

WaitingOrder ==
    /\ \A i, k \in 1 .. Len(toStartup) : i < k => Before(toStartup[i], toStartup[k])
    /\ writing # 0 => BeforeWaiting(writing)

HashedOrder ==
    \A h \in hashed :
        /\ h[1] \in Nat /\ h[2] \in Nat /\ BeforeWaiting(h[1])
        /\ writing # 0 => Before(h[1], writing)

SlotsOrder ==
    \A i \in 0 .. N - 1 :
        /\ BeforeWaiting(slots[i].blob)
        /\ writing # 0 /\ (written = 0 \/ i # Index(jobSeq + 1)) => Before(slots[i].blob, writing)

SlotsDiffer ==
    \A i, k \in 0 .. N - 1 :
        i # k /\ slots[i].blob = slots[k].blob => slots[i].blob \in {0, base}

\* The nonces hashed of a job are below the counter of its slot.
Counted ==
    \A h \in hashed, i \in 0 .. N - 1 :
        slots[i].blob = h[1] /\ h[1] # base => h[2] < slots[i].nonce

InUse ==
    /\ jobSeq # 0 => slots[Index(jobSeq)].blob # 0
    /\ \A t \in Threads : jobSeqRead[t] # 0 => SlotOf(t).blob # 0

Ordered == Quiet /\ WaitingOrder /\ HashedOrder /\ SlotsOrder /\ SlotsDiffer /\ Counted /\ InUse

OnceInv == ~lapped => Ordered /\ twice \subseteq {base}

LEMMA OnceInit == Init => OnceInv
<1> SUFFICES ASSUME Init PROVE Ordered /\ twice \subseteq {base}  BY DEF OnceInv
<1>1. /\ toStartup = <<>> /\ Len(toStartup) = 0 /\ writing = 0 /\ jobSeq = 0 /\ base = 0
      /\ hashed = {} /\ twice = {} /\ nextSeq = 1
      /\ \A i \in 0 .. N - 1 : slots[i].blob = 0
      /\ \A t \in Threads : jobSeqRead[t] = 0
  BY DEF Init, EmptySlot
<1>2. QED
  BY <1>1 DEF Ordered, Quiet, WaitingOrder, HashedOrder, SlotsOrder, SlotsDiffer, Counted, InUse,
             BeforeWaiting

\* What neither Control nor Startup nor a thread changes here.
LEMMA OnceUntouched ==
    ASSUME IInv, Ordered, twice \subseteq {base},
           UNCHANGED <<nextSeq, base, toStartup, jobSeq, slots, writing, written, hashed, twice>>,
           \A t \in Threads : jobSeqRead'[t] = jobSeqRead[t] \/ jobSeqRead'[t] = jobSeq
    PROVE  Ordered' /\ twice' \subseteq {base'}
<1>1. Quiet' /\ WaitingOrder' /\ HashedOrder' /\ SlotsOrder' /\ SlotsDiffer' /\ Counted'
  BY DEF Ordered, Quiet, WaitingOrder, HashedOrder, SlotsOrder, SlotsDiffer, Counted,
         BeforeWaiting, Before, Index
<1>2. InUse'
  <2>1. jobSeq # 0 => slots[Index(jobSeq)].blob # 0  BY DEF Ordered, InUse
  <2>2. ASSUME NEW t \in Threads, jobSeqRead'[t] # 0
        PROVE  slots[Index(jobSeqRead'[t])].blob # 0
    <3>1. CASE jobSeqRead'[t] = jobSeqRead[t]  BY <2>2, <3>1 DEF Ordered, InUse, SlotOf
    <3>2. CASE jobSeqRead'[t] = jobSeq  BY <2>1, <2>2, <3>2
    <3>3. QED  BY <3>1, <3>2
  <2>3. QED  BY <2>1, <2>2 DEF InUse, SlotOf, Index
<1>3. QED  BY <1>1, <1>2 DEF Ordered

\* Control numbers a job: it is newer than all that were sent.
LEMMA OnceServerJob ==
    ASSUME IInv, Ordered, twice \subseteq {base}, ServerJob
    PROVE  Ordered' /\ twice' \subseteq {base'}
<1>0. /\ nextSeq \in 1 .. MaxJobs /\ nextSeq' = nextSeq + 1
      /\ UNCHANGED <<base, ringVars, threadVars, shares, emitted, historyVars>>
  BY DEF ServerJob, SetJob, IInv, TypeOK
<1>1. toStartup \in Seq(1 .. MaxJobs) /\ Len(toStartup) <= Buffer  BY DEF IInv, TypeOK
<1>2. \A i \in 1 .. Len(toStartup') :
        \/ i \in 1 .. Len(toStartup) /\ toStartup'[i] = toStartup[i]
        \/ i > Len(toStartup) /\ toStartup'[i] = nextSeq
  BY <1>0, <1>1, SvJobTypes, Zenon DEF ServerJob
<1>3. base = 0 => toStartup' = <<>>
  <2> SUFFICES ASSUME base = 0 PROVE toStartup' = <<>>  OBVIOUS
  <2>1. toStartup = <<>> /\ SvJob(<<>>)  BY DEF Ordered, Quiet, ServerJob
  <2>2. QED  BY <2>1 DEF SvJob
<1>4. \A i \in 1 .. Len(toStartup) : toStartup[i] < nextSeq  BY DEF IInv, Numbered
<1>5. ASSUME NEW x \in Int, BeforeWaiting(x) PROVE BeforeWaiting(x)'
  <2>1. x < nextSeq /\ x < nextSeq'  BY <1>0, <1>5 DEF BeforeWaiting
  <2>2. \A i \in 1 .. Len(toStartup') : Before(x, toStartup'[i])
    BY <1>2, <1>5, <2>1 DEF BeforeWaiting, Before
  <2>3. QED  BY <1>0, <2>1, <2>2 DEF BeforeWaiting, Before
<1>6. WaitingOrder'
  <2>1. ASSUME NEW i \in 1 .. Len(toStartup'), NEW k \in 1 .. Len(toStartup'), i < k
        PROVE  Before(toStartup'[i], toStartup'[k])
    <3>0. Len(toStartup) \in Nat /\ i \in Int /\ k \in Int  BY <1>1
    <3>1. CASE k \in 1 .. Len(toStartup) /\ toStartup'[k] = toStartup[k]
      <4>1. i \in 1 .. Len(toStartup) /\ toStartup'[i] = toStartup[i]
        BY <1>2, <2>1, <3>0, <3>1
      <4>2. QED  BY <2>1, <3>1, <4>1 DEF Ordered, WaitingOrder
    <3>2. CASE k > Len(toStartup) /\ toStartup'[k] = nextSeq
      <4>1. CASE i \in 1 .. Len(toStartup) /\ toStartup'[i] = toStartup[i]
        BY <1>4, <3>2, <4>1 DEF Before
      <4>2. CASE ~(i \in 1 .. Len(toStartup))
        <5>1. Len(toStartup') <= Len(toStartup) + 1
          <6>1. SvJob(<<>>) \/ SvJob(<<nextSeq>>)  BY DEF ServerJob
          <6>2. Buffer - Len(toStartup) \in Nat  BY <1>1
          <6>3. CASE SvJob(<<>>)  BY <1>1, <6>2, <6>3 DEF SvJob
          <6>4. CASE SvJob(<<nextSeq>>)
            <7>1. CASE Buffer - Len(toStartup) >= 1
              <8>1. toStartup' = toStartup \o <<nextSeq>>  BY <6>2, <6>4, <7>1 DEF SvJob
              <8>2. QED  BY <1>0, <1>1, <8>1
            <7>2. CASE Buffer - Len(toStartup) = 0
              <8>1. toStartup' = toStartup \o SubSeq(<<nextSeq>>, 1, 0)
                BY <6>2, <6>4, <7>2 DEF SvJob
              <8>2. SubSeq(<<nextSeq>>, 1, 0) = <<>>  BY <1>0
              <8>3. QED  BY <1>0, <1>1, <8>1, <8>2
            <7>3. QED  BY <6>2, <7>1, <7>2
          <6>5. QED  BY <6>1, <6>3, <6>4
        <5>2. Len(toStartup') \in Nat
          <6>1. toStartup' \in Seq(1 .. MaxJobs)  BY <1>0, <1>1, SvJobTypes, Zenon DEF ServerJob
          <6>2. QED  BY <6>1
        <5>3. QED  BY <2>1, <3>0, <3>2, <4>2, <5>1, <5>2
      <4>3. QED  BY <1>2, <4>1, <4>2
    <3>3. QED  BY <1>2, <3>1, <3>2
  <2>2. writing # 0 => BeforeWaiting(writing)'
    <3> SUFFICES ASSUME writing # 0 PROVE BeforeWaiting(writing)'  OBVIOUS
    <3>1. writing \in Int /\ BeforeWaiting(writing)  BY DEF IInv, TypeOK, Ordered, WaitingOrder
    <3>2. writing < nextSeq /\ writing < nextSeq'  BY <1>0, <3>1 DEF BeforeWaiting
    <3>3. \A k \in 1 .. Len(toStartup') : Before(writing, toStartup'[k])
      BY <1>2, <3>1, <3>2 DEF BeforeWaiting, Before
    <3>4. writing' = writing /\ base' = base  BY <1>0 DEF ringVars
    <3>5. QED  BY <3>2, <3>3, <3>4 DEF BeforeWaiting, Before
  <2>3. QED  BY <1>0, <2>1, <2>2 DEF WaitingOrder, ringVars, Before, BeforeWaiting
<1>7. HashedOrder'
  <2>1. ASSUME NEW h \in hashed
        PROVE  /\ h[1] \in Nat /\ h[2] \in Nat /\ BeforeWaiting(h[1])'
               /\ writing # 0 => Before(h[1], writing)
    BY <1>5 DEF Ordered, HashedOrder
  <2>2. QED  BY <1>0, <2>1 DEF HashedOrder, ringVars, historyVars, Before, BeforeWaiting
<1>8. SlotsOrder'
  <2>1. \A i \in 0 .. N - 1 : slots[i].blob \in Int  BY DEF IInv, TypeOK
  <2>2. ASSUME NEW i \in 0 .. N - 1 PROVE BeforeWaiting(slots[i].blob)'
    <3>1. BeforeWaiting(slots[i].blob)  BY DEF Ordered, SlotsOrder
    <3>2. slots[i].blob < nextSeq'  BY <1>0, <2>1, <3>1 DEF BeforeWaiting
    <3>3. \A k \in 1 .. Len(toStartup') : Before(slots[i].blob, toStartup'[k])
      BY <1>2, <3>1 DEF BeforeWaiting, Before
    <3>4. QED  BY <1>0, <3>2, <3>3 DEF BeforeWaiting, Before, ringVars
  <2>3. QED  BY <1>0, <2>2 DEF Ordered, SlotsOrder, ringVars, Before, Index
<1>9. Quiet'  BY <1>0, <1>3 DEF Ordered, Quiet, ringVars, historyVars
<1>10. SlotsDiffer' /\ Counted' /\ InUse' /\ twice' \subseteq {base'}
  BY <1>0 DEF Ordered, SlotsDiffer, Counted, InUse, SlotOf, Index, ringVars, threadVars, historyVars
<1>11. QED  BY <1>6, <1>7, <1>8, <1>9, <1>10 DEF Ordered

\* The base job is the first that is sent, and may be sent twice.
LEMMA OnceWorkersReady ==
    ASSUME IInv, Ordered, twice \subseteq {base}, WorkersReady
    PROVE  Ordered' /\ twice' \subseteq {base'}
<1>0. /\ base = 0 /\ base' = nextSeq /\ nextSeq \in 1 .. MaxJobs /\ nextSeq' = nextSeq + 1
      /\ UNCHANGED <<ringVars, threadVars, shares, emitted, historyVars>>
      /\ SvJob(<<nextSeq, nextSeq>>)
  BY DEF WorkersReady, SetJob, IInv, TypeOK
<1>1. /\ toStartup = <<>> /\ writing = 0 /\ jobSeq = 0 /\ hashed = {} /\ twice = {}
      /\ \A i \in 0 .. N - 1 : slots[i].blob = 0
  BY <1>0 DEF Ordered, Quiet
<1>2. toStartup \in Seq(1 .. MaxJobs) /\ Len(toStartup) <= Buffer /\ Len(toStartup) = 0
  BY <1>1 DEF IInv, TypeOK
<1>3. \A i \in 1 .. Len(toStartup') : toStartup'[i] = nextSeq
  <2>1. \A i \in 1 .. Len(toStartup') :
          \/ i \in 1 .. Len(toStartup) /\ toStartup'[i] = toStartup[i]
          \/ i > Len(toStartup) /\ toStartup'[i] = nextSeq
    BY <1>0, <1>2, SvJobTypes, Zenon
  <2>2. QED  BY <1>2, <2>1
<1>4. WaitingOrder'  BY <1>0, <1>1, <1>3 DEF WaitingOrder, ringVars, Before
<1>5. HashedOrder' /\ Counted' /\ SlotsDiffer'
  BY <1>0, <1>1 DEF HashedOrder, Counted, SlotsDiffer, ringVars, historyVars
<1>6. SlotsOrder'
  <2>1. \A i \in 0 .. N - 1 : slots'[i].blob = 0 /\ 0 < nextSeq' /\ 0 < nextSeq
    BY <1>0, <1>1 DEF ringVars
  <2>2. writing' = 0  BY <1>0, <1>1 DEF ringVars
  <2>3. QED  BY <1>3, <2>1, <2>2 DEF SlotsOrder, BeforeWaiting, Before
<1>7. Quiet'  BY <1>0 DEF Quiet
<1>8. InUse'  BY <1>0 DEF Ordered, InUse, SlotOf, Index, ringVars, threadVars
<1>9. QED  BY <1>0, <1>1, <1>4, <1>5, <1>6, <1>7, <1>8 DEF Ordered, historyVars

LEMMA OnceStartSetJob ==
    ASSUME IInv, Ordered, twice \subseteq {base}, StartSetJob
    PROVE  Ordered' /\ twice' \subseteq {base'}
<1>1. /\ writing = 0 /\ toStartup # <<>> /\ writing' = Head(toStartup) /\ toStartup' = Tail(toStartup)
      /\ UNCHANGED <<controlVars, jobSeq, slots, written, threadVars, shares, emitted, hashed, twice>>
  BY DEF StartSetJob
<1>2. toStartup \in Seq(1 .. MaxJobs)  BY DEF IInv, TypeOK
<1>3. /\ Len(toStartup) \in Nat /\ 1 \in 1 .. Len(toStartup) /\ writing' = toStartup[1]
      /\ \A i \in 1 .. Len(toStartup') :
           /\ i + 1 \in 1 .. Len(toStartup) /\ toStartup'[i] = toStartup[i + 1]
           /\ i \in Nat /\ 1 < i + 1
  BY <1>1, <1>2
<1>4. toStartup[1] < nextSeq  BY <1>3 DEF IInv, Numbered
<1>5. UNCHANGED <<nextSeq, base>>  BY <1>1 DEF controlVars
<1>6. base # 0  BY <1>1 DEF Ordered, Quiet
<1>7. written = 0  BY <1>1 DEF IInv, SlotsWhole, TypeOK
<1>8. \A i, k \in 1 .. Len(toStartup) : i < k => Before(toStartup[i], toStartup[k])
  BY DEF Ordered, WaitingOrder
<1>9. WaitingOrder'
  <2>1. ASSUME NEW i \in 1 .. Len(toStartup'), NEW k \in 1 .. Len(toStartup'), i < k
        PROVE  Before(toStartup'[i], toStartup'[k])
    <3>1. i + 1 < k + 1  BY <1>3, <2>1
    <3>2. QED  BY <1>3, <1>8, <3>1
  <2>2. \A i \in 1 .. Len(toStartup') : Before(writing', toStartup'[i])  BY <1>3, <1>8
  <2>3. QED  BY <1>3, <1>4, <1>5, <2>1, <2>2 DEF WaitingOrder, BeforeWaiting, Before
<1>10. ASSUME NEW x, BeforeWaiting(x)
       PROVE  /\ x < nextSeq /\ Before(x, writing')
              /\ \A i \in 1 .. Len(toStartup') : Before(x, toStartup'[i])
  BY <1>3, <1>10 DEF BeforeWaiting
<1>11. HashedOrder'
  <2>1. \A h \in hashed : h[1] \in Nat /\ h[2] \in Nat /\ BeforeWaiting(h[1])
    BY DEF Ordered, HashedOrder
  <2>2. QED  BY <1>1, <1>5, <1>10, <2>1 DEF HashedOrder, BeforeWaiting, Before
<1>12. SlotsOrder'
  <2>1. \A i \in 0 .. N - 1 : BeforeWaiting(slots[i].blob)  BY DEF Ordered, SlotsOrder
  <2>2. QED  BY <1>1, <1>5, <1>10, <2>1 DEF SlotsOrder, BeforeWaiting, Before
<1>13. Quiet'  BY <1>5, <1>6 DEF Quiet
<1>14. SlotsDiffer' /\ Counted' /\ InUse' /\ twice' \subseteq {base'}
  BY <1>1, <1>5 DEF Ordered, SlotsDiffer, Counted, InUse, SlotOf, Index, threadVars
<1>15. QED  BY <1>9, <1>11, <1>12, <1>13, <1>14 DEF Ordered

\* The slot that is written gets a job newer than every other, or the base
\* job again.
LEMMA OnceWriteSlot ==
    ASSUME IInv, Ordered, twice \subseteq {base}, WriteSlot
    PROVE  Ordered' /\ twice' \subseteq {base'}
<1> DEFINE s == Index(jobSeq + 1)
<1>1. /\ writing # 0 /\ written < 2 /\ written' = written + 1
      /\ UNCHANGED <<nextSeq, kept, base, toStartup, jobSeq, writing, pc, jobSeqRead, share,
                     hashed, twice, lapped>>
  BY DEF WriteSlot, SlotUnchanged, controlVars, threadVars, historyVars
<1>2. /\ slots \in [0 .. N - 1 -> Slot] /\ writing \in Nat /\ written \in 0 .. 2 /\ jobSeq \in Nat
  BY DEF IInv, TypeOK, Slot
<1>3. s \in 0 .. N - 1 /\ s' = s  BY <1>1, <1>2, IndexRange DEF Index
<1>4. base # 0  BY <1>1 DEF Ordered, Quiet
<1>5. \A i \in 0 .. N - 1 : i # s => slots'[i] = slots[i]
  BY <1>2 DEF WriteSlot
<1>6. \/ /\ written = 0
         /\ slots'[s].blob = writing /\ slots'[s].nonce = 0
      \/ /\ written = 1
         /\ slots'[s].blob = slots[s].blob /\ slots'[s].nonce = slots[s].nonce
  BY <1>1, <1>2, <1>3 DEF WriteSlot, Slot
<1>7. Quiet'  BY <1>1, <1>4 DEF Quiet
<1>8. WaitingOrder'  BY <1>1 DEF Ordered, WaitingOrder, BeforeWaiting, Before
<1>9. HashedOrder'  BY <1>1 DEF Ordered, HashedOrder, BeforeWaiting, Before
<1>w. BeforeWaiting(writing)  BY <1>1 DEF Ordered, WaitingOrder
<1>10. SlotsOrder'
  <2>1. ASSUME NEW i \in 0 .. N - 1
        PROVE  BeforeWaiting(slots'[i].blob) /\ (i # s => Before(slots'[i].blob, writing))
    <3>1. CASE i # s  BY <1>1, <1>5, <3>1 DEF Ordered, SlotsOrder
    <3>2. CASE i = s  BY <1>6, <1>w, <3>2 DEF Ordered, SlotsOrder
    <3>3. QED  BY <3>1, <3>2
  <2>2. written' # 0  BY <1>1, <1>2
  <2>3. Index(jobSeq' + 1) = s  BY <1>1
  <2>4. QED  BY <1>1, <2>1, <2>2, <2>3 DEF SlotsOrder, BeforeWaiting, Before
<1> HIDE DEF s
<1>11. ASSUME written = 0, NEW i \in 0 .. N - 1, i # s, slots[i].blob = writing
       PROVE  writing = base
  <2>1. Before(slots[i].blob, writing)  BY <1>1, <1>11 DEF Ordered, SlotsOrder
  <2>2. QED  BY <1>2, <1>11, <2>1 DEF Before
<1>12. SlotsDiffer'
  <2>1. SUFFICES ASSUME NEW i \in 0 .. N - 1, NEW k \in 0 .. N - 1, i # k,
                        slots'[i].blob = slots'[k].blob
                 PROVE  slots'[i].blob \in {0, base}
    BY <1>1 DEF SlotsDiffer
  <2>2. CASE written = 0
    <3>1. CASE i = s  BY <1>5, <1>6, <1>11, <2>1, <2>2, <3>1
    <3>2. CASE k = s  BY <1>5, <1>6, <1>11, <2>1, <2>2, <3>2
    <3>3. CASE i # s /\ k # s  BY <1>5, <2>1, <3>3 DEF Ordered, SlotsDiffer
    <3>4. QED  BY <3>1, <3>2, <3>3
  <2>3. CASE written = 1
    <3>1. slots'[i].blob = slots[i].blob /\ slots'[k].blob = slots[k].blob  BY <1>5, <1>6, <2>3
    <3>2. QED  BY <2>1, <3>1 DEF Ordered, SlotsDiffer
  <2>4. QED  BY <1>6, <2>2, <2>3
<1>13. Counted'
  <2>1. SUFFICES ASSUME NEW h \in hashed, NEW i \in 0 .. N - 1, slots'[i].blob = h[1], h[1] # base
                 PROVE  h[2] < slots'[i].nonce
    BY <1>1 DEF Counted
  <2>2. CASE i = s /\ written = 0
    <3>1. h[1] = writing /\ h[1] \in Nat /\ Before(h[1], writing)
      BY <1>1, <1>6, <2>1, <2>2 DEF Ordered, HashedOrder
    <3>2. QED  BY <2>1, <3>1 DEF Before
  <2>3. CASE ~(i = s /\ written = 0)
    <3>1. slots'[i].blob = slots[i].blob /\ slots'[i].nonce = slots[i].nonce
      BY <1>5, <1>6, <2>3
    <3>2. QED  BY <2>1, <3>1 DEF Ordered, Counted
  <2>4. QED  BY <2>2, <2>3
<1>14. InUse'
  <2>1. \A i \in 0 .. N - 1 : slots[i].blob # 0 => slots'[i].blob # 0  BY <1>1, <1>5, <1>6
  <2>2. jobSeq # 0 => slots'[Index(jobSeq)].blob # 0
    BY <1>2, <2>1, IndexRange DEF Ordered, InUse
  <2>3. ASSUME NEW t \in Threads, jobSeqRead[t] # 0 PROVE slots'[Index(jobSeqRead[t])].blob # 0
    <3>1. jobSeqRead[t] \in Nat  BY DEF IInv, TypeOK
    <3>2. QED  BY <2>1, <2>3, <3>1, IndexRange DEF Ordered, InUse, SlotOf
  <2>4. QED  BY <1>1, <2>2, <2>3 DEF InUse, SlotOf, Index
<1>15. twice' \subseteq {base'}  BY <1>1
<1>16. QED  BY <1>7, <1>8, <1>9, <1>10, <1>12, <1>13, <1>14, <1>15 DEF Ordered

LEMMA OncePublish ==
    ASSUME IInv, Ordered, twice \subseteq {base}, Publish
    PROVE  Ordered' /\ twice' \subseteq {base'}
<1>1. /\ written = 2 /\ jobSeq' = jobSeq + 1 /\ writing' = 0 /\ written' = 0
      /\ UNCHANGED <<slots, nextSeq, kept, base, toStartup, pc, jobSeqRead, share,
                     hashed, twice, lapped>>
  BY DEF Publish, SlotUnchanged, controlVars, threadVars, historyVars
<1>2. writing # 0 /\ slots[Index(jobSeq + 1)].blob = writing
  BY <1>1 DEF IInv, SlotsWhole
<1>3. Quiet'  BY <1>1, <1>2 DEF Ordered, Quiet
<1>4. WaitingOrder' /\ HashedOrder' /\ SlotsOrder'
  BY <1>1 DEF Ordered, WaitingOrder, HashedOrder, SlotsOrder, BeforeWaiting, Before
<1>5. SlotsDiffer' /\ Counted' /\ twice' \subseteq {base'}
  BY <1>1 DEF Ordered, SlotsDiffer, Counted
<1>6. InUse'  BY <1>1, <1>2 DEF Ordered, InUse, SlotOf, Index
<1>7. QED  BY <1>3, <1>4, <1>5, <1>6 DEF Ordered

\* The nonce a thread takes was taken by nobody before.
LEMMA OnceTakeNonce ==
    ASSUME IInv, Ordered, twice \subseteq {base}, ~lapped, NEW t \in Threads, TakeNonce(t)
    PROVE  Ordered' /\ twice' \subseteq {base'}
<1> DEFINE s == Index(jobSeqRead[t])
           b == slots[s].blob
           n == slots[s].nonce
<1>1. /\ pc[t] = "nonce"
      /\ UNCHANGED <<nextSeq, kept, base, toStartup, jobSeq, writing, written, jobSeqRead, lapped>>
  BY DEF TakeNonce, ThreadStep, controlVars
<1>2. slots \in [0 .. N - 1 -> Slot] /\ jobSeqRead[t] \in Nat /\ jobSeq \in Nat
  BY DEF IInv, TypeOK, Slot
<1>3. s \in 0 .. N - 1  BY <1>2, IndexRange
<1>4. b \in Nat /\ n \in Nat  BY <1>2, <1>3 DEF Slot
<1>5. /\ share[t].blob = b /\ jobSeqRead[t] # 0 /\ jobSeqRead[t] <= jobSeq
      /\ writing = 0 \/ s # Index(jobSeq + 1)
  BY <1>1 DEF IInv, ThreadsFollow, Follows, Using, SlotOf
<1>6. b # 0  BY <1>5 DEF Ordered, InUse, SlotOf
<1>7. /\ hashed' = hashed \cup {<<b, n>>}
      /\ twice' = IF <<b, n>> \in hashed THEN twice \cup {b} ELSE twice
  BY <1>5 DEF TakeNonce, SlotOf
<1>8. /\ \A i \in 0 .. N - 1 : slots'[i].blob = slots[i].blob
      /\ \A i \in 0 .. N - 1 : i # s => slots'[i].nonce = slots[i].nonce
      /\ slots'[s].nonce = n + 1
  BY <1>2, <1>3 DEF TakeNonce, Slot
<1>9. BeforeWaiting(b) /\ (writing # 0 => Before(b, writing))
  BY <1>3, <1>5 DEF Ordered, SlotsOrder
<1>10. ASSUME b # base PROVE <<b, n>> \notin hashed
  <2>1. ASSUME <<b, n>> \in hashed PROVE n < n
    <3>1. \A h \in hashed : b = h[1] /\ h[1] # base => h[2] < slots[s].nonce
      BY <1>3 DEF Ordered, Counted
    <3>2. <<b, n>>[1] = b /\ <<b, n>>[2] = n  OBVIOUS
    <3> HIDE DEF b, n
    <3>3. n < slots[s].nonce  BY <1>10, <2>1, <3>1, <3>2
    <3>4. QED  BY <3>3 DEF n
  <2> HIDE DEF b, n
  <2>2. QED  BY <1>4, <2>1
<1>11. twice' \subseteq {base'}
  <2> HIDE DEF b, n
  <2>1. QED  BY <1>1, <1>7, <1>10
<1>12. Quiet'
  <2>1. base # 0
    <3>1. base = 0 => jobSeq = 0  BY DEF Ordered, Quiet
    <3>2. QED  BY <1>2, <1>5, <3>1
  <2>2. QED  BY <1>1, <2>1 DEF Quiet
<1>13. WaitingOrder'  BY <1>1 DEF Ordered, WaitingOrder, BeforeWaiting, Before
<1>14. SlotsOrder'  BY <1>1, <1>8 DEF Ordered, SlotsOrder, BeforeWaiting, Before
<1>15. SlotsDiffer'  BY <1>1, <1>8 DEF Ordered, SlotsDiffer
<1>16. InUse'
  <2>1. \A u \in Threads : jobSeqRead[u] \in Nat  BY DEF IInv, TypeOK
  <2>2. QED  BY <1>1, <1>2, <1>8, <2>1, IndexRange DEF Ordered, InUse, SlotOf
<1> HIDE DEF b, n, s
<1>17. HashedOrder'
  <2>1. ASSUME NEW h \in hashed'
        PROVE  /\ h[1] \in Nat /\ h[2] \in Nat /\ BeforeWaiting(h[1])
               /\ writing # 0 => Before(h[1], writing)
    <3>1. CASE h \in hashed  BY <3>1 DEF Ordered, HashedOrder
    <3>2. CASE h = <<b, n>>  BY <1>4, <1>9, <3>2
    <3>3. QED  BY <1>7, <3>1, <3>2
  <2>2. QED  BY <1>1, <2>1 DEF HashedOrder, BeforeWaiting, Before
<1>18. Counted'
  <2>1. SUFFICES ASSUME NEW h \in hashed', NEW i \in 0 .. N - 1, slots[i].blob = h[1], h[1] # base
                 PROVE  h[2] < slots'[i].nonce
    BY <1>1, <1>8 DEF Counted
  <2>2. CASE h \in hashed
    <3>1. h[2] < slots[i].nonce  BY <2>1, <2>2 DEF Ordered, Counted
    <3>2. h[2] \in Nat /\ slots[i].nonce \in Nat
      BY <1>2, <2>2 DEF Ordered, HashedOrder, Slot
    <3>3. CASE i # s  BY <1>8, <3>1, <3>3
    <3>4. CASE i = s
      <4>1. h[2] < n  BY <3>1, <3>4 DEF n
      <4>2. QED  BY <1>4, <1>8, <3>2, <3>4, <4>1
    <3>5. QED  BY <3>3, <3>4
  <2>3. CASE h = <<b, n>>
    <3>1. slots[i].blob = b /\ b # base /\ h[2] = n  BY <2>1, <2>3
    <3>2. i = s
      <4>1. i # s /\ slots[i].blob = slots[s].blob => slots[i].blob \in {0, base}
        BY <1>3 DEF Ordered, SlotsDiffer
      <4>2. slots[s].blob = b  BY DEF b
      <4>3. QED  BY <1>6, <3>1, <4>1, <4>2
    <3>3. QED  BY <1>4, <1>8, <3>1, <3>2
  <2>4. QED  BY <1>7, <2>2, <2>3
<1>19. QED
  BY <1>11, <1>12, <1>13, <1>14, <1>15, <1>16, <1>17, <1>18 DEF Ordered

LEMMA OnceStep == IInv /\ OnceInv /\ [Next]_vars => OnceInv'
<1> SUFFICES ASSUME IInv, OnceInv, [Next]_vars, ~lapped' PROVE Ordered' /\ twice' \subseteq {base'}
  BY DEF OnceInv
<1>1. ~lapped
  BY DEF Next, ServerJob, WorkersReady, ClShare, StartSetJob, WriteSlot, Publish, SlotUnchanged,
         GetJob, CopyId, CopyBlob, TakeNonce, BeyondBound, Hash, ThreadStep, vars, historyVars
<1>2. Ordered /\ twice \subseteq {base}  BY <1>1 DEF OnceInv
<1>3. CASE ServerJob  BY <1>2, <1>3, OnceServerJob
<1>4. CASE WorkersReady  BY <1>2, <1>4, OnceWorkersReady
<1>5. CASE StartSetJob  BY <1>2, <1>5, OnceStartSetJob
<1>6. CASE WriteSlot  BY <1>2, <1>6, OnceWriteSlot
<1>7. CASE Publish  BY <1>2, <1>7, OncePublish
<1>8. ASSUME NEW t \in Threads, TakeNonce(t) PROVE Ordered' /\ twice' \subseteq {base'}
  BY <1>1, <1>2, <1>8, OnceTakeNonce
<1>9. CASE \/ \E s \in shares : ClShare(s)
           \/ UNCHANGED vars
           \/ \E t \in Threads : CopyId(t) \/ CopyBlob(t) \/ BeyondBound(t)
           \/ \E t \in Threads, found \in BOOLEAN : Hash(t, found)
  <2>1. UNCHANGED <<nextSeq, base, toStartup, jobSeq, slots, writing, written, hashed, twice,
                    jobSeqRead>>
    BY <1>9 DEF ClShare, CopyId, CopyBlob, BeyondBound, Hash, ThreadStep, vars, controlVars,
         ringVars, threadVars, historyVars
  <2>2. QED  BY <1>2, <2>1, OnceUntouched
<1>10. ASSUME NEW t \in Threads, GetJob(t) PROVE Ordered' /\ twice' \subseteq {base'}
  <2>1. UNCHANGED <<nextSeq, base, toStartup, jobSeq, slots, writing, written, hashed, twice>>
    BY <1>10 DEF GetJob, ThreadStep, controlVars
  <2>2. \A u \in Threads : jobSeqRead'[u] = jobSeqRead[u] \/ jobSeqRead'[u] = jobSeq
    <3>1. jobSeqRead \in [Threads -> Nat]  BY DEF IInv, TypeOK
    <3>2. jobSeqRead' = [jobSeqRead EXCEPT ![t] = jobSeq]  BY <1>10 DEF GetJob
    <3>3. QED  BY <3>1, <3>2
  <2>3. QED  BY <1>2, <2>1, <2>2, OnceUntouched
<1>11. QED  BY <1>3, <1>4, <1>5, <1>6, <1>7, <1>8, <1>9, <1>10 DEF Next

\* Without a lap no two threads hash the same header, except of the base job,
\* whatever jobs are dropped and however the threads share the counters.
THEOREM HeadersHashedOnce == Spec => []HashedOnce
<1>1. OnceInv => HashedOnce  BY DEF OnceInv, HashedOnce
<1>2. QED  BY <1>1, OnceInit, OnceStep, InvAlways, PTL DEF Spec

=============================================================================

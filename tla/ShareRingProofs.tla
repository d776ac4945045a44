--------------------------- MODULE ShareRingProofs ---------------------------
(***************************************************************************)
(* Proofs about ShareRing, for every ring size, any threads and any number *)
(* of shares.  The argument: while no claim laps the reader, the claims    *)
(* not yet delivered lie within one ring, so they have different slots;    *)
(* each of them is either still being submitted by the one thread that     *)
(* claimed it, its flag down, or whole in its slot with the flag up.       *)
(***************************************************************************)
EXTENDS ShareRing, TLAPS

-----------------------------------------------------------------------------
(* Slots *)

LEMMA SlotType ==
    ASSUME NEW seq \in Nat
    PROVE  Slot(seq) \in Slots
BY NAssumption DEF Slot, Slots

LEMMA DivMod ==
    ASSUME NEW a \in Nat
    PROVE  /\ a \div N \in Nat /\ a % N \in Int
           /\ N * (a \div N) \in Int
           /\ a = N * (a \div N) + (a % N)
BY NAssumption

\* No multiple of N lies strictly between 0 and N.
LEMMA NoMultipleBetween ==
    ASSUME NEW p \in Nat, NEW q \in Nat, 0 < N * q - N * p, N * q - N * p < N
    PROVE  FALSE
<1>1. CASE q <= p
  <2>1. N * q <= N * p
    BY <1>1, NAssumption
  <2> QED
    BY <2>1, NAssumption
<1>2. CASE q >= p + 1
  <2>1. N * q >= N * (p + 1)
    BY <1>2, NAssumption
  <2>2. N * (p + 1) = N * p + N
    BY NAssumption
  <2> QED
    BY <2>1, <2>2, NAssumption
<1> QED
  BY <1>1, <1>2

\* Two numbers less than a ring apart have different slots.
LEMMA SlotsDiffer ==
    ASSUME NEW a \in Nat, NEW b \in Nat, a < b, b < a + N
    PROVE  Slot(a) # Slot(b)
<1> DEFINE p == a \div N  q == b \div N
<1>1. SUFFICES ASSUME a % N = b % N PROVE FALSE
  BY DEF Slot
<1>2. p \in Nat /\ N * p \in Int /\ a % N \in Int /\ a = N * p + (a % N)
  BY DivMod
<1>3. q \in Nat /\ N * q \in Int /\ b % N \in Int /\ b = N * q + (b % N)
  BY DivMod
<1> HIDE DEF p, q
<1>4. 0 < N * q - N * p /\ N * q - N * p < N
  BY <1>1, <1>2, <1>3, NAssumption
<1> QED
  BY <1>2, <1>3, <1>4, NoMultipleBetween

\* One ring further is the same slot.
LEMMA SlotWraps ==
    ASSUME NEW a \in Nat
    PROVE  Slot(a + N) = Slot(a)
<1> DEFINE b == a + N  p == a \div N + 1  q == b \div N
<1>1. p \in Nat /\ N * p \in Int /\ a % N \in Int /\ b = N * p + (a % N)
  <2>1. N * (a \div N + 1) = N * (a \div N) + N
    BY DivMod, NAssumption
  <2> QED
    BY <2>1, DivMod, NAssumption
<1>2. q \in Nat /\ N * q \in Int /\ b % N \in Int /\ b = N * q + (b % N)
  BY DivMod, NAssumption
<1>3. a % N \in 0 .. N - 1 /\ b % N \in 0 .. N - 1
  BY SlotType, NAssumption DEF Slot, Slots
<1> HIDE DEF p, q, b
<1> DEFINE x == N * p  y == N * q  i == a % N  j == b % N
<1>4. x \in Int /\ y \in Int /\ x + i = y + j /\ i \in 0 .. N - 1 /\ j \in 0 .. N - 1
  BY <1>1, <1>2, <1>3
<1>5. ~(0 < y - x /\ y - x < N) /\ ~(0 < x - y /\ x - y < N)
  BY <1>1, <1>2, NoMultipleBetween
<1> HIDE DEF x, y, i, j
<1>6. i = j
  BY <1>4, <1>5, NAssumption
<1> QED
  BY <1>6 DEF Slot, b, i, j

-----------------------------------------------------------------------------
(* The inductive invariant *)

\* Past the test of getShare there is a share to take.
ReaderBehind ==
    at \in {"wait", "copy", "half", "clear", "advance"} => shareSeqRead < shareSeqWrite

TypeInv == TypeOK /\ ReaderBehind

\* The claims being submitted are outstanding, each has one thread, its flag
\* is down and the parts written so far are in the slot.
Claims ==
    /\ \A t \in Threads : Submitting(t) =>
         /\ shareSeqRead <= claim[t] /\ claim[t] < shareSeqWrite
         /\ Slot(claim[t]) \notin ready
         /\ step[t] \in {"half", "written"} => part1[Slot(claim[t])] = claim[t]
         /\ step[t] = "written" => part2[Slot(claim[t])] = claim[t]
    /\ \A t, u \in Threads : Submitting(t) /\ Submitting(u) /\ claim[t] = claim[u] => t = u

Whole(s) == Slot(s) \in ready /\ part1[Slot(s)] = s /\ part2[Slot(s)] = s

\* An outstanding share is being submitted, whole, or just being removed.
Outstanding ==
    \A s \in Nat : shareSeqRead <= s /\ s < shareSeqWrite =>
        \/ \E t \in Threads : Submitting(t) /\ claim[t] = s
        \/ Whole(s)
        \/ s = shareSeqRead /\ at = "advance"

\* No flag is up in the rest of the ring.
Free ==
    \A s \in Nat : shareSeqWrite <= s /\ s < shareSeqRead + N => Slot(s) \notin ready

\* What the reader copied is the share it is at, and stays so.
Copied ==
    /\ at \in {"copy", "half", "clear"} => Slot(shareSeqRead) \in ready
    /\ at = "half" => got[1] = shareSeqRead
    /\ at \in {"clear", "advance"} => got = <<shareSeqRead, shareSeqRead>>
    /\ at = "advance" =>
         /\ Slot(shareSeqRead) \notin ready
         /\ \A t \in Threads : Submitting(t) => claim[t] # shareSeqRead
    /\ at = "send" => got = <<shareSeqRead - 1, shareSeqRead - 1>>

Sent ==
    /\ Len(delivered) = IF at = "send" THEN shareSeqRead - 1 ELSE shareSeqRead
    /\ \A i \in DOMAIN delivered : delivered[i] = <<i - 1, i - 1>>

RingInv ==
    /\ shareSeqWrite <= shareSeqRead + N
    /\ Claims
    /\ Outstanding
    /\ Free
    /\ Copied
    /\ Sent

IInv == TypeInv /\ (lapped \/ RingInv)

-----------------------------------------------------------------------------
(* Types *)

USE NAssumption, MaxSharesAssumption

LEMMA InitTypeInv == Init => TypeInv
<1> SUFFICES ASSUME Init PROVE TypeInv
  OBVIOUS
<1>1. got \in Int \X Int /\ delivered \in Seq(Int \X Int)
  <2>1. <<>> \in Seq(Int \X Int)
    OBVIOUS
  <2> QED
    BY <2>1 DEF Init, NoShare
<1>2. part1 \in [Slots -> Int] /\ part2 \in [Slots -> Int]
  BY DEF Init, NoShare
<1>3. shareSeqWrite \in 0 .. MaxShares /\ shareSeqRead \in 0 .. shareSeqWrite
  BY DEF Init
<1>4. TypeOK
  BY <1>1, <1>2, <1>3 DEF Init, TypeOK
<1> QED
  BY <1>4 DEF Init, TypeInv, ReaderBehind

LEMMA SubmitKeepsTypeInv ==
    ASSUME TypeInv, NEW t \in Threads, Claim(t) \/ SubmitStep(t)
    PROVE  TypeInv'
<1> USE DEF TypeInv, TypeOK, ReaderBehind, slotVars, readerVars, processVars
<1>1. CASE Claim(t)
  BY <1>1 DEF Claim
<1>2. CASE WritePart1(t)
  BY <1>2, SlotType DEF WritePart1
<1>3. CASE WritePart2(t)
  BY <1>3, SlotType DEF WritePart2
<1>4. CASE Publish(t)
  BY <1>4, SlotType DEF Publish
<1> QED
  BY <1>1, <1>2, <1>3, <1>4 DEF SubmitStep

LEMMA ReaderKeepsTypeInv ==
    ASSUME TypeInv, ReaderStep
    PROVE  TypeInv'
<1> USE DEF TypeInv, TypeOK, ReaderBehind, slotVars, threadVars, processVars
<1>1. CASE TryAlive
  BY <1>1 DEF TryAlive, Unwind
<1>2. CASE Look
  BY <1>2 DEF Look
<1>3. CASE SeeReady
  BY <1>3 DEF SeeReady
<1>4. CASE CopyPart1
  <2>1. part1[Slot(shareSeqRead)] \in Int
    BY SlotType
  <2> QED
    BY <1>4, <2>1 DEF CopyPart1, NoShare
<1>5. CASE CopyPart2
  <2>1. part2[Slot(shareSeqRead)] \in Int
    BY SlotType
  <2> QED
    BY <1>5, <2>1 DEF CopyPart2
<1>6. CASE Clear
  BY <1>6 DEF Clear
<1>7. CASE Advance
  BY <1>7 DEF Advance
<1>8. CASE Send
  BY <1>8 DEF Send
<1> QED
  BY <1>1, <1>2, <1>3, <1>4, <1>5, <1>6, <1>7, <1>8 DEF ReaderStep

LEMMA ProcessesKeepTypeInv ==
    ASSUME TypeInv,
           NetError \/ StartupKilled \/ \E w \in Wrappers : WrapperDies(w) \/ ParentGone(w)
    PROVE  TypeInv'
BY DEF TypeInv, TypeOK, ReaderBehind, slotVars, threadVars, readerVars, NetError, Unwind,
       StartupKilled, WrapperDies, ParentGone

LEMMA NextKeepsTypeInv == TypeInv /\ [Next]_vars => TypeInv'
<1>1. CASE UNCHANGED vars
  BY <1>1 DEF vars, TypeInv, TypeOK, ReaderBehind, slotVars, threadVars, readerVars, processVars
<1>2. CASE Next
  BY <1>2, SubmitKeepsTypeInv, ReaderKeepsTypeInv, ProcessesKeepTypeInv DEF Next
<1> QED
  BY <1>1, <1>2

\* The types, and that the reader never passes the writers.
THEOREM TypeCorrect == Spec => []TypeOK
<1>1. Init => TypeInv
  BY InitTypeInv
<1>2. TypeInv /\ [Next]_vars => TypeInv'
  BY NextKeepsTypeInv
<1>3. TypeInv => TypeOK
  BY DEF TypeInv
<1> QED
  BY <1>1, <1>2, <1>3, PTL DEF Spec

-----------------------------------------------------------------------------
(* The ring *)

\* Two claims of one ring have different slots.
LEMMA WithinRing ==
    ASSUME NEW r \in Nat, NEW a \in Nat, NEW b \in Nat,
           r <= a, a < r + N, r <= b, b < r + N, a # b
    PROVE  Slot(a) # Slot(b)
<1>1. a < b \/ b < a
  OBVIOUS
<1>2. CASE a < b
  BY <1>2, SlotsDiffer
<1>3. CASE b < a
  BY <1>3, SlotsDiffer
<1> QED
  BY <1>1, <1>2, <1>3

LEMMA Counters ==
    ASSUME TypeInv
    PROVE  shareSeqRead \in Nat /\ shareSeqWrite \in Nat /\ shareSeqRead <= shareSeqWrite
BY DEF TypeInv, TypeOK

LEMMA InitRingInv == Init => RingInv
<1> SUFFICES ASSUME Init PROVE RingInv
  OBVIOUS
<1> USE DEF Init
<1>1. Claims
  BY DEF Claims, Submitting
<1>2. Outstanding
  BY DEF Outstanding
<1>3. Free
  BY DEF Free
<1>4. Copied
  BY DEF Copied
<1>5. Sent
  BY DEF Sent
<1> QED
  BY <1>1, <1>2, <1>3, <1>4, <1>5 DEF RingInv

\* A new claim takes the first free slot.
LEMMA ClaimKeepsRingInv ==
    ASSUME TypeInv, RingInv, NEW t \in Threads, Claim(t), ~lapped'
    PROVE  RingInv'
<1> DEFINE w == shareSeqWrite  r == shareSeqRead
<1>1. /\ r \in Nat /\ w \in Nat /\ r <= w /\ w < r + N
      /\ shareSeqWrite' = w + 1 /\ shareSeqRead' = r
  <2>1. r \in Nat /\ w \in Nat /\ r <= w
    BY Counters
  <2>2. ~(w - r >= N) /\ shareSeqWrite' = w + 1 /\ shareSeqRead' = r
    BY DEF Claim, readerVars
  <2> QED
    BY <2>1, <2>2
<1>2. /\ step' = [step EXCEPT ![t] = "claimed"] /\ claim' = [claim EXCEPT ![t] = w]
      /\ step \in [Threads -> {"hash", "claimed", "half", "written"}]
      /\ claim \in [Threads -> Nat] /\ ~Submitting(t)
  BY DEF Claim, TypeInv, TypeOK, Submitting
<1>3. /\ part1' = part1 /\ part2' = part2 /\ ready' = ready
      /\ at' = at /\ got' = got /\ delivered' = delivered
  BY DEF Claim, slotVars, readerVars
<1>4. /\ Claims /\ Outstanding /\ Free /\ Copied /\ Sent
  BY DEF RingInv
<1>5. Slot(w) \notin ready
  BY <1>1, <1>4 DEF Free
<1>6. Submitting(t)' /\ claim'[t] = w
  BY <1>2 DEF Submitting
<1>7. ASSUME NEW u \in Threads, u # t
      PROVE  (Submitting(u)' <=> Submitting(u)) /\ claim'[u] = claim[u] /\ step'[u] = step[u]
  BY <1>2, <1>7 DEF Submitting
<1>8. Claims'
  <2>1. ASSUME NEW u \in Threads, Submitting(u)'
        PROVE  /\ shareSeqRead' <= claim'[u] /\ claim'[u] < shareSeqWrite'
               /\ Slot(claim'[u]) \notin ready'
               /\ step'[u] \in {"half", "written"} => part1'[Slot(claim'[u])] = claim'[u]
               /\ step'[u] = "written" => part2'[Slot(claim'[u])] = claim'[u]
    <3>1. CASE u = t
      BY <1>1, <1>2, <1>3, <1>5, <3>1
    <3>2. CASE u # t
      <4>1. claim[u] \in Nat
        BY <1>2
      <4> QED
        BY <1>1, <1>3, <1>4, <1>7, <2>1, <3>2, <4>1 DEF Claims
    <3> QED
      BY <3>1, <3>2
  <2>2. ASSUME NEW u \in Threads, NEW v \in Threads,
               Submitting(u)', Submitting(v)', claim'[u] = claim'[v]
        PROVE  u = v
    <3>1. CASE u # t /\ v # t
      BY <1>4, <1>7, <2>2, <3>1 DEF Claims
    <3>2. CASE u = t /\ v # t
      <4>1. claim[v] = w /\ Submitting(v)
        BY <1>6, <1>7, <2>2, <3>2
      <4> QED
        BY <1>1, <1>4, <4>1 DEF Claims
    <3>3. CASE u # t /\ v = t
      <4>1. claim[u] = w /\ Submitting(u)
        BY <1>6, <1>7, <2>2, <3>3
      <4> QED
        BY <1>1, <1>4, <4>1 DEF Claims
    <3> QED
      BY <3>1, <3>2, <3>3
  <2> QED
    BY <2>1, <2>2, Zenon DEF Claims
<1>9. Outstanding'
  <2>1. SUFFICES ASSUME NEW s \in Nat, r <= s, s < w + 1
                 PROVE  \/ \E u \in Threads : Submitting(u)' /\ claim'[u] = s
                        \/ Whole(s)
                        \/ s = r /\ at = "advance"
    BY <1>1, <1>3 DEF Outstanding, Whole
  <2>2. CASE s = w
    BY <1>6, <2>2
  <2>3. CASE s < w
    <3>1. ASSUME NEW u \in Threads, Submitting(u), claim[u] = s
          PROVE  Submitting(u)' /\ claim'[u] = s
      BY <1>2, <1>7, <3>1
    <3> QED
      BY <1>4, <2>1, <2>3, <3>1 DEF Outstanding
  <2> QED
    BY <1>1, <2>1, <2>2, <2>3
<1>10. Free'
  BY <1>1, <1>3, <1>4 DEF Free
<1>11. Copied'
  <2>1. at = "advance" => r < w
    BY DEF TypeInv, ReaderBehind
  <2>2. ASSUME at = "advance", NEW u \in Threads, Submitting(u)'
        PROVE  claim'[u] # r
    BY <1>1, <1>4, <1>6, <1>7, <2>1, <2>2 DEF Copied
  <2> QED
    BY <1>1, <1>3, <1>4, <2>2 DEF Copied
<1>12. Sent'
  BY <1>1, <1>3, <1>4 DEF Sent
<1> QED
  BY <1>1, <1>8, <1>9, <1>10, <1>11, <1>12 DEF RingInv

\* The slot of a claim is not the slot of any other number of the ring.
LEMMA ClaimSlot ==
    ASSUME TypeInv, RingInv, NEW t \in Threads, Submitting(t)
    PROVE  /\ claim[t] \in Nat /\ Slot(claim[t]) \in Slots
           /\ shareSeqRead <= claim[t] /\ claim[t] < shareSeqRead + N
           /\ \A s \in Nat : shareSeqRead <= s /\ s < shareSeqRead + N /\ s # claim[t]
                            => Slot(s) # Slot(claim[t])
<1>1. claim[t] \in Nat /\ Slot(claim[t]) \in Slots
  BY SlotType DEF TypeInv, TypeOK
<1>2. shareSeqRead <= claim[t] /\ claim[t] < shareSeqWrite
  BY DEF RingInv, Claims
<1>3. shareSeqRead \in Nat /\ shareSeqWrite \in Nat /\ shareSeqWrite <= shareSeqRead + N
  BY Counters DEF RingInv
<1>4. claim[t] < shareSeqRead + N
  BY <1>1, <1>2, <1>3
<1>5. ASSUME NEW s \in Nat, shareSeqRead <= s, s < shareSeqRead + N, s # claim[t]
      PROVE  Slot(s) # Slot(claim[t])
  BY <1>1, <1>2, <1>3, <1>4, <1>5, WithinRing
<1> QED
  BY <1>1, <1>2, <1>4, <1>5

\* Writing a part of a share disturbs no other share.
LEMMA WriteKeepsRingInv ==
    ASSUME TypeInv, RingInv, NEW t \in Threads, WritePart1(t) \/ WritePart2(t)
    PROVE  RingInv'
<1> DEFINE c == claim[t]
<1>1. Submitting(t) /\ Submitting(t)'
  BY DEF WritePart1, WritePart2, Submitting, TypeInv, TypeOK
<1>2. /\ claim' = claim /\ ready' = ready
      /\ shareSeqWrite' = shareSeqWrite /\ shareSeqRead' = shareSeqRead
      /\ at' = at /\ got' = got /\ delivered' = delivered
  BY DEF WritePart1, WritePart2, readerVars
<1>3. /\ c \in Nat /\ Slot(c) \in Slots
      /\ \A s \in Nat : shareSeqRead <= s /\ s < shareSeqRead + N /\ s # c
                       => Slot(s) # Slot(c)
  BY <1>1, ClaimSlot
<1>4. /\ Claims /\ Outstanding /\ Free /\ Copied /\ Sent
  BY DEF RingInv
<1>5. part1'[Slot(c)] = c /\ (step'[t] = "written" => part2'[Slot(c)] = c)
  <2>1. part1 \in [Slots -> Int] /\ part2 \in [Slots -> Int]
        /\ step \in [Threads -> {"hash", "claimed", "half", "written"}]
    BY DEF TypeInv, TypeOK
  <2>2. CASE WritePart1(t)
    BY <1>3, <2>1, <2>2 DEF WritePart1
  <2>3. CASE WritePart2(t)
    <3>1. part1[Slot(c)] = c
      BY <1>1, <1>4, <2>3 DEF Claims, WritePart2
    <3> QED
      BY <1>3, <2>1, <2>3, <3>1 DEF WritePart2
  <2> QED
    BY <2>2, <2>3
<1>6. ASSUME NEW i \in Slots, i # Slot(c)
      PROVE  part1'[i] = part1[i] /\ part2'[i] = part2[i]
  BY <1>6 DEF WritePart1, WritePart2, TypeInv, TypeOK
<1>7. ASSUME NEW u \in Threads, u # t
      PROVE  (Submitting(u)' <=> Submitting(u)) /\ step'[u] = step[u]
  BY <1>7 DEF WritePart1, WritePart2, Submitting, TypeInv, TypeOK
<1>8. ASSUME NEW u \in Threads
      PROVE  Submitting(u)' <=> Submitting(u)
  BY <1>1, <1>7
<1>9. Claims'
  <2>1. ASSUME NEW u \in Threads, Submitting(u)'
        PROVE  /\ shareSeqRead' <= claim'[u] /\ claim'[u] < shareSeqWrite'
               /\ Slot(claim'[u]) \notin ready'
               /\ step'[u] \in {"half", "written"} => part1'[Slot(claim'[u])] = claim'[u]
               /\ step'[u] = "written" => part2'[Slot(claim'[u])] = claim'[u]
    <3>1. /\ shareSeqRead <= claim[u] /\ claim[u] < shareSeqWrite
          /\ Slot(claim[u]) \notin ready
          /\ step[u] \in {"half", "written"} => part1[Slot(claim[u])] = claim[u]
          /\ step[u] = "written" => part2[Slot(claim[u])] = claim[u]
      BY <1>4, <1>8, <2>1 DEF Claims
    <3>2. CASE u = t
      BY <1>2, <1>5, <3>1, <3>2
    <3>3. CASE u # t
      <4>1. claim[u] # c
        BY <1>1, <1>4, <1>7, <2>1, <3>3 DEF Claims
      <4>2. Slot(claim[u]) # Slot(c) /\ Slot(claim[u]) \in Slots
        BY <1>3, <1>8, <2>1, <4>1, ClaimSlot
      <4>3. /\ part1'[Slot(claim[u])] = part1[Slot(claim[u])]
            /\ part2'[Slot(claim[u])] = part2[Slot(claim[u])]
        BY <1>6, <4>2
      <4> QED
        BY <1>2, <1>7, <3>1, <3>3, <4>3
    <3> QED
      BY <3>2, <3>3
  <2>2. ASSUME NEW u \in Threads, NEW v \in Threads,
               Submitting(u)', Submitting(v)', claim'[u] = claim'[v]
        PROVE  u = v
    BY <1>2, <1>4, <1>8, <2>2 DEF Claims
  <2> QED
    BY <2>1, <2>2, Zenon DEF Claims
<1>10. Outstanding'
  <2>1. SUFFICES ASSUME NEW s \in Nat, shareSeqRead <= s, s < shareSeqWrite
                 PROVE  \/ \E u \in Threads : Submitting(u)' /\ claim[u] = s
                        \/ Whole(s)'
                        \/ s = shareSeqRead /\ at = "advance"
    BY <1>2, Zenon DEF Outstanding
  <2>2. CASE \E u \in Threads : Submitting(u) /\ claim[u] = s
    BY <1>8, <2>2
  <2>3. CASE Whole(s)
    <3>1. s # c
      BY <1>1, <1>4, <2>3 DEF Whole, Claims
    <3>2. s < shareSeqRead + N
      BY <2>1, Counters DEF RingInv
    <3>3. Slot(s) # Slot(c) /\ Slot(s) \in Slots
      BY <1>3, <2>1, <3>1, <3>2, SlotType
    <3>4. part1'[Slot(s)] = part1[Slot(s)] /\ part2'[Slot(s)] = part2[Slot(s)]
      BY <1>6, <3>3
    <3> QED
      BY <1>2, <2>3, <3>4 DEF Whole
  <2> QED
    BY <1>4, <2>1, <2>2, <2>3 DEF Outstanding
<1>11. Free' /\ Sent' /\ (shareSeqWrite <= shareSeqRead + N)'
  BY <1>2, <1>4 DEF RingInv, Free, Sent
<1>12. Copied'
  BY <1>2, <1>4, <1>8 DEF Copied
<1> QED
  BY <1>9, <1>10, <1>11, <1>12 DEF RingInv

\* A raised flag makes the share whole and ends its submission.
LEMMA PublishKeepsRingInv ==
    ASSUME TypeInv, RingInv, NEW t \in Threads, Publish(t)
    PROVE  RingInv'
<1> DEFINE c == claim[t]
<1>1. Submitting(t) /\ ~Submitting(t)' /\ step[t] = "written"
  BY DEF Publish, Submitting, TypeInv, TypeOK
<1>2. /\ claim' = claim /\ part1' = part1 /\ part2' = part2
      /\ ready' = ready \cup {Slot(c)}
      /\ shareSeqWrite' = shareSeqWrite /\ shareSeqRead' = shareSeqRead
      /\ at' = at /\ got' = got /\ delivered' = delivered
  BY DEF Publish, readerVars
<1>3. /\ c \in Nat /\ shareSeqRead <= c /\ c < shareSeqRead + N
      /\ \A s \in Nat : shareSeqRead <= s /\ s < shareSeqRead + N /\ s # c
                       => Slot(s) # Slot(c)
  BY <1>1, ClaimSlot
<1>4. /\ Claims /\ Outstanding /\ Free /\ Copied /\ Sent
  BY DEF RingInv
<1>5. ASSUME NEW u \in Threads
      PROVE  Submitting(u)' <=> Submitting(u) /\ u # t
  BY <1>1 DEF Publish, Submitting, TypeInv, TypeOK
<1>6. ASSUME NEW u \in Threads, u # t
      PROVE  step'[u] = step[u]
  BY <1>6 DEF Publish, TypeInv, TypeOK
<1>7. Claims'
  <2>1. ASSUME NEW u \in Threads, Submitting(u)'
        PROVE  /\ shareSeqRead' <= claim'[u] /\ claim'[u] < shareSeqWrite'
               /\ Slot(claim'[u]) \notin ready'
               /\ step'[u] \in {"half", "written"} => part1'[Slot(claim'[u])] = claim'[u]
               /\ step'[u] = "written" => part2'[Slot(claim'[u])] = claim'[u]
    <3>1. Submitting(u) /\ u # t
      BY <1>5, <2>1
    <3>2. claim[u] # c
      BY <1>1, <1>4, <3>1 DEF Claims
    <3>3. Slot(claim[u]) # Slot(c)
      BY <1>3, <3>1, <3>2, ClaimSlot
    <3> QED
      BY <1>2, <1>4, <1>6, <3>1, <3>3 DEF Claims
  <2>2. ASSUME NEW u \in Threads, NEW v \in Threads,
               Submitting(u)', Submitting(v)', claim'[u] = claim'[v]
        PROVE  u = v
    BY <1>2, <1>4, <1>5, <2>2 DEF Claims
  <2> QED
    BY <2>1, <2>2, Zenon DEF Claims
<1>8. Outstanding'
  <2>1. SUFFICES ASSUME NEW s \in Nat, shareSeqRead <= s, s < shareSeqWrite
                 PROVE  \/ \E u \in Threads : Submitting(u)' /\ claim[u] = s
                        \/ Whole(s)'
                        \/ s = shareSeqRead /\ at = "advance"
    BY <1>2, Zenon DEF Outstanding
  <2>2. CASE s = c
    BY <1>1, <1>2, <1>4, <2>2 DEF Whole, Claims
  <2>3. ASSUME s # c, NEW u \in Threads, Submitting(u), claim[u] = s
        PROVE  Submitting(u)' /\ claim[u] = s
    BY <1>5, <2>3
  <2>4. Whole(s) => Whole(s)'
    BY <1>2 DEF Whole
  <2> QED
    BY <1>4, <2>1, <2>2, <2>3, <2>4 DEF Outstanding
<1>9. Free'
  <2>1. ASSUME NEW s \in Nat, shareSeqWrite <= s, s < shareSeqRead + N
        PROVE  Slot(s) \notin ready'
    <3>1. s # c /\ shareSeqRead <= s
      <4>1. c < shareSeqWrite
        BY <1>1, <1>4 DEF Claims
      <4> QED
        BY <1>3, <2>1, <4>1, Counters
    <3> QED
      BY <1>2, <1>3, <1>4, <2>1, <3>1 DEF Free
  <2> QED
    BY <1>2, <2>1 DEF Free
<1>10. Copied'
  <2>1. at = "advance" => Slot(shareSeqRead) # Slot(c)
    <3>1. at = "advance" => shareSeqRead # c
      BY <1>1, <1>4 DEF Copied
    <3> QED
      BY <1>3, <3>1, Counters, NAssumption
  <2> QED
    BY <1>2, <1>4, <1>5, <2>1 DEF Copied
<1>11. Sent' /\ (shareSeqWrite <= shareSeqRead + N)'
  BY <1>2, <1>4 DEF RingInv, Sent
<1> QED
  BY <1>7, <1>8, <1>9, <1>10, <1>11 DEF RingInv

\* A raised flag at the reader means that the share is whole.
LEMMA ReadyIsWhole ==
    ASSUME TypeInv, RingInv, shareSeqRead < shareSeqWrite, Slot(shareSeqRead) \in ready
    PROVE  Whole(shareSeqRead)
<1>1. \A t \in Threads : Submitting(t) => claim[t] # shareSeqRead
  BY DEF RingInv, Claims
<1>2. at # "advance"
  BY DEF RingInv, Copied
<1> QED
  BY <1>1, <1>2, Counters DEF RingInv, Outstanding

\* The steps of the reader that change neither slots nor counters.
LEMMA QuietKeepsRingInv ==
    ASSUME TypeInv, RingInv, TryAlive \/ Look \/ SeeReady \/ CopyPart1 \/ CopyPart2
    PROVE  RingInv'
<1>1. /\ UNCHANGED <<slotVars, step, claim, shareSeqWrite, shareSeqRead, delivered>>
      /\ at \notin {"advance", "send"} /\ at' \notin {"advance", "send"}
  BY DEF TryAlive, Look, SeeReady, CopyPart1, CopyPart2, slotVars, threadVars
<1>2. /\ Claims /\ Outstanding /\ Free /\ Copied /\ Sent
  BY DEF RingInv
<1>3. Claims' /\ Free' /\ (shareSeqWrite <= shareSeqRead + N)'
  BY <1>1, <1>2 DEF RingInv, Claims, Free, Submitting, slotVars
<1>4. Outstanding'
  BY <1>1, <1>2 DEF Outstanding, Whole, Submitting, slotVars
<1>5. Sent'
  BY <1>1, <1>2 DEF Sent
<1>6. Copied'
  <2>1. at' \in {"copy", "half", "clear"} => Slot(shareSeqRead) \in ready
    BY <1>2 DEF TryAlive, Look, SeeReady, CopyPart1, CopyPart2, Copied
  <2>2. at \in {"copy", "half"} => Whole(shareSeqRead)
    BY <1>2, ReadyIsWhole DEF Copied, TypeInv, ReaderBehind
  <2>3. at' = "half" => got'[1] = shareSeqRead
    BY <2>2 DEF TryAlive, Look, SeeReady, CopyPart1, CopyPart2, Whole
  <2>4. at' = "clear" => got' = <<shareSeqRead, shareSeqRead>>
    BY <1>2, <2>2 DEF TryAlive, Look, SeeReady, CopyPart1, CopyPart2, Copied, Whole
  <2> QED
    BY <1>1, <2>1, <2>3, <2>4 DEF Copied, slotVars
<1> QED
  BY <1>3, <1>4, <1>5, <1>6 DEF RingInv

LEMMA ClearKeepsRingInv ==
    ASSUME TypeInv, RingInv, Clear
    PROVE  RingInv'
<1> DEFINE r == shareSeqRead
<1>1. /\ UNCHANGED <<part1, part2, step, claim, shareSeqWrite, shareSeqRead, got, delivered>>
      /\ ready' = ready \ {Slot(r)} /\ at = "clear" /\ at' = "advance"
  BY DEF Clear, threadVars
<1>2. /\ Claims /\ Outstanding /\ Free /\ Copied /\ Sent
  BY DEF RingInv
<1>3. \A t \in Threads : Submitting(t) => claim[t] # r
  BY <1>1, <1>2 DEF Claims, Copied
<1>4. Claims' /\ Free' /\ (shareSeqWrite <= shareSeqRead + N)'
  BY <1>1, <1>2 DEF RingInv, Claims, Free, Submitting
<1>5. Outstanding'
  <2>1. SUFFICES ASSUME NEW s \in Nat, r <= s, s < shareSeqWrite, s # r
                 PROVE  \/ \E t \in Threads : Submitting(t)' /\ claim[t] = s
                        \/ Whole(s)'
    BY <1>1, Zenon DEF Outstanding
  <2>2. Slot(s) # Slot(r)
    BY <2>1, Counters, WithinRing, NAssumption DEF RingInv
  <2>3. Whole(s) => Whole(s)'
    BY <1>1, <2>2 DEF Whole
  <2> QED
    BY <1>1, <1>2, <2>1, <2>3 DEF Outstanding, Submitting
<1>6. Copied'
  BY <1>1, <1>2, <1>3 DEF Copied, Submitting
<1>7. Sent'
  BY <1>1, <1>2 DEF Sent
<1> QED
  BY <1>4, <1>5, <1>6, <1>7 DEF RingInv

LEMMA AdvanceKeepsRingInv ==
    ASSUME TypeInv, RingInv, Advance
    PROVE  RingInv'
<1> DEFINE r == shareSeqRead
<1>1. /\ UNCHANGED <<slotVars, step, claim, shareSeqWrite, got, delivered>>
      /\ shareSeqRead' = r + 1 /\ at = "advance" /\ at' = "send"
  BY DEF Advance, threadVars
<1>2. /\ Claims /\ Outstanding /\ Free /\ Copied /\ Sent
  BY DEF RingInv
<1>3. r \in Nat /\ shareSeqWrite \in Nat /\ r < shareSeqWrite
  BY <1>1, Counters DEF TypeInv, ReaderBehind
<1>4. Claims'
  <2>1. ASSUME NEW t \in Threads, Submitting(t)
        PROVE  shareSeqRead' <= claim[t]
    <3>1. claim[t] # r /\ r <= claim[t]
      BY <1>1, <1>2, <2>1 DEF Copied, Claims
    <3>2. claim[t] \in Nat
      BY DEF TypeInv, TypeOK
    <3> QED
      BY <1>1, <1>3, <3>1, <3>2
  <2> QED
    BY <1>1, <1>2, <2>1 DEF Claims, Submitting, slotVars
<1>5. Outstanding'
  <2>1. SUFFICES ASSUME NEW s \in Nat, r + 1 <= s, s < shareSeqWrite
                 PROVE  \/ \E t \in Threads : Submitting(t)' /\ claim[t] = s
                        \/ Whole(s)'
    BY <1>1, Zenon DEF Outstanding
  <2>2. Whole(s) => Whole(s)'
    BY <1>1 DEF Whole, slotVars
  <2>3. r <= s /\ s # r
    BY <1>3, <2>1
  <2> QED
    BY <1>1, <1>2, <2>1, <2>2, <2>3 DEF Outstanding, Submitting
<1>6. Free'
  <2>1. ASSUME NEW s \in Nat, shareSeqWrite <= s, s < (r + 1) + N
        PROVE  Slot(s) \notin ready
    <3>1. CASE s < r + N
      BY <1>2, <2>1, <3>1 DEF Free
    <3>2. CASE s = r + N
      <4>1. Slot(s) = Slot(r)
        BY <1>3, <3>2, SlotWraps
      <4> QED
        BY <1>1, <1>2, <4>1 DEF Copied
    <3> QED
      BY <1>3, <2>1, <3>1, <3>2, NAssumption
  <2> QED
    BY <1>1, <2>1 DEF Free, slotVars
<1>7. Copied'
  BY <1>1, <1>2, <1>3 DEF Copied
<1>8. Sent'
  BY <1>1, <1>2, <1>3 DEF Sent
<1>9. (shareSeqWrite <= shareSeqRead + N)'
  BY <1>1, <1>3, NAssumption DEF RingInv
<1> QED
  BY <1>4, <1>5, <1>6, <1>7, <1>8, <1>9 DEF RingInv

LEMMA SendKeepsRingInv ==
    ASSUME TypeInv, RingInv, Send
    PROVE  RingInv'
<1> DEFINE r == shareSeqRead
<1>1. /\ UNCHANGED <<slotVars, step, claim, shareSeqWrite, shareSeqRead, got>>
      /\ delivered' = Append(delivered, got) /\ at = "send" /\ at' = "loop"
  BY DEF Send, threadVars
<1>2. /\ Claims /\ Outstanding /\ Free /\ Copied /\ Sent
  BY DEF RingInv
<1>3. Claims' /\ Free' /\ (shareSeqWrite <= shareSeqRead + N)'
  BY <1>1, <1>2 DEF RingInv, Claims, Free, Submitting, slotVars
<1>4. Outstanding'
  BY <1>1, <1>2 DEF Outstanding, Whole, Submitting, slotVars
<1>5. Copied'
  BY <1>1 DEF Copied
<1>6. Sent'
  <2>1. delivered \in Seq(Int \X Int) /\ got \in Int \X Int
    BY DEF TypeInv, TypeOK
  <2>2. r \in Nat /\ Len(delivered) = r - 1 /\ got = <<r - 1, r - 1>>
    BY <1>1, <1>2, Counters DEF Sent, Copied
  <2>3. Len(delivered') = r /\ DOMAIN delivered' = 1 .. r
    BY <1>1, <2>1, <2>2
  <2>4. ASSUME NEW i \in 1 .. r
        PROVE  delivered'[i] = <<i - 1, i - 1>>
    <3>1. CASE i = r
      BY <1>1, <2>1, <2>2, <3>1
    <3>2. CASE i \in 1 .. r - 1
      BY <1>1, <1>2, <2>1, <2>2, <3>2 DEF Sent
    <3> QED
      BY <2>2, <3>1, <3>2
  <2> QED
    BY <1>1, <2>3, <2>4 DEF Sent
<1> QED
  BY <1>3, <1>4, <1>5, <1>6 DEF RingInv

-----------------------------------------------------------------------------
(* The theorems *)

LEMMA NextKeepsIInv == IInv /\ [Next]_vars => IInv'
<1> SUFFICES ASSUME IInv, [Next]_vars PROVE IInv'
  OBVIOUS
<1>1. TypeInv'
  BY NextKeepsTypeInv DEF IInv
<1>2. ~lapped' => ~lapped
  BY DEF Next, Claim, SubmitStep, WritePart1, WritePart2, Publish, ReaderStep, TryAlive, Look,
         SeeReady, CopyPart1, CopyPart2, Clear, Advance, Send, NetError, StartupKilled,
         WrapperDies, ParentGone, vars, threadVars
<1>3. ASSUME TypeInv, RingInv, ~lapped' PROVE RingInv'
  <2>1. ASSUME UNCHANGED <<slotVars, threadVars, readerVars>> PROVE RingInv'
    BY <1>3, <2>1 DEF RingInv, Claims, Outstanding, Free, Copied, Sent, Whole, Submitting,
                      slotVars, threadVars, readerVars
  <2>2. CASE UNCHANGED vars \/ NetError \/ StartupKilled
    BY <2>1, <2>2 DEF vars, NetError, StartupKilled
  <2>3. CASE \E w \in Wrappers : WrapperDies(w) \/ ParentGone(w)
    BY <2>1, <2>3 DEF WrapperDies, ParentGone
  <2>4. CASE \E t \in Threads : Claim(t) \/ SubmitStep(t)
    BY <1>3, <2>4, ClaimKeepsRingInv, WriteKeepsRingInv, PublishKeepsRingInv DEF SubmitStep
  <2>5. CASE ReaderStep
    BY <1>3, <2>5, QuietKeepsRingInv, ClearKeepsRingInv, AdvanceKeepsRingInv, SendKeepsRingInv
       DEF ReaderStep
  <2> QED
    BY <2>2, <2>3, <2>4, <2>5 DEF Next
<1> QED
  BY <1>1, <1>2, <1>3 DEF IInv

LEMMA Invariant == Spec => []IInv
<1>1. Init => IInv
  BY InitTypeInv, InitRingInv DEF IInv
<1> QED
  BY <1>1, NextKeepsIInv, PTL DEF Spec

\* Without a lap the control client receives every share whole and in order:
\* for any ring size, number of threads and number of shares.
THEOREM SharesDeliveredIntact == Spec => []DeliveredIntact
<1>1. IInv => DeliveredIntact
  BY DEF IInv, RingInv, Sent, DeliveredIntact
<1> QED
  BY <1>1, Invariant, PTL

\* Without a lap getShare waits only for a share that is being submitted.
THEOREM WaitsAreForClaims == Spec => []WaitIsForAClaim
<1>1. IInv => WaitIsForAClaim
  <2> SUFFICES ASSUME IInv, at = "wait", ~lapped, Slot(shareSeqRead) \notin ready
               PROVE  \E t \in Threads : Submitting(t) /\ claim[t] = shareSeqRead
    BY DEF WaitIsForAClaim
  <2>1. shareSeqRead \in Nat /\ shareSeqRead < shareSeqWrite
    BY Counters DEF IInv, TypeInv, ReaderBehind
  <2> QED
    BY <2>1 DEF IInv, RingInv, Outstanding, Whole
<1> QED
  BY <1>1, Invariant, PTL

=============================================================================

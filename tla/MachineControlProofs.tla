------------------------ MODULE MachineControlProofs ------------------------
(* Proofs about MachineControl, for any options, programs, measurements and *)
(* bounds, and for all faults.                                              *)
EXTENDS MachineControl, SequenceTheorems, TLAPS

-----------------------------------------------------------------------------
(* The latest message of a kind in a channel *)

NoneOf(s, K) == \A i \in DOMAIN s : s[i].type \notin K

LastAt(s, i, K) == s[i].type \in K /\ \A j \in DOMAIN s : j > i => s[j].type \notin K

\* The latest message of a kind in K, if there is one, is in T.
LatestIn(s, K, T) == \A i \in DOMAIN s : LastAt(s, i, K) => s[i] \in T

\* Messages added to a channel decide which one is the latest.
LEMMA LatestOfConcat ==
    ASSUME NEW M, NEW s \in Seq(M), NEW t \in Seq(M), NEW K, NEW T
    PROVE  /\ NoneOf(s \o t, K) <=> NoneOf(s, K) /\ NoneOf(t, K)
           /\ LatestIn(t, K, T) /\ (NoneOf(t, K) => LatestIn(s, K, T))
                => LatestIn(s \o t, K, T)
<1> DEFINE r == s \o t
           n == Len(s)
           k == Len(t)
<1>1. /\ n \in Nat /\ k \in Nat /\ DOMAIN s = 1..n /\ DOMAIN t = 1..k /\ DOMAIN r = 1..(n + k)
      /\ \A i \in 1..(n + k) : r[i] = IF i <= n THEN s[i] ELSE t[i - n]
  BY ConcatProperties, LenProperties
<1> HIDE DEF r, n, k
<1>2. /\ \A i \in 1..n : i \in DOMAIN r /\ r[i] = s[i]
      /\ \A i \in 1..k : i + n \in DOMAIN r /\ r[i + n] = t[i]
  <2>1. ASSUME NEW i \in 1..k
        PROVE  i + n \in 1..(n + k) /\ ~(i + n <= n) /\ (i + n) - n = i
    BY <1>1
  <2>2. ASSUME NEW i \in 1..n PROVE i \in 1..(n + k) /\ i <= n
    BY <1>1
  <2> QED BY <1>1, <2>1, <2>2
<1>3. \A i \in DOMAIN r : i \in 1..n \/ \E j \in 1..k : i = j + n
  <2> SUFFICES ASSUME NEW i \in 1..(n + k), i \notin 1..n PROVE \E j \in 1..k : i = j + n
    BY <1>1
  <2>1. i - n \in 1..k /\ i = (i - n) + n
    BY <1>1
  <2> QED BY <2>1
<1>4. NoneOf(r, K) <=> NoneOf(s, K) /\ NoneOf(t, K)
  <2>1. NoneOf(r, K) => NoneOf(s, K) /\ NoneOf(t, K)
    BY <1>1, <1>2 DEF NoneOf
  <2>2. ASSUME NoneOf(s, K), NoneOf(t, K), NEW i \in DOMAIN r PROVE r[i].type \notin K
    BY <1>1, <1>2, <1>3, <2>2 DEF NoneOf
  <2> QED BY <2>1, <2>2 DEF NoneOf
<1>5. ASSUME LatestIn(t, K, T), NoneOf(t, K) => LatestIn(s, K, T)
      PROVE  LatestIn(r, K, T)
  <2> SUFFICES ASSUME NEW i \in DOMAIN r, LastAt(r, i, K) PROVE r[i] \in T
    BY DEF LatestIn
  <2>1. CASE i \in 1..n
    <3>1. \A j \in 1..k : j + n > i
      BY <1>1, <2>1
    <3>2. NoneOf(t, K)
      BY <1>1, <1>2, <3>1 DEF NoneOf, LastAt
    <3>3. LastAt(s, i, K)
      BY <1>1, <1>2, <2>1 DEF LastAt
    <3> QED BY <1>1, <1>2, <1>5, <2>1, <3>2, <3>3 DEF LatestIn
  <2>2. CASE \E j \in 1..k : i = j + n
    <3>1. PICK j \in 1..k : i = j + n
      BY <2>2
    <3>2. \A l \in 1..k : l > j => l + n > i
      BY <1>1, <3>1
    <3>3. LastAt(t, j, K)
      BY <1>1, <1>2, <3>1, <3>2 DEF LastAt
    <3> QED BY <1>1, <1>2, <1>5, <3>1, <3>3 DEF LatestIn
  <2> QED BY <1>3, <2>1, <2>2
<1> QED BY <1>4, <1>5 DEF r

\* Receiving the first message leaves the latest one where it was, unless it
\* was that one.
LEMMA LatestOfTail ==
    ASSUME NEW M, NEW s \in Seq(M), s # <<>>, NEW K, NEW T
    PROVE  /\ LatestIn(s, K, T) => LatestIn(Tail(s), K, T)
           /\ NoneOf(s, K) <=> Head(s).type \notin K /\ NoneOf(Tail(s), K)
           /\ Head(s).type \in K /\ NoneOf(Tail(s), K) /\ LatestIn(s, K, T) => Head(s) \in T
<1> DEFINE t == Tail(s)
           n == Len(s)
<1>1. /\ n \in Nat \ {0} /\ DOMAIN s = 1..n /\ DOMAIN t = 1..(n - 1)
      /\ \A i \in 1..(n - 1) : t[i] = s[i + 1]
      /\ Head(s) = s[1]
  <2>1. t \in Seq(M) /\ Len(t) = n - 1 /\ \A i \in 1..Len(t) : t[i] = s[i + 1]
    BY HeadTailProperties
  <2>2. n \in Nat \ {0} /\ DOMAIN s = 1..n
    BY EmptySeq, LenProperties
  <2>3. DOMAIN t = 1..Len(t)
    BY <2>1, LenProperties
  <2> QED BY <2>1, <2>2, <2>3
<1> HIDE DEF t, n
<1>2. /\ 1 \in DOMAIN s
      /\ \A i \in DOMAIN t : i + 1 \in DOMAIN s /\ i + 1 > 1
      /\ \A i \in DOMAIN s : i = 1 \/ \E j \in DOMAIN t : i = j + 1
  <2>1. 1 \in 1..n /\ \A i \in 1..(n - 1) : i + 1 \in 1..n /\ i + 1 > 1
    BY <1>1
  <2>2. ASSUME NEW i \in 1..n, i # 1 PROVE \E j \in 1..(n - 1) : i = j + 1
    <3>1. i - 1 \in 1..(n - 1) /\ i = (i - 1) + 1
      BY <1>1, <2>2
    <3> QED BY <3>1
  <2> QED BY <1>1, <2>1, <2>2
<1>3. \A i \in DOMAIN t : LastAt(t, i, K) => LastAt(s, i + 1, K)
  <2> SUFFICES ASSUME NEW i \in DOMAIN t, LastAt(t, i, K),
                      NEW j \in DOMAIN s, j > i + 1
               PROVE  s[j].type \notin K
    BY <1>1 DEF LastAt
  <2>1. i \in Int /\ i >= 1
    BY <1>1
  <2>2. PICK l \in DOMAIN t : j = l + 1
    BY <1>1, <1>2, <2>1
  <2>3. l > i
    BY <1>1, <2>1, <2>2
  <2> QED BY <1>1, <2>2, <2>3 DEF LastAt
<1>4. LatestIn(s, K, T) => LatestIn(t, K, T)
  BY <1>1, <1>2, <1>3 DEF LatestIn
<1>5. NoneOf(s, K) <=> Head(s).type \notin K /\ NoneOf(t, K)
  BY <1>1, <1>2 DEF NoneOf
<1>6. Head(s).type \in K /\ NoneOf(t, K) => LastAt(s, 1, K)
  BY <1>1, <1>2 DEF NoneOf, LastAt
<1> QED BY <1>1, <1>2, <1>4, <1>5, <1>6 DEF LatestIn, t

-----------------------------------------------------------------------------
(* What the handlers of ControlWorker make of a worker *)

\* A selftest is in progress: it waits for a program, or measures one.
InTest(w) == w.wait \in {"case", "next"} \/ w.infos > 0

\* The fields of a worker fit together.  Whatever takes several steps has the
\* lock.  A test runs the test's options and keeps the user's, and there is a
\* program left to test.
WorkerInv(w) ==
    /\ w \in ControlWorker
    /\ w.kept \in Options
    /\ w.infos > 0 => w.wait = "none"
    /\ w.wait \notin {"none", "unlock"} => w.lock /\ w.greeted
    /\ w.infos > 0 => w.lock /\ w.greeted
    /\ w.state = "working" => w.greeted
    /\ IF InTest(w) THEN w.left >= 1 /\ w.opt = TestOption ELSE w.opt \in Options

\* Locked exactly while one thing is waited for.
Pending(w) == w.lock <=> w.wait # "none" \/ w.infos > 0

\* What one handler sends: the options first, then at most one command.
StartOuts(w) == {<<StartMessage(w)>>, <<OptionsMessage(w), StartMessage(w)>>}
StopOuts(w) == {<<StopMessage>>, <<OptionsMessage(w), StopMessage>>}
OptionsOuts(w) ==
    {<<OptionsMessage(w)>>, <<OptionsMessage(w), StartMessage(w)>>, <<OptionsMessage(w), StopMessage>>}
Outs(w) == {<<>>} \cup StartOuts(w) \cup StopOuts(w) \cup OptionsOuts(w)

\* The machine is told the settings, unless they are those of a test or did
\* not change.
Tells(v, r) ==
    \/ InTest(r.w)
    \/ r.out \in OptionsOuts(r.w)
    \/ Settings(r.w) = Settings(v) /\ ~InTest(v)

\* What a callback waits for was caused by the message sent with it.
Causes(v, r) ==
    /\ r.w.wait \in {"accept", "case"} =>
         \/ r.out \in StartOuts(r.w)
         \/ r.out = <<>> /\ r.w.wait = v.wait
    /\ r.w.wait \in {"restart", "selftest", "next"} =>
         \/ r.out \in StopOuts(r.w) /\ (r.w.state = "working" \/ v.infos > 0)
         \/ r.out = <<>> /\ r.w.wait = v.wait
    /\ r.w.wait = "unlock" =>
         \/ r.out \in StartOuts(r.w) \cup StopOuts(r.w)
         \/ r.out = <<>> /\ r.w.wait = v.wait
    /\ r.w.infos > 0 => r.out = <<>> /\ (v.infos > 0 \/ v.wait = "case")

\* Nothing is still waited for that was before.
Consumes(r) ==
    /\ r.w.wait \in {"accept", "case"} => r.out \in StartOuts(r.w)
    /\ r.w.wait = "unlock" => r.out \in StartOuts(r.w) \cup StopOuts(r.w)
    /\ r.w.wait \notin {"restart", "selftest", "next"}

\* The outcome of a handler, and of one for a worker v that is locked
\* exactly while it waits.
Handled(r) ==
    /\ r = Result(r.w, r.out)
    /\ WorkerInv(r.w) /\ r.out \in Outs(r.w)
    /\ r.out \in OptionsOuts(r.w) => ~InTest(r.w)

Outcome(v, r) == Handled(r) /\ (Pending(v) => Pending(r.w) /\ Causes(v, r))

LEMMA ResultFields ==
    ASSUME NEW w, NEW out
    PROVE  Result(w, out).w = w /\ Result(w, out).out = out
BY DEF Result

LEMMA ResultIs ==
    ASSUME NEW w, NEW out, NEW r, r = Result(w, out)
    PROVE  r.w = w /\ r.out = out /\ r = Result(r.w, r.out)
BY ResultFields

\* The callback given to controlTest unlocks, or starts the machine.
AfterTestOutcome(w, out, r) ==
    /\ r = Result(r.w, r.out)
    /\ r.w \in ControlWorker
    /\ Settings(r.w) = Settings(w) /\ r.w.opt = w.opt
    /\ r.w.kept = DefaultOption
    /\ r.w.greeted = w.greeted /\ r.w.infos = w.infos /\ r.w.left = w.left
    /\ r.w.state = w.state
    /\ \/ r.out = out /\ r.w.lock = FALSE /\ r.w.wait = w.wait
       \/ /\ r.out = Append(out, StartMessage(r.w)) /\ r.w.lock = w.lock
          /\ r.w.wait \in {"unlock", "accept"} /\ w.after # "unlock"

LEMMA AfterTestFacts ==
    ASSUME NEW w \in ControlWorker, NEW out, NEW r, r = AfterTest(Result(w, out))
    PROVE  AfterTestOutcome(w, out, r)
<1> DEFINE q == [w EXCEPT !.after = "unlock", !.best = FALSE, !.kept = DefaultOption]
<1>1. /\ q \in ControlWorker
      /\ Settings(q) = Settings(w) /\ q.opt = w.opt /\ q.kept = DefaultOption
      /\ q.greeted = w.greeted /\ q.infos = w.infos /\ q.left = w.left
      /\ q.state = w.state /\ q.lock = w.lock /\ q.wait = w.wait
  BY OptionsAssumption DEF ControlWorker, AllOptions, Settings
<1>2. AfterTest(Result(w, out)) =
        CASE w.after = "unlock" -> Unlock(Result(q, out))
          [] w.after = "start"  -> ControlStart(Result(q, out), "unlock")
          [] w.after = "accept" -> ControlStart(Result(q, out), "accept")
  BY ResultFields DEF AfterTest
<1> HIDE DEF q
<1>3. CASE w.after = "unlock"
  <2> DEFINE p == [q EXCEPT !.lock = FALSE]
  <2>1. /\ p \in ControlWorker
        /\ Settings(p) = Settings(w) /\ p.opt = w.opt /\ p.kept = DefaultOption
        /\ p.greeted = w.greeted /\ p.infos = w.infos /\ p.left = w.left
        /\ p.state = w.state /\ p.lock = FALSE /\ p.wait = w.wait
    BY <1>1 DEF ControlWorker, Settings
  <2>2. r = Result(p, out)
    BY <1>2, <1>3, ResultFields DEF Unlock
  <2> HIDE DEF p
  <2>3. r.w = p /\ r.out = out /\ r = Result(r.w, r.out)
    BY <2>2, ResultIs
  <2> QED BY <2>1, <2>3 DEF AfterTestOutcome
<1>4. CASE w.after \in {"start", "accept"}
  <2>1. PICK wait \in {"unlock", "accept"} : r = ControlStart(Result(q, out), wait)
    BY <1>2, <1>4
  <2> DEFINE p == [q EXCEPT !.wait = wait]
  <2>2. /\ p \in ControlWorker
        /\ Settings(p) = Settings(w) /\ p.opt = w.opt /\ p.kept = DefaultOption
        /\ p.greeted = w.greeted /\ p.infos = w.infos /\ p.left = w.left
        /\ p.state = w.state /\ p.lock = w.lock /\ p.wait = wait
    BY <1>1 DEF ControlWorker, Settings
  <2>3. StartMessage(p) = StartMessage(q)
    BY <1>1 DEF StartMessage, ControlWorker
  <2> DEFINE o == Append(out, StartMessage(p))
  <2>4. r = Result(p, o)
    BY <2>1, <2>3, ResultFields DEF ControlStart
  <2> HIDE DEF p, o
  <2>5. r.w = p /\ r.out = o /\ r = Result(r.w, r.out)
    BY <2>4, ResultIs
  <2> QED BY <1>4, <2>2, <2>5 DEF o, AfterTestOutcome
<1> QED BY <1>3, <1>4 DEF ControlWorker

\* What the list of messages is after one or two were sent.
LEMMA OutFacts ==
    ASSUME NEW a \in ToClient, NEW b \in ToClient
    PROVE  Append(<<>>, a) = <<a>> /\ Append(<<a>>, b) = <<a, b>>
<1>1. <<>> \in Seq(ToClient) /\ <<a>> \in Seq(ToClient)
  OBVIOUS
<1>2. Append(<<>>, a) = <<a>>
  BY <1>1, AppendProperties, SeqEqual
<1>3. Append(<<a>>, b) = <<a, b>>
  <2> DEFINE s == Append(<<a>>, b)
             t == <<a, b>>
  <2>1. s \in Seq(ToClient) /\ Len(s) = 2 /\ s[1] = a /\ s[2] = b
    BY <1>1, AppendProperties
  <2>2. t \in Seq(ToClient) /\ Len(t) = 2 /\ t[1] = a /\ t[2] = b
    OBVIOUS
  <2> HIDE DEF s, t
  <2>3. Len(s) = Len(t) /\ \A i \in 1..Len(s) : s[i] = t[i]
    BY <2>1, <2>2
  <2>4. s = t
    BY <2>1, <2>2, <2>3, SeqEqual
  <2> QED BY <2>4 DEF s, t
<1> QED BY <1>2, <1>3

LEMMA MessageTypes ==
    ASSUME NEW w \in ControlWorker
    PROVE  /\ StartMessage(w) \in ToClient /\ OptionsMessage(w) \in ToClient
           /\ StopMessage \in ToClient
           /\ StartMessage(w).type = "start" /\ StartMessage(w) \in [type : {"start"}, start : StartInfo]
           /\ OptionsMessage(w).type = "options" /\ OptionsMessage(w).saved = Settings(w)
           /\ StopMessage.type = "stop"
           /\ Settings(w) \in Saved /\ Settings(w).opt = w.opt
BY DEF ControlWorker, StartMessage, OptionsMessage, StopMessage, Settings, ToClient, Saved,
       StartInfo

\* The handlers, on a worker and the messages sent so far.
LEMMA SendEquations ==
    ASSUME NEW w, NEW out
    PROVE  /\ Unlock(Result(w, out)) = Result([w EXCEPT !.lock = FALSE], out)
           /\ \A wait : ControlStart(Result(w, out), wait) =
                          Result([w EXCEPT !.wait = wait], Append(out, StartMessage(w)))
           /\ \A wait : ControlStop(Result(w, out), wait) =
                          Result([w EXCEPT !.wait = wait], Append(out, StopMessage))
           /\ ControlOptions(Result(w, out)) = Result(w, Append(out, OptionsMessage(w)))
BY ResultFields DEF Unlock, ControlStart, ControlStop, ControlOptions

LEMMA TestEquations ==
    ASSUME NEW w, NEW out
    PROVE  /\ TestProgram(Result(w, out)) =
                ControlStart(Result([w EXCEPT !.opt = TestOption, !.path = TRUE], out), "case")
           /\ EndOfTest(Result(w, out), w.kept) =
                AfterTest(ControlOptions(
                    Result([w EXCEPT !.opt = w.kept, !.path = w.best], out)))
           /\ ControlStartLongTest(Result(w, out)) =
                IF w.left > 0 THEN TestProgram(Result(w, out))
                ELSE EndOfTest(Result(w, out), w.kept)
           /\ NextCase(Result(w, out)) =
                ControlStartLongTest(Result([w EXCEPT !.left = w.left - 1], out))
           /\ \A after : ControlTest(Result(w, out), after) =
                IF ~w.greeted
                THEN AfterTest(Result([w EXCEPT !.after = after], out))
                ELSE ControlStartLongTest(Result([w EXCEPT !.after = after, !.left = Programs,
                                                           !.best = FALSE, !.kept = w.opt], out))
<1>1. TestProgram(Result(w, out)) =
        ControlStart(Result([w EXCEPT !.opt = TestOption, !.path = TRUE], out), "case")
  BY ResultFields, Zenon DEF TestProgram
<1>2. EndOfTest(Result(w, out), w.kept) =
        AfterTest(ControlOptions(Result([w EXCEPT !.opt = w.kept, !.path = w.best], out)))
  BY ResultFields, Zenon DEF EndOfTest
<1>3. ControlStartLongTest(Result(w, out)) =
        IF w.left > 0 THEN TestProgram(Result(w, out)) ELSE EndOfTest(Result(w, out), w.kept)
  BY ResultFields, Zenon DEF ControlStartLongTest
<1>4. NextCase(Result(w, out)) = ControlStartLongTest(Result([w EXCEPT !.left = w.left - 1], out))
  BY ResultFields, Zenon DEF NextCase
<1>5. ASSUME NEW after
      PROVE  ControlTest(Result(w, out), after) =
               IF ~w.greeted
               THEN AfterTest(Result([w EXCEPT !.after = after], out))
               ELSE ControlStartLongTest(Result([w EXCEPT !.after = after, !.left = Programs,
                                                          !.best = FALSE, !.kept = w.opt], out))
  <2> DEFINE s == Result(w, out)
  <2>1. s.w = w /\ s.out = out
    BY ResultFields
  <2>2. ControlTest(s, after) =
          IF ~s.w.greeted
          THEN AfterTest(Result([s.w EXCEPT !.after = after], s.out))
          ELSE ControlStartLongTest(Result([s.w EXCEPT !.after = after, !.left = Programs,
                                                       !.best = FALSE, !.kept = s.w.opt], s.out))
    BY Zenon DEF ControlTest
  <2> HIDE DEF s
  <2>3. CASE w.greeted
    BY <2>1, <2>2, <2>3, Zenon DEF s
  <2>4. CASE ~w.greeted
    BY <2>1, <2>2, <2>4, Zenon DEF s
  <2> QED BY <2>3, <2>4, Zenon
<1> QED BY <1>1, <1>2, <1>3, <1>4, <1>5

\* The test starts a program, or ends with the user's options.
LEMMA LongTestFacts ==
    ASSUME NEW w \in ControlWorker, w.kept \in Options, w.infos = 0, w.lock = TRUE,
           w.greeted = TRUE, w.wait \in {"none", "unlock"},
           NEW r, r = ControlStartLongTest(Result(w, <<>>))
    PROVE  /\ r = Result(r.w, r.out)
           /\ WorkerInv(r.w)
           /\ r.w.state = w.state /\ r.w.infos = 0 /\ r.w.greeted = TRUE
           /\ \/ r.w.wait = "case" /\ r.w.lock = TRUE /\ r.out = <<StartMessage(r.w)>>
              \/ r.w.wait = w.wait /\ r.w.lock = FALSE /\ r.out = <<OptionsMessage(r.w)>>
              \/ /\ r.w.wait \in {"unlock", "accept"} /\ r.w.lock = TRUE
                 /\ r.out = <<OptionsMessage(r.w), StartMessage(r.w)>>
<1>1. CASE w.left > 0
  <2> DEFINE q == [w EXCEPT !.opt = TestOption, !.path = TRUE]
             p == [q EXCEPT !.wait = "case"]
             o == <<StartMessage(p)>>
  <2>1. /\ q \in ControlWorker /\ q.kept = w.kept /\ q.infos = 0
        /\ q.lock = TRUE /\ q.greeted = TRUE /\ q.left = w.left
        /\ q.opt = TestOption /\ q.state = w.state
    BY DEF ControlWorker, AllOptions
  <2>2. r = ControlStart(Result(q, <<>>), "case")
    BY <1>1, TestEquations
  <2> HIDE DEF q
  <2>3. /\ p \in ControlWorker /\ p.kept = w.kept /\ p.infos = 0
        /\ p.wait = "case" /\ p.lock = TRUE /\ p.greeted = TRUE /\ p.left = w.left
        /\ p.opt = TestOption /\ p.state = w.state /\ p.left \in Nat
    BY <2>1, ProgramsAssumption DEF ControlWorker
  <2>4. StartMessage(p) = StartMessage(q)
    BY <2>1 DEF StartMessage, ControlWorker
  <2>5. Append(<<>>, StartMessage(q)) = o
    BY <2>3, <2>4, MessageTypes, OutFacts
  <2>9. ControlStart(Result(q, <<>>), "case") = Result(p, Append(<<>>, StartMessage(q)))
    BY SendEquations, Zenon
  <2> HIDE DEF o, p
  <2>6. r = Result(p, o)
    BY <2>2, <2>5, <2>9
  <2>7. WorkerInv(p)
    BY <1>1, <2>3 DEF WorkerInv, InTest
  <2>8. r.w = p /\ r.out = o /\ r = Result(r.w, r.out)
    BY <2>6, ResultIs
  <2> QED BY <2>3, <2>7, <2>8 DEF o
<1>2. CASE ~(w.left > 0)
  <2> DEFINE q == [w EXCEPT !.opt = w.kept, !.path = w.best]
             o == <<OptionsMessage(q)>>
  <2>1. /\ q \in ControlWorker /\ q.opt = w.kept
        /\ q.infos = 0 /\ q.wait = w.wait /\ q.lock = TRUE /\ q.greeted = TRUE /\ q.state = w.state
    BY DEF ControlWorker
  <2>2. r = AfterTest(ControlOptions(Result(q, <<>>)))
    BY <1>2, TestEquations
  <2> HIDE DEF q
  <2>0. Append(<<>>, OptionsMessage(q)) = o
    BY <2>1, MessageTypes, OutFacts
  <2>9. ControlOptions(Result(q, <<>>)) = Result(q, Append(<<>>, OptionsMessage(q)))
    BY SendEquations, Zenon
  <2> HIDE DEF o
  <2>3. r = AfterTest(Result(q, o))
    BY <2>0, <2>2, <2>9
  <2>4. AfterTestOutcome(q, o, r)
    BY <2>1, <2>3, AfterTestFacts
  <2>5. o = <<OptionsMessage(r.w)>>
    BY <2>4 DEF o, OptionsMessage, AfterTestOutcome
  <2>6. Append(o, StartMessage(r.w)) = <<OptionsMessage(r.w), StartMessage(r.w)>>
    BY <2>4, <2>5, MessageTypes, OutFacts DEF AfterTestOutcome
  <2>7. WorkerInv(r.w)
    BY <2>1, <2>4, OptionsAssumption DEF WorkerInv, InTest, AfterTestOutcome
  <2> QED BY <2>1, <2>4, <2>5, <2>6, <2>7 DEF AfterTestOutcome
<1> QED BY <1>1, <1>2

\* The next program of the test.
LEMMA NextCaseFacts ==
    ASSUME NEW w \in ControlWorker, w.kept \in Options, w.infos = 0, w.lock = TRUE,
           w.greeted = TRUE, w.wait = "none", w.left >= 1,
           NEW r, r = NextCase(Result(w, <<>>))
    PROVE  /\ r = Result(r.w, r.out)
           /\ WorkerInv(r.w)
           /\ r.w.state = w.state /\ r.w.infos = 0 /\ r.w.greeted = TRUE
           /\ \/ r.w.wait = "case" /\ r.w.lock = TRUE /\ r.out = <<StartMessage(r.w)>>
              \/ r.w.wait = "none" /\ r.w.lock = FALSE /\ r.out = <<OptionsMessage(r.w)>>
              \/ /\ r.w.wait \in {"unlock", "accept"} /\ r.w.lock = TRUE
                 /\ r.out = <<OptionsMessage(r.w), StartMessage(r.w)>>
<1> DEFINE q == [w EXCEPT !.left = w.left - 1]
<1>1. w.left - 1 \in 0..Programs
  BY ProgramsAssumption DEF ControlWorker
<1>2. /\ q \in ControlWorker /\ q.kept = w.kept /\ q.infos = 0 /\ q.lock = TRUE
      /\ q.greeted = TRUE /\ q.wait = "none" /\ q.state = w.state
  BY <1>1 DEF ControlWorker
<1>3. r = ControlStartLongTest(Result(q, <<>>))
  BY TestEquations
<1> HIDE DEF q
<1> QED BY <1>2, <1>3, LongTestFacts

\* A test without lists of programs is over at once.
ControlTestOutcome(w, r) ==
    /\ r = Result(r.w, r.out)
    /\ WorkerInv(r.w)
    /\ r.w.state = w.state /\ r.w.infos = 0 /\ r.w.greeted = w.greeted
    /\ \/ r.w.wait = "case" /\ r.w.lock = TRUE /\ r.out = <<StartMessage(r.w)>>
       \/ r.w.wait = w.wait /\ r.w.lock = FALSE /\ r.out = <<OptionsMessage(r.w)>>
       \/ /\ r.w.wait \in {"unlock", "accept"} /\ r.w.lock = TRUE
          /\ r.out = <<OptionsMessage(r.w), StartMessage(r.w)>>
       \/ r.w.wait = w.wait /\ r.w.lock = FALSE /\ r.out = <<>> /\ ~w.greeted

LEMMA ControlTestFacts ==
    ASSUME NEW w \in ControlWorker, w.kept \in Options, w.infos = 0, w.lock = TRUE,
           w.opt \in Options, w.wait \in {"none", "unlock"}, w.state = "working" => w.greeted,
           NEW after \in {"unlock", "start", "accept"}, w.greeted \/ after = "unlock",
           NEW r, r = ControlTest(Result(w, <<>>), after)
    PROVE  ControlTestOutcome(w, r)
<1>1. CASE ~w.greeted
  <2> DEFINE q == [w EXCEPT !.after = after]
  <2>1. /\ q \in ControlWorker /\ q.opt = w.opt /\ q.infos = 0 /\ q.wait = w.wait
        /\ q.lock = TRUE /\ q.greeted = w.greeted /\ q.state = w.state /\ q.after = "unlock"
    BY <1>1 DEF ControlWorker
  <2> DEFINE o == <<>>
  <2>2. r = AfterTest(Result(q, o))
    BY <1>1, TestEquations
  <2> HIDE DEF q, o
  <2>3. AfterTestOutcome(q, o, r)
    BY <2>1, <2>2, AfterTestFacts
  <2>5. WorkerInv(r.w)
    BY <1>1, <2>1, <2>3, OptionsAssumption DEF WorkerInv, InTest, AfterTestOutcome
  <2> QED BY <1>1, <2>1, <2>3, <2>5 DEF o, AfterTestOutcome, ControlTestOutcome
<1>2. CASE w.greeted
  <2> DEFINE q == [w EXCEPT !.after = after, !.left = Programs, !.best = FALSE, !.kept = w.opt]
  <2>1. /\ q \in ControlWorker /\ q.kept = w.opt /\ q.infos = 0 /\ q.lock = TRUE
        /\ q.greeted = TRUE /\ q.wait = w.wait /\ q.state = w.state /\ w.greeted = TRUE
    <3>1. Programs \in 0..Programs
      BY ProgramsAssumption
    <3>2. w.greeted = TRUE
      BY <1>2 DEF ControlWorker
    <3> QED BY <3>1, <3>2 DEF ControlWorker
  <2>2. r = ControlStartLongTest(Result(q, <<>>))
    BY <1>2, TestEquations
  <2> HIDE DEF q
  <2> QED BY <2>1, <2>2, LongTestFacts DEF ControlTestOutcome
<1> QED BY <1>1, <1>2

LEMMA OutsFacts ==
    ASSUME NEW w
    PROVE  /\ <<>> \in Outs(w)
           /\ <<StartMessage(w)>> \in Outs(w) /\ <<StartMessage(w)>> \in StartOuts(w)
           /\ <<StopMessage>> \in Outs(w) /\ <<StopMessage>> \in StopOuts(w)
           /\ <<OptionsMessage(w)>> \in Outs(w) /\ <<OptionsMessage(w)>> \in OptionsOuts(w)
           /\ <<OptionsMessage(w), StartMessage(w)>> \in Outs(w)
           /\ <<OptionsMessage(w), StartMessage(w)>> \in StartOuts(w)
           /\ <<OptionsMessage(w), StartMessage(w)>> \in OptionsOuts(w)
           /\ <<OptionsMessage(w), StopMessage>> \in Outs(w)
           /\ <<OptionsMessage(w), StopMessage>> \in StopOuts(w)
           /\ <<OptionsMessage(w), StopMessage>> \in OptionsOuts(w)
BY DEF Outs, StartOuts, StopOuts, OptionsOuts

\* Only a list that begins with the options has them in it.
LEMMA OutsDiffer ==
    ASSUME NEW w \in ControlWorker
    PROVE  /\ <<>> \notin OptionsOuts(w) /\ <<StartMessage(w)>> \notin OptionsOuts(w)
           /\ <<StopMessage>> \notin OptionsOuts(w)
<1>1. OptionsMessage(w) # StartMessage(w) /\ OptionsMessage(w) # StopMessage
  BY MessageTypes
<1>2. \A s \in OptionsOuts(w) : s[1] = OptionsMessage(w) /\ s # <<>>
  BY DEF OptionsOuts
<1>3. <<StartMessage(w)>>[1] = StartMessage(w) /\ <<StopMessage>>[1] = StopMessage
  OBVIOUS
<1> QED BY <1>1, <1>2, <1>3

\* The callback that is called depends on what was waited for.
NextEmitCase(v, q, out, isStart, r) ==
    /\ v.wait = "none" => r = Result(v, out)
    /\ v.wait = "unlock" => r = Unlock(Result(q, out))
    /\ v.wait = "accept" =>
         r = Unlock(ControlOptions(Result([q EXCEPT !.target = "working"], out)))
    /\ v.wait = "restart" => r = ControlStart(Result(q, out), "unlock")
    /\ v.wait = "selftest" => r = ControlTest(Result(q, out), "start")
    /\ v.wait = "case" /\ isStart => r = Result([q EXCEPT !.infos = MaxCount], out)
    /\ v.wait = "case" /\ ~isStart => r = NextCase(Result(q, out))
    /\ v.wait = "next" => r = NextCase(Result(q, out))

LEMMA NextEmitCases ==
    ASSUME NEW v \in ControlWorker, NEW out, NEW isStart \in BOOLEAN,
           NEW r, r = NextEmit(Result(v, out), isStart),
           NEW q, q = [v EXCEPT !.wait = "none"]
    PROVE  NextEmitCase(v, q, out, isStart, r)
<1> DEFINE s == Result(v, out)
           p == Result([s.w EXCEPT !.wait = "none"], s.out)
           accept == Unlock(ControlOptions(Result([p.w EXCEPT !.target = "working"], s.out)))
           measure == Result([p.w EXCEPT !.infos = MaxCount], s.out)
<1>1. r = CASE s.w.wait = "none"     -> s
            [] s.w.wait = "unlock"   -> Unlock(p)
            [] s.w.wait = "accept"   -> accept
            [] s.w.wait = "restart"  -> ControlStart(p, "unlock")
            [] s.w.wait = "selftest" -> ControlTest(p, "start")
            [] s.w.wait = "case"     -> IF isStart THEN measure ELSE NextCase(p)
            [] s.w.wait = "next"     -> NextCase(p)
  BY Zenon DEF NextEmit
<1>2. s.w = v /\ s.out = out
  BY ResultFields
<1> HIDE DEF s
<1>3. p = Result(q, out)
  BY <1>2, Zenon
<1> HIDE DEF p
<1>4. p.w = q
  BY <1>3, ResultFields
<1>5. accept = Unlock(ControlOptions(Result([q EXCEPT !.target = "working"], out)))
  BY <1>2, <1>4, Zenon
<1>6. measure = Result([q EXCEPT !.infos = MaxCount], out)
  BY <1>2, <1>4, Zenon
<1> DEFINE a == Unlock(ControlOptions(Result([q EXCEPT !.target = "working"], out)))
           b == Result([q EXCEPT !.infos = MaxCount], out)
<1>7. accept = a /\ measure = b
  BY <1>5, <1>6, Zenon
<1>8. s = Result(v, out)
  BY DEF s
<1> HIDE DEF accept, measure, a, b
<1>9. /\ v.wait = "none" => r = s
      /\ v.wait = "unlock" => r = Unlock(p)
      /\ v.wait = "accept" => r = accept
      /\ v.wait = "restart" => r = ControlStart(p, "unlock")
      /\ v.wait = "selftest" => r = ControlTest(p, "start")
      /\ v.wait = "case" /\ isStart => r = measure
      /\ v.wait = "case" /\ ~isStart => r = NextCase(p)
      /\ v.wait = "next" => r = NextCase(p)
  BY <1>1, <1>2
<1>10. /\ v.wait = "none" => r = s
       /\ v.wait = "unlock" => r = Unlock(Result(q, out))
       /\ v.wait = "accept" => r = a
       /\ v.wait = "restart" => r = ControlStart(Result(q, out), "unlock")
       /\ v.wait = "selftest" => r = ControlTest(Result(q, out), "start")
       /\ v.wait = "case" /\ isStart => r = b
       /\ v.wait = "case" /\ ~isStart => r = NextCase(Result(q, out))
       /\ v.wait = "next" => r = NextCase(Result(q, out))
  BY <1>3, <1>7, <1>9
<1> QED BY <1>8, <1>10, Zenon DEF a, b, NextEmitCase

\* A step of the test is an outcome of any handler that ends with it.
LEMMA TestOutcome ==
    ASSUME NEW v, NEW r, r = Result(r.w, r.out), WorkerInv(r.w), r.w.infos = 0,
           \/ r.w.wait = "case" /\ r.w.lock = TRUE /\ r.out = <<StartMessage(r.w)>>
           \/ r.w.wait = "none" /\ r.w.lock = FALSE /\ r.out = <<OptionsMessage(r.w)>>
           \/ /\ r.w.wait \in {"unlock", "accept"} /\ r.w.lock = TRUE
              /\ r.out = <<OptionsMessage(r.w), StartMessage(r.w)>>
    PROVE  /\ Handled(r) /\ Pending(r.w) /\ Causes(v, r) /\ Consumes(r)
           /\ InTest(r.w) \/ r.out \in OptionsOuts(r.w)
<1> DEFINE w == r.w
           o == r.out
           s == <<StartMessage(w)>>
           t == <<OptionsMessage(w)>>
           u == <<OptionsMessage(w), StartMessage(w)>>
<1>1. w \in ControlWorker
  BY DEF WorkerInv
<1>2. /\ s \in Outs(w) /\ s \in StartOuts(w) /\ s \notin OptionsOuts(w)
      /\ t \in Outs(w) /\ t \in OptionsOuts(w)
      /\ u \in Outs(w) /\ u \in StartOuts(w) /\ u \in OptionsOuts(w)
  BY <1>1, OutsFacts, OutsDiffer
<1>3. \/ w.wait = "case" /\ w.lock = TRUE /\ o = s
      \/ w.wait = "none" /\ w.lock = FALSE /\ o = t
      \/ w.wait \in {"unlock", "accept"} /\ w.lock = TRUE /\ o = u
  OBVIOUS
<1> HIDE DEF s, t, u
<1> QED BY <1>2, <1>3 DEF Handled, Causes, Consumes, InTest, Pending

\* What waited is called once, and may send and wait for something new.
LEMMA NextEmitFacts ==
    ASSUME NEW v, WorkerInv(v), NEW isStart \in BOOLEAN, NEW r, r = NextEmit(Result(v, <<>>), isStart)
    PROVE  /\ Outcome(v, r) /\ Consumes(r)
           /\ r.w.state = v.state /\ r.w.greeted = v.greeted
           /\ v.greeted => Tells(v, r)
<1> DEFINE q == [v EXCEPT !.wait = "none"]
<1>1. v \in ControlWorker
  BY DEF WorkerInv
<1>0. q = [v EXCEPT !.wait = "none"]
  OBVIOUS
<1>3. /\ q \in ControlWorker /\ q.kept = v.kept /\ q.infos = v.infos /\ q.lock = v.lock
      /\ q.greeted = v.greeted /\ q.state = v.state /\ q.opt = v.opt /\ q.left = v.left
      /\ q.wait = "none" /\ Settings(q) = Settings(v)
  BY <1>1 DEF ControlWorker, Settings
<1>2. NextEmitCase(v, q, <<>>, isStart, r)
  BY <1>0, <1>1, NextEmitCases
<1> HIDE DEF q
<1>4. CASE v.wait = "none"
  <2>1. r.w = v /\ r.out = <<>> /\ r = Result(r.w, r.out)
    <3>1. r = Result(v, <<>>)
      BY <1>2, <1>4, Zenon DEF NextEmitCase
    <3> QED BY <3>1, ResultIs
  <2> QED BY <1>4, <2>1, OutsFacts, OutsDiffer, <1>1 DEF Outcome, Handled, Consumes, Causes, Tells
<1>5. CASE v.wait = "unlock"
  <2> DEFINE p == [q EXCEPT !.lock = FALSE]
  <2>0. r = Unlock(Result(q, <<>>))
    BY <1>2, <1>5, Zenon DEF NextEmitCase
  <2>1. r = Result(p, <<>>)
    BY <2>0, SendEquations, Zenon
  <2>2. /\ p \in ControlWorker /\ p.kept = v.kept /\ p.infos = v.infos /\ p.lock = FALSE
        /\ p.greeted = v.greeted /\ p.state = v.state /\ p.opt = v.opt
        /\ p.wait = "none" /\ Settings(p) = Settings(v)
    BY <1>3 DEF ControlWorker, Settings
  <2> HIDE DEF p
  <2>3. r.w = p /\ r.out = <<>> /\ r = Result(r.w, r.out)
    BY <2>1, ResultIs
  <2>4. WorkerInv(p) /\ ~InTest(v) /\ Pending(p) /\ p.infos = 0
    BY <1>5, <2>2, <1>1 DEF WorkerInv, InTest, Pending, ControlWorker
  <2> QED BY <2>2, <2>3, <2>4, OutsFacts, OutsDiffer DEF Outcome, Handled, Consumes, Causes, Tells
<1>6. CASE v.wait = "accept"
  <2> DEFINE t == [q EXCEPT !.target = "working"]
             p == [t EXCEPT !.lock = FALSE]
             o == <<OptionsMessage(p)>>
  <2>1. /\ t \in ControlWorker /\ t.kept = v.kept /\ t.infos = v.infos
        /\ t.greeted = v.greeted /\ t.state = v.state /\ t.opt = v.opt /\ t.wait = "none"
    BY <1>3 DEF ControlWorker, Targets
  <2>2. r = Unlock(ControlOptions(Result(t, <<>>)))
    BY <1>2, <1>6, Zenon DEF NextEmitCase
  <2> HIDE DEF t
  <2>3. /\ p \in ControlWorker /\ p.kept = v.kept /\ p.infos = v.infos /\ p.lock = FALSE
        /\ p.greeted = v.greeted /\ p.state = v.state /\ p.opt = v.opt
        /\ p.wait = "none" /\ Settings(p) = Settings(t)
    BY <2>1 DEF ControlWorker, Settings
  <2>4. Append(<<>>, OptionsMessage(t)) = o
    BY <2>1, <2>3, MessageTypes, OutFacts DEF OptionsMessage
  <2>5. r = Result(p, Append(<<>>, OptionsMessage(t)))
    BY <2>2, SendEquations, Zenon
  <2> HIDE DEF p, o
  <2>6. r.w = p /\ r.out = o /\ r = Result(r.w, r.out)
    BY <2>4, <2>5, ResultIs
  <2>7. WorkerInv(p) /\ ~InTest(p) /\ Pending(p) /\ p.infos = 0
    BY <1>6, <2>3, <1>1 DEF WorkerInv, InTest, Pending, ControlWorker
  <2>8. o \in Outs(p) /\ o \in OptionsOuts(p)
    BY OutsFacts DEF o
  <2> QED BY <2>3, <2>6, <2>7, <2>8 DEF Outcome, Handled, Consumes, Causes, Tells
<1>7. CASE v.wait = "restart"
  <2> DEFINE p == [q EXCEPT !.wait = "unlock"]
             o == <<StartMessage(p)>>
  <2>1. /\ p \in ControlWorker /\ p.kept = v.kept /\ p.infos = v.infos /\ p.lock = v.lock
        /\ p.greeted = v.greeted /\ p.state = v.state /\ p.opt = v.opt
        /\ p.wait = "unlock" /\ Settings(p) = Settings(v) /\ StartMessage(p) = StartMessage(q)
    BY <1>3 DEF ControlWorker, Settings, StartMessage
  <2>2. Append(<<>>, StartMessage(q)) = o
    BY <1>3, <2>1, MessageTypes, OutFacts
  <2>0. r = ControlStart(Result(q, <<>>), "unlock")
    BY <1>2, <1>7, Zenon DEF NextEmitCase
  <2>3. r = Result(p, Append(<<>>, StartMessage(q)))
    BY <2>0, SendEquations, Zenon
  <2> HIDE DEF p, o
  <2>4. r.w = p /\ r.out = o /\ r = Result(r.w, r.out)
    BY <2>2, <2>3, ResultIs
  <2>5. WorkerInv(p) /\ ~InTest(v) /\ p.infos = 0 /\ (Pending(v) => Pending(p))
    BY <1>7, <2>1, <1>1 DEF WorkerInv, InTest, Pending, ControlWorker
  <2>6. o \in Outs(p) /\ o \in StartOuts(p) /\ o \notin OptionsOuts(p)
    BY <2>1, OutsFacts, OutsDiffer DEF o
  <2> QED BY <2>1, <2>4, <2>5, <2>6 DEF Outcome, Handled, Consumes, Causes, Tells
<1>8. CASE v.wait = "selftest"
  <2>1. r = ControlTest(Result(q, <<>>), "start")
    BY <1>2, <1>8, Zenon DEF NextEmitCase
  <2>2. /\ q.kept \in Options /\ q.infos = 0 /\ q.lock = TRUE /\ q.greeted = TRUE
        /\ q.opt \in Options /\ ~InTest(v)
    BY <1>1, <1>3, <1>8 DEF WorkerInv, InTest, ControlWorker
  <2>3. ControlTestOutcome(q, r)
    BY <1>3, <2>1, <2>2, ControlTestFacts
  <2>4. /\ Handled(r) /\ Pending(r.w) /\ Causes(v, r) /\ Consumes(r)
        /\ InTest(r.w) \/ r.out \in OptionsOuts(r.w)
    BY <1>3, <2>2, <2>3, TestOutcome DEF ControlTestOutcome
  <2> QED BY <1>3, <2>2, <2>3, <2>4 DEF Outcome, Tells, ControlTestOutcome
<1>9. CASE v.wait = "next" \/ (v.wait = "case" /\ ~isStart)
  <2>1. r = NextCase(Result(q, <<>>))
    BY <1>2, <1>9, Zenon DEF NextEmitCase
  <2>2. /\ q.kept \in Options /\ q.infos = 0 /\ q.lock = TRUE /\ q.greeted = TRUE
        /\ q.left >= 1
    BY <1>1, <1>3, <1>9 DEF WorkerInv, InTest, ControlWorker
  <2>3. /\ r = Result(r.w, r.out)
        /\ WorkerInv(r.w)
        /\ r.w.state = q.state /\ r.w.infos = 0 /\ r.w.greeted = TRUE
        /\ \/ r.w.wait = "case" /\ r.w.lock = TRUE /\ r.out = <<StartMessage(r.w)>>
           \/ r.w.wait = "none" /\ r.w.lock = FALSE /\ r.out = <<OptionsMessage(r.w)>>
           \/ /\ r.w.wait \in {"unlock", "accept"} /\ r.w.lock = TRUE
              /\ r.out = <<OptionsMessage(r.w), StartMessage(r.w)>>
    BY <1>3, <2>1, <2>2, NextCaseFacts
  <2>4. /\ Handled(r) /\ Pending(r.w) /\ Causes(v, r) /\ Consumes(r)
        /\ InTest(r.w) \/ r.out \in OptionsOuts(r.w)
    BY <1>3, <2>2, <2>3, TestOutcome
  <2> QED BY <1>3, <2>2, <2>3, <2>4 DEF Outcome, Tells
<1>10. CASE v.wait = "case" /\ isStart
  <2> DEFINE p == [q EXCEPT !.infos = MaxCount]
  <2>1. /\ p \in ControlWorker /\ p.kept = v.kept /\ p.infos = MaxCount /\ p.lock = v.lock
        /\ p.greeted = v.greeted /\ p.state = v.state /\ p.opt = v.opt /\ p.left = v.left
        /\ p.wait = "none" /\ MaxCount > 0
    BY <1>3, ProgramsAssumption DEF ControlWorker
  <2>2. r = Result(p, <<>>)
    BY <1>2, <1>10, Zenon DEF NextEmitCase
  <2> HIDE DEF p
  <2>3. r.w = p /\ r.out = <<>> /\ r = Result(r.w, r.out)
    BY <2>2, ResultIs
  <2>4. WorkerInv(p) /\ InTest(p) /\ Pending(p)
    BY <1>10, <2>1, <1>1 DEF WorkerInv, InTest, Pending, ControlWorker
  <2> QED BY <1>10, <2>1, <2>3, <2>4, OutsFacts, OutsDiffer DEF Outcome, Handled, Consumes, Causes, Tells
<1> QED BY <1>1, <1>4, <1>5, <1>6, <1>7, <1>8, <1>9, <1>10 DEF ControlWorker

\* app:workers_info and app:close: the state, and what waited for them.
LEMMA ReportFacts ==
    ASSUME NEW v, WorkerInv(v), v.greeted = TRUE, NEW isStart \in BOOLEAN,
           NEW state \in {"working", "stopped"},
           NEW r, r = NextEmit(Result([v EXCEPT !.state = state], <<>>), isStart)
    PROVE  /\ Outcome(v, r) /\ Tells(v, r) /\ Consumes(r)
           /\ r.w.state = state /\ r.w.greeted = TRUE
<1> DEFINE q == [v EXCEPT !.state = state]
<1>1. v \in ControlWorker
  BY DEF WorkerInv
<1>2. /\ q \in ControlWorker /\ q.kept = v.kept /\ q.infos = v.infos /\ q.lock = v.lock
      /\ q.greeted = TRUE /\ q.state = state /\ q.opt = v.opt /\ q.left = v.left
      /\ q.wait = v.wait /\ Settings(q) = Settings(v)
  BY <1>1 DEF ControlWorker, Settings
<1>3. r = NextEmit(Result(q, <<>>), isStart)
  OBVIOUS
<1> HIDE DEF q
<1>4. WorkerInv(q) /\ InTest(q) = InTest(v) /\ Pending(q) = Pending(v)
  BY <1>2 DEF WorkerInv, InTest, Pending
<1>5. Outcome(q, r) /\ Consumes(r) /\ r.w.state = q.state /\ r.w.greeted = q.greeted /\ Tells(q, r)
  BY <1>2, <1>3, <1>4, NextEmitFacts
<1>6. Tells(v, r)
  BY <1>2, <1>4, <1>5, Zenon DEF Tells
<1>7. Outcome(v, r)
  BY <1>2, <1>4, <1>5 DEF Outcome, Causes
<1> QED BY <1>2, <1>5, <1>6, <1>7

\* app:info: a measurement counts only while they are awaited.
LEMMA InfoFacts ==
    ASSUME NEW v, WorkerInv(v), NEW r, r = AppInfo(Result(v, <<>>))
    PROVE  /\ Outcome(v, r) /\ Tells(v, r)
           /\ r.w.state = v.state /\ r.w.greeted = v.greeted
<1>1. v \in ControlWorker /\ v.infos \in Nat
  BY ProgramsAssumption DEF WorkerInv, ControlWorker
<1> DEFINE p1 == [v EXCEPT !.infos = 0, !.best = TRUE]
           p2 == [v EXCEPT !.infos = v.infos - 1]
           s == Result(v, <<>>)
<1>2. r = CASE s.w.infos = 0 -> s
            [] s.w.infos = 1 -> ControlStop(Result([s.w EXCEPT !.infos = 0, !.best = TRUE], s.out), "next")
            [] OTHER         -> Result([s.w EXCEPT !.infos = s.w.infos - 1], s.out)
  BY Zenon DEF AppInfo
<1>3. s.w = v /\ s.out = <<>>
  BY ResultFields
<1>4. /\ Result([s.w EXCEPT !.infos = 0, !.best = TRUE], s.out) = Result(p1, <<>>)
      /\ Result([s.w EXCEPT !.infos = s.w.infos - 1], s.out) = Result(p2, <<>>)
  BY <1>3, Zenon
<1> DEFINE a == Result([s.w EXCEPT !.infos = 0, !.best = TRUE], s.out)
           b == Result([s.w EXCEPT !.infos = s.w.infos - 1], s.out)
<1>5. r = CASE s.w.infos = 0 -> s [] s.w.infos = 1 -> ControlStop(a, "next") [] OTHER -> b
  BY <1>2
<1>6. a = Result(p1, <<>>) /\ b = Result(p2, <<>>) /\ s = Result(v, <<>>)
  BY <1>4
<1>7. /\ p1 \in ControlWorker /\ p1.kept = v.kept /\ p1.infos = 0 /\ p1.lock = v.lock
      /\ p1.greeted = v.greeted /\ p1.state = v.state /\ p1.opt = v.opt /\ p1.left = v.left
  <2>1. 0 \in 0..MaxCount
    BY ProgramsAssumption
  <2> QED BY <1>1, <2>1 DEF ControlWorker
<1>8. v.infos > 1 =>
        /\ p2 \in ControlWorker /\ p2.kept = v.kept /\ p2.infos > 0 /\ p2.lock = v.lock
        /\ p2.greeted = v.greeted /\ p2.state = v.state /\ p2.opt = v.opt /\ p2.left = v.left
        /\ p2.wait = v.wait
  <2> HAVE v.infos > 1
  <2>1. v.infos - 1 \in 0..MaxCount /\ v.infos - 1 > 0
    BY <1>1, ProgramsAssumption DEF ControlWorker
  <2> QED BY <1>1, <2>1 DEF ControlWorker
<1> HIDE DEF s, a, b, p1, p2
<1>9. CASE v.infos = 0
  <2>1. r = Result(v, <<>>)
    BY <1>3, <1>5, <1>6, <1>9
  <2>2. r.w = v /\ r.out = <<>> /\ r = Result(r.w, r.out)
    BY <2>1, ResultIs
  <2> QED BY <1>1, <1>9, <2>2, OutsFacts, OutsDiffer DEF Outcome, Handled, Causes, Tells
<1>10. CASE v.infos = 1
  <2> DEFINE p == [p1 EXCEPT !.wait = "next"]
             o == <<StopMessage>>
  <2>1. ControlStop(Result(p1, <<>>), "next") = Result(p, Append(<<>>, StopMessage))
    <3>1. \A wait : ControlStop(Result(p1, <<>>), wait) =
                      Result([p1 EXCEPT !.wait = wait], Append(<<>>, StopMessage))
      BY SendEquations, Zenon
    <3> QED BY <3>1, Zenon
  <2>2. /\ p \in ControlWorker /\ p.kept = v.kept /\ p.infos = 0 /\ p.lock = v.lock
        /\ p.greeted = v.greeted /\ p.state = v.state /\ p.opt = v.opt /\ p.left = v.left
        /\ p.wait = "next"
    BY <1>7, <1>10 DEF ControlWorker
  <2>3. Append(<<>>, StopMessage) = o
    BY <2>2, MessageTypes, OutFacts
  <2>4. o \in Outs(p) /\ o \in StopOuts(p) /\ o \notin OptionsOuts(p)
    BY <2>2, OutsFacts, OutsDiffer
  <2> HIDE DEF p, o
  <2>5. r = Result(p, o)
    BY <1>3, <1>5, <1>6, <1>10, <2>1, <2>3
  <2>6. r.w = p /\ r.out = o /\ r = Result(r.w, r.out)
    BY <2>5, ResultIs
  <2>7. WorkerInv(p) /\ InTest(p) /\ (Pending(v) => Pending(p))
    BY <1>1, <1>10, <2>2 DEF WorkerInv, InTest, Pending, ControlWorker
  <2> QED BY <1>10, <2>2, <2>4, <2>6, <2>7 DEF Outcome, Handled, Causes, Tells
<1>11. CASE v.infos > 1
  <2>1. r = Result(p2, <<>>)
    BY <1>1, <1>3, <1>5, <1>6, <1>11
  <2>2. r.w = p2 /\ r.out = <<>> /\ r = Result(r.w, r.out)
    BY <2>1, ResultIs
  <2>3. WorkerInv(p2) /\ InTest(p2) /\ (Pending(v) => Pending(p2))
    BY <1>1, <1>8, <1>11 DEF WorkerInv, InTest, Pending, ControlWorker
  <2>4. <<>> \in Outs(p2) /\ <<>> \notin OptionsOuts(p2)
    BY <1>8, <1>11, OutsFacts, OutsDiffer
  <2>5. v.wait = "none" /\ v.infos > 0
    BY <1>1, <1>11 DEF WorkerInv
  <2> QED BY <1>8, <1>11, <2>2, <2>3, <2>4, <2>5 DEF Outcome, Handled, Causes, Tells
<1> QED BY <1>1, <1>9, <1>10, <1>11

\* app:options: a machine is tested, started or left alone.
LEMMA AppOptionsFacts ==
    ASSUME NEW v, WorkerInv(v), v.greeted = FALSE,
           NEW saving \in Saved, saving.opt \in Options,
           NEW r, r = AppOptions(Result(v, <<>>), saving)
    PROVE  /\ Handled(r)
           /\ r.w.state = v.state /\ r.w.greeted = TRUE
           /\ InTest(r.w) \/ r.out \in OptionsOuts(r.w) \/ Settings(r.w) = saving
           /\ v.wait = "none" => Pending(r.w) /\ Causes(v, r)
<1> DEFINE q == [v EXCEPT !.greeted = TRUE, !.lock = TRUE, !.opt = saving.opt,
                          !.target = saving.target, !.path = saving.path]
           s == Result(v, <<>>)
           g == Greeted(s, saving)
<1>1. /\ v \in ControlWorker /\ saving.opt \in AllOptions /\ saving.target \in Targets
      /\ saving.path \in BOOLEAN
      /\ saving = [opt |-> saving.opt, target |-> saving.target, path |-> saving.path]
  BY DEF WorkerInv, Saved, AllOptions
<1>2. /\ q \in ControlWorker /\ q.kept = v.kept /\ q.infos = v.infos /\ q.lock = TRUE
      /\ q.greeted = TRUE /\ q.state = v.state /\ q.opt = saving.opt
      /\ q.wait = v.wait /\ Settings(q) = saving
  BY <1>1 DEF ControlWorker, Settings
<1>3. r = IF ~saving.path THEN ControlTest(g, "accept")
          ELSE IF saving.target = "working" THEN ControlStart(g, "unlock")
          ELSE Unlock(g)
  BY Zenon DEF AppOptions
<1>4. s.w = v /\ s.out = <<>>
  BY ResultFields
<1> HIDE DEF s
<1>5. g = Result(q, <<>>)
  BY <1>4, Zenon DEF Greeted
<1> HIDE DEF q, g
<1>6. /\ v.wait \in {"none", "unlock"} /\ v.infos = 0 /\ v.kept \in Options
      /\ v.state # "working"
  BY <1>1, ProgramsAssumption DEF WorkerInv, ControlWorker
<1>7. CASE ~saving.path
  <2>1. r = ControlTest(Result(q, <<>>), "accept")
    BY <1>3, <1>5, <1>7
  <2>2. ControlTestOutcome(q, r)
    BY <1>2, <1>6, <2>1, ControlTestFacts
  <2>3. CASE r.w.wait = "unlock" /\ r.w.lock = FALSE /\ r.out = <<OptionsMessage(r.w)>>
    <3>1. r.out \in Outs(r.w) /\ r.out \in OptionsOuts(r.w)
      BY <2>3, OutsFacts
    <3>2. ~InTest(r.w)
      BY <2>2, <2>3 DEF InTest, ControlTestOutcome
    <3>3. v.wait # "none"
      BY <1>2, <2>2, <2>3 DEF ControlTestOutcome
    <3> QED BY <1>2, <2>2, <3>1, <3>2, <3>3 DEF Handled, ControlTestOutcome
  <2>4. CASE ~(r.w.wait = "unlock" /\ r.w.lock = FALSE /\ r.out = <<OptionsMessage(r.w)>>)
    <3>1. \/ r.w.wait = "case" /\ r.w.lock = TRUE /\ r.out = <<StartMessage(r.w)>>
          \/ r.w.wait = "none" /\ r.w.lock = FALSE /\ r.out = <<OptionsMessage(r.w)>>
          \/ /\ r.w.wait \in {"unlock", "accept"} /\ r.w.lock = TRUE
             /\ r.out = <<OptionsMessage(r.w), StartMessage(r.w)>>
      BY <1>2, <1>6, <2>2, <2>4 DEF ControlTestOutcome
    <3>2. /\ Handled(r) /\ Pending(r.w) /\ Causes(v, r)
          /\ InTest(r.w) \/ r.out \in OptionsOuts(r.w)
      BY <2>2, <3>1, TestOutcome DEF ControlTestOutcome
    <3> QED BY <1>2, <2>2, <3>2 DEF ControlTestOutcome
  <2> QED BY <2>3, <2>4
<1>8. CASE saving.path /\ saving.target = "working"
  <2> DEFINE p == [q EXCEPT !.wait = "unlock"]
             o == <<StartMessage(p)>>
  <2>1. /\ p \in ControlWorker /\ p.kept = v.kept /\ p.infos = v.infos /\ p.lock = TRUE
        /\ p.greeted = TRUE /\ p.state = v.state /\ p.opt = saving.opt
        /\ p.wait = "unlock" /\ Settings(p) = saving /\ StartMessage(p) = StartMessage(q)
    BY <1>2 DEF ControlWorker, Settings, StartMessage
  <2>2. Append(<<>>, StartMessage(q)) = o
    BY <1>2, <2>1, MessageTypes, OutFacts
  <2>3. r = ControlStart(Result(q, <<>>), "unlock")
    BY <1>3, <1>5, <1>8
  <2>4. r = Result(p, Append(<<>>, StartMessage(q)))
    BY <2>3, SendEquations, Zenon
  <2>5. o \in Outs(p) /\ o \in StartOuts(p) /\ o \notin OptionsOuts(p)
    BY <2>1, OutsFacts, OutsDiffer
  <2> HIDE DEF p, o
  <2>6. r.w = p /\ r.out = o /\ r = Result(r.w, r.out)
    BY <2>2, <2>4, ResultIs
  <2>7. WorkerInv(p) /\ p.infos = 0 /\ Pending(p)
    BY <1>6, <2>1 DEF WorkerInv, InTest, Pending
  <2> QED BY <2>1, <2>5, <2>6, <2>7 DEF Handled, Causes
<1>9. CASE saving.path /\ saving.target # "working"
  <2> DEFINE p == [q EXCEPT !.lock = FALSE]
  <2>1. /\ p \in ControlWorker /\ p.kept = v.kept /\ p.infos = v.infos /\ p.lock = FALSE
        /\ p.greeted = TRUE /\ p.state = v.state /\ p.opt = saving.opt
        /\ p.wait = v.wait /\ Settings(p) = saving
    BY <1>2 DEF ControlWorker, Settings
  <2>2. r = Unlock(Result(q, <<>>))
    BY <1>3, <1>5, <1>9
  <2>3. r = Result(p, <<>>)
    BY <2>2, SendEquations, Zenon
  <2>4. <<>> \in Outs(p) /\ <<>> \notin OptionsOuts(p)
    BY <2>1, OutsFacts, OutsDiffer
  <2> HIDE DEF p
  <2>5. r.w = p /\ r.out = <<>> /\ r = Result(r.w, r.out)
    BY <2>3, ResultIs
  <2>6. WorkerInv(p) /\ p.infos = 0 /\ (v.wait = "none" => Pending(p))
    BY <1>6, <2>1 DEF WorkerInv, InTest, Pending
  <2> QED BY <1>6, <2>1, <2>4, <2>5, <2>6 DEF Handled, Causes
<1> QED BY <1>7, <1>8, <1>9

\* The commands of the page, for an unlocked worker.
LEMMA CommandFacts ==
    ASSUME WorkerInv(sv), sv.lock = FALSE,
           NEW r, \/ r = StartHandler \/ r = StopHandler \/ r = SelftestHandler
                  \/ \E o \in Options : \/ r = OptionsHandler(o)
                                        \/ r = ControlOptions(Result(SetWorker(o), <<>>))
    PROVE  /\ Outcome(sv, r)
           /\ r.w.state = sv.state /\ r.w.greeted = sv.greeted
           /\ sv.greeted => Tells(sv, r)
<1>1. /\ sv \in ControlWorker /\ sv.wait \in {"none", "unlock"} /\ sv.infos = 0
      /\ sv.kept \in Options /\ sv.opt \in Options
      /\ sv.state = "working" => sv.greeted
      /\ ~InTest(sv)
  BY ProgramsAssumption DEF WorkerInv, InTest, ControlWorker
\* The options, then a command.
<1>2. ASSUME NEW w \in ControlWorker, w.kept = sv.kept, w.infos = 0, w.lock = TRUE,
             w.state = sv.state, w.greeted = sv.greeted, w.opt \in Options,
             NEW wait \in {"unlock", "restart"}, wait = "restart" => sv.state = "working",
             \/ r = ControlStart(ControlOptions(Result(w, <<>>)), wait) /\ wait = "unlock"
             \/ r = ControlStop(ControlOptions(Result(w, <<>>)), wait)
      PROVE  /\ Outcome(sv, r)
             /\ r.w.state = sv.state /\ r.w.greeted = sv.greeted
             /\ sv.greeted => Tells(sv, r)
  <2> DEFINE p == [w EXCEPT !.wait = wait]
             a == <<OptionsMessage(p), StartMessage(p)>>
             b == <<OptionsMessage(p), StopMessage>>
             c == <<OptionsMessage(w)>>
  <2>1. /\ p \in ControlWorker /\ p.kept = sv.kept /\ p.infos = 0 /\ p.lock = TRUE
        /\ p.state = sv.state /\ p.greeted = sv.greeted /\ p.opt \in Options /\ p.wait = wait
        /\ Settings(p) = Settings(w) /\ StartMessage(p) = StartMessage(w)
    BY <1>2 DEF ControlWorker, Settings, StartMessage
  <2>2. /\ Append(<<>>, OptionsMessage(w)) = c
        /\ OptionsMessage(w) = OptionsMessage(p)
    BY <1>2, <2>1, MessageTypes, OutFacts DEF OptionsMessage
  <2>3. Append(c, StartMessage(w)) = a /\ Append(c, StopMessage) = b
    BY <2>1, <2>2, MessageTypes, OutFacts
  <2>4. ControlOptions(Result(w, <<>>)) = Result(w, Append(<<>>, OptionsMessage(w)))
    BY SendEquations, Zenon
  <2>5. ControlOptions(Result(w, <<>>)) = Result(w, c)
    BY <2>2, <2>4
  <2> HIDE DEF c
  <2>6. /\ ControlStart(Result(w, c), wait) = Result(p, Append(c, StartMessage(w)))
        /\ ControlStop(Result(w, c), wait) = Result(p, Append(c, StopMessage))
    <3>1. ControlStart(Result(w, c), wait) = Result(p, Append(c, StartMessage(w)))
      BY SendEquations, Zenon
    <3>2. \A x : ControlStop(Result(w, c), x) =
                   Result([w EXCEPT !.wait = x], Append(c, StopMessage))
      BY SendEquations, Zenon
    <3>3. ControlStop(Result(w, c), wait) = Result(p, Append(c, StopMessage))
      BY <3>2, Zenon
    <3> QED BY <3>1, <3>3
  <2>7. /\ a \in Outs(p) /\ a \in OptionsOuts(p) /\ a \in StartOuts(p)
        /\ b \in Outs(p) /\ b \in OptionsOuts(p) /\ b \in StopOuts(p)
    BY OutsFacts
  <2> HIDE DEF p, a, b
  <2>8. PICK o \in {a, b} : r = Result(p, o) /\ (wait = "unlock" \/ o = b)
    BY <1>2, <2>3, <2>5, <2>6
  <2>9. r.w = p /\ r.out = o /\ r = Result(r.w, r.out)
    BY <2>8, ResultIs
  <2>10. WorkerInv(p) /\ ~InTest(p) /\ Pending(p)
    BY <1>1, <1>2, <2>1 DEF WorkerInv, InTest, Pending
  <2> QED BY <1>2, <2>1, <2>7, <2>8, <2>9, <2>10 DEF Outcome, Handled, Causes, Tells
\* The options alone.
<1>3. ASSUME NEW w \in ControlWorker, w.kept = sv.kept, w.infos = 0, w.lock = FALSE,
             w.state = sv.state, w.greeted = sv.greeted, w.opt \in Options, w.wait = sv.wait,
             r = Result(w, <<OptionsMessage(w)>>)
      PROVE  /\ Outcome(sv, r)
             /\ r.w.state = sv.state /\ r.w.greeted = sv.greeted
             /\ sv.greeted => Tells(sv, r)
  <2> DEFINE o == <<OptionsMessage(w)>>
  <2>1. o \in Outs(w) /\ o \in OptionsOuts(w)
    BY OutsFacts
  <2>2. r = Result(w, o)
    BY <1>3
  <2> HIDE DEF o
  <2>3. r.w = w /\ r.out = o /\ r = Result(r.w, r.out)
    BY <2>2, ResultIs
  <2>4. WorkerInv(w) /\ ~InTest(w) /\ (Pending(sv) => Pending(w) /\ w.wait = "none")
    BY <1>1, <1>3 DEF WorkerInv, InTest, Pending
  <2> QED BY <1>3, <2>1, <2>3, <2>4 DEF Outcome, Handled, Causes, Tells
<1>4. CASE r = StartHandler
  <2> DEFINE w == [sv EXCEPT !.target = "working", !.lock = TRUE]
  <2>1. /\ w \in ControlWorker /\ w.kept = sv.kept /\ w.infos = 0 /\ w.lock = TRUE
        /\ w.state = sv.state /\ w.greeted = sv.greeted /\ w.opt \in Options
    BY <1>1 DEF ControlWorker, Targets
  <2>2. r = ControlStart(ControlOptions(Result(w, <<>>)), "unlock")
    BY <1>4, Zenon DEF StartHandler
  <2> HIDE DEF w
  <2> QED BY <1>2, <2>1, <2>2
<1>5. CASE r = StopHandler
  <2> DEFINE w == [sv EXCEPT !.target = "stopped", !.lock = TRUE]
  <2>1. /\ w \in ControlWorker /\ w.kept = sv.kept /\ w.infos = 0 /\ w.lock = TRUE
        /\ w.state = sv.state /\ w.greeted = sv.greeted /\ w.opt \in Options
    BY <1>1 DEF ControlWorker, Targets
  <2>2. r = ControlStop(ControlOptions(Result(w, <<>>)), "unlock")
    BY <1>5, Zenon DEF StopHandler
  <2> HIDE DEF w
  <2> QED BY <1>2, <2>1, <2>2
<1>6. CASE r = SelftestHandler
  <2> DEFINE w == [sv EXCEPT !.lock = TRUE]
  <2>1. /\ w \in ControlWorker /\ w.kept = sv.kept /\ w.infos = 0 /\ w.lock = TRUE
        /\ w.state = sv.state /\ w.greeted = sv.greeted /\ w.opt = sv.opt
        /\ w.wait = sv.wait /\ Settings(w) = Settings(sv)
    BY <1>1 DEF ControlWorker, Settings
  <2>2. r = IF sv.state = "working" THEN ControlStop(Result(w, <<>>), "selftest")
            ELSE ControlTest(Result(w, <<>>), "unlock")
    BY <1>6, Zenon DEF SelftestHandler
  <2> HIDE DEF w
  <2>3. CASE sv.state = "working"
    <3> DEFINE p == [w EXCEPT !.wait = "selftest"]
               o == <<StopMessage>>
    <3>1. /\ p \in ControlWorker /\ p.kept = sv.kept /\ p.infos = 0 /\ p.lock = TRUE
          /\ p.state = sv.state /\ p.greeted = sv.greeted /\ p.opt = sv.opt
          /\ p.wait = "selftest" /\ Settings(p) = Settings(sv)
      BY <2>1 DEF ControlWorker, Settings
    <3>2. \A wait : ControlStop(Result(w, <<>>), wait) =
                      Result([w EXCEPT !.wait = wait], Append(<<>>, StopMessage))
      BY SendEquations, Zenon
    <3>3. ControlStop(Result(w, <<>>), "selftest") = Result(p, Append(<<>>, StopMessage))
      BY <3>2, Zenon
    <3>4. Append(<<>>, StopMessage) = o
      BY <3>1, MessageTypes, OutFacts
    <3>5. o \in Outs(p) /\ o \in StopOuts(p) /\ o \notin OptionsOuts(p)
      BY <3>1, OutsFacts, OutsDiffer
    <3> HIDE DEF p, o
    <3>6. r = Result(p, o)
      BY <2>2, <2>3, <3>3, <3>4
    <3>7. r.w = p /\ r.out = o /\ r = Result(r.w, r.out)
      BY <3>6, ResultIs
    <3>8. WorkerInv(p) /\ Pending(p)
      BY <1>1, <2>3, <3>1 DEF WorkerInv, InTest, Pending
    <3> QED BY <1>1, <2>3, <3>1, <3>5, <3>7, <3>8 DEF Outcome, Handled, Causes, Tells
  <2>4. CASE sv.state # "working"
    <3>1. r = ControlTest(Result(w, <<>>), "unlock")
      BY <2>2, <2>4
    <3>2. ControlTestOutcome(w, r)
      BY <1>1, <2>1, <3>1, ControlTestFacts
    <3>3. CASE r.w.wait \in {"none", "unlock"} /\ r.w.lock = FALSE /\ r.out = <<OptionsMessage(r.w)>>
      <4>1. r.out \in Outs(r.w) /\ r.out \in OptionsOuts(r.w)
        BY <3>3, OutsFacts
      <4>2. ~InTest(r.w) /\ (r.w.wait = "none" => Pending(r.w)) /\ r.w.infos = 0
        BY <3>2, <3>3 DEF InTest, Pending, ControlTestOutcome
      <4>3. Pending(sv) => sv.wait = "none"
        BY <1>1 DEF Pending
      <4>4. r.w.wait = sv.wait
        BY <1>1, <2>1, <3>2, <3>3 DEF ControlTestOutcome
      <4> QED BY <2>1, <3>2, <3>3, <4>1, <4>2, <4>3, <4>4 DEF Outcome, Handled, Causes, Tells, ControlTestOutcome
    <3>4. CASE \/ r.w.wait = "case" /\ r.w.lock = TRUE /\ r.out = <<StartMessage(r.w)>>
               \/ /\ r.w.wait \in {"unlock", "accept"} /\ r.w.lock = TRUE
                  /\ r.out = <<OptionsMessage(r.w), StartMessage(r.w)>>
      <4>1. /\ Handled(r) /\ Pending(r.w) /\ Causes(sv, r)
            /\ InTest(r.w) \/ r.out \in OptionsOuts(r.w)
        BY <3>2, <3>4, TestOutcome DEF ControlTestOutcome
      <4> QED BY <2>1, <3>2, <4>1 DEF Outcome, Tells, ControlTestOutcome
    <3>5. CASE r.w.wait = w.wait /\ r.w.lock = FALSE /\ r.out = <<>> /\ ~w.greeted
      <4>1. r.out \in Outs(r.w) /\ r.out \notin OptionsOuts(r.w)
        BY <3>2, <3>5, OutsFacts, OutsDiffer DEF WorkerInv, ControlTestOutcome
      <4>2. Pending(sv) => Pending(r.w) /\ r.w.wait = "none"
        BY <1>1, <2>1, <3>2, <3>5 DEF Pending, ControlTestOutcome
      <4> QED BY <2>1, <3>2, <3>5, <4>1, <4>2 DEF Outcome, Handled, Causes, ControlTestOutcome
    <3> QED BY <1>1, <2>1, <3>2, <3>3, <3>4, <3>5 DEF ControlTestOutcome
  <2> QED BY <2>3, <2>4
<1>7. CASE \E o \in Options : r = OptionsHandler(o)
  <2>1. PICK o \in Options : r = OptionsHandler(o)
    BY <1>7
  <2> DEFINE w == [SetWorker(o) EXCEPT !.lock = TRUE]
             p == [w EXCEPT !.lock = FALSE]
  <2>2. /\ w \in ControlWorker /\ w.kept = sv.kept /\ w.infos = 0 /\ w.lock = TRUE
        /\ w.state = sv.state /\ w.greeted = sv.greeted /\ w.opt \in Options /\ w.wait = sv.wait
    BY <1>1 DEF ControlWorker, Targets, SetWorker, AllOptions
  <2>3. r = IF sv.state = "working" THEN ControlStop(ControlOptions(Result(w, <<>>)), "restart")
            ELSE Unlock(ControlOptions(Result(w, <<>>)))
    BY <2>1, Zenon DEF OptionsHandler
  <2> HIDE DEF w
  <2>4. CASE sv.state = "working"
    BY <1>2, <2>2, <2>3, <2>4
  <2>5. CASE sv.state # "working"
    <3>1. /\ p \in ControlWorker /\ p.kept = sv.kept /\ p.infos = 0 /\ p.lock = FALSE
          /\ p.state = sv.state /\ p.greeted = sv.greeted /\ p.opt \in Options /\ p.wait = sv.wait
          /\ Settings(p) = Settings(w)
      BY <2>2 DEF ControlWorker, Settings
    <3>2. Append(<<>>, OptionsMessage(w)) = <<OptionsMessage(p)>>
      BY <2>2, <3>1, MessageTypes, OutFacts DEF OptionsMessage
    <3>3. Unlock(ControlOptions(Result(w, <<>>))) = Result(p, Append(<<>>, OptionsMessage(w)))
      BY SendEquations, Zenon
    <3> DEFINE m == <<OptionsMessage(p)>>
    <3>4. Append(<<>>, OptionsMessage(w)) = m
      BY <3>2
    <3> HIDE DEF p, m
    <3>5. r = Result(p, m)
      BY <2>3, <2>5, <3>3, <3>4
    <3> QED BY <1>3, <3>1, <3>5 DEF m
  <2> QED BY <2>4, <2>5
<1>8. CASE \E o \in Options : r = ControlOptions(Result(SetWorker(o), <<>>))
  <2>1. PICK o \in Options : r = ControlOptions(Result(SetWorker(o), <<>>))
    BY <1>8
  <2> DEFINE w == SetWorker(o)
  <2>2. /\ w \in ControlWorker /\ w.kept = sv.kept /\ w.infos = 0 /\ w.lock = FALSE
        /\ w.state = sv.state /\ w.greeted = sv.greeted /\ w.opt \in Options /\ w.wait = sv.wait
    BY <1>1 DEF ControlWorker, Targets, SetWorker, AllOptions
  <2> HIDE DEF w
  <2>3. ControlOptions(Result(w, <<>>)) = Result(w, Append(<<>>, OptionsMessage(w)))
    BY SendEquations, Zenon
  <2>4. Append(<<>>, OptionsMessage(w)) = <<OptionsMessage(w)>>
    BY <2>2, MessageTypes, OutFacts
  <2>5. r = Result(w, <<OptionsMessage(w)>>)
    BY <2>1, <2>3, <2>4 DEF w
  <2> QED BY <1>3, <2>2, <2>5
<1> QED BY <1>4, <1>5, <1>6, <1>7, <1>8

-----------------------------------------------------------------------------
(* The inductive invariant *)

Commands == {"start", "stop"}
Reports == {"workers_info", "close"}

\* After each message of type a there is one of type b.
Followed(s, a, b) ==
    \A i \in DOMAIN s : s[i].type = a => \E j \in DOMAIN s : j > i /\ s[j].type = b

\* Nothing is left of a connection that is gone.
LinkInv ==
    /\ linked => online
    /\ ~linked => toServer = <<>> /\ ~early /\ sv = NewControlWorker
    /\ ~online => toClient = <<>> /\ cur = "none"
    /\ ~strayed => strays = <<>>

\* Only the user's options are saved or travel.  The machine sends its own
\* once, before anything else.
SavedInv ==
    /\ saved.opt \in Options
    /\ \A i \in DOMAIN toClient :
         toClient[i].type = "options" => toClient[i].saved.opt \in Options
    /\ \A i \in DOMAIN toServer :
         toServer[i].type = "options" =>
           i = 1 /\ ~sv.greeted /\ toServer[i].saved.opt \in Options

\* Until app:options is received it is on the way, and unless a command was
\* given meanwhile nothing else has happened.
GreetInv ==
    linked /\ ~sv.greeted =>
      /\ toServer # <<>> /\ toServer[1].type = "options"
      /\ ~early => sv = NewControlWorker /\ toClient = <<>> /\ toServer[1].saved = saved

PendingInv == linked /\ ~early => Pending(sv)

\* Outside a test the machine has the settings of the server, or is told them.
ToldInv ==
    linked /\ sv.greeted /\ ~early /\ ~InTest(sv) =>
      /\ NoneOf(toClient, {"options"}) => saved = Settings(sv)
      /\ LatestIn(toClient, {"options"}, {OptionsMessage(sv)})

\* The latest report says whether the machine is ready; without one the
\* server knows.
ReportInv ==
    linked /\ ~strayed =>
      /\ NoneOf(toServer, Reports) => (sv.state = "working" <=> cur = "ready")
      /\ IF cur = "ready" THEN Followed(toServer, "close", "workers_info")
         ELSE Followed(toServer, "workers_info", "close")

\* When no program runs, each measurement still on the way has the close of its
\* program after it.
InfoInv == linked /\ ~strayed /\ cur \notin Running => Followed(toServer, "info", "close")

\* A program runs with fewer threads only if too many were asked for.
ShortInv == cur = "short" => curStart.opt \in TooMany

Starting == {"binding", "spawned", "short"}

\* What a callback waits for will come, unless a command has found the machine
\* without a program, or the program has fewer threads than asked for: ...
CommandOwed ==
    NoneOf(toServer, Reports) /\ NoneOf(toClient, Commands) => cur \in Starting \cup {"none"}

\* ... a start, or the outcome of one, ...
StartOwed ==
    NoneOf(toServer, Reports) /\ NoneOf(toClient, {"start"}) => cur \in Starting

\* ... or the close after a stop.
StopOwed == NoneOf(toServer, Reports) => cur \in Running /\ ~NoneOf(toClient, {"stop"})

\* The machine has a program, or is told to start one.
Started ==
    /\ NoneOf(toClient, Commands) => cur # "none"
    /\ Followed(toClient, "stop", "start")

TestStarts == {m \in ToClient : m.type = "start" /\ m.start.opt = TestOption}

\* It is a program of the test.
TestStart ==
    /\ NoneOf(toClient, {"start"}) => curStart.opt = TestOption
    /\ LatestIn(toClient, {"start"}, TestStarts)

OwedInv ==
    linked /\ ~early /\ ~strayed =>
      /\ sv.wait = "unlock" => CommandOwed
      /\ sv.wait \in {"accept", "case"} => StartOwed /\ Started
      /\ sv.wait \in {"restart", "selftest", "next"} => StopOwed
      /\ sv.infos > 0 => Started
      /\ sv.wait = "case" \/ sv.infos > 0 => TestStart

Inv ==
    /\ TypeOK /\ WorkerInv(sv) /\ LinkInv /\ SavedInv /\ GreetInv /\ PendingInv
    /\ ToldInv /\ ReportInv /\ InfoInv /\ ShortInv /\ OwedInv

\* The invariant implies the properties.
LEMMA InvImplies ==
    ASSUME Inv
    PROVE  TypeOK /\ LockIsPending /\ ViewAgrees /\ SettingsAgree /\ HangsOnlyHere
<1>1. sv \in ControlWorker /\ sv.infos \in Nat
  BY ProgramsAssumption DEF Inv, WorkerInv, ControlWorker
<1>2. LockIsPending
  <2> SUFFICES ASSUME linked, ~early
               PROVE  IF sv.lock THEN (sv.wait # "none") # (sv.infos > 0)
                      ELSE sv.wait = "none" /\ sv.infos = 0
    BY DEF LockIsPending
  <2>1. Pending(sv) /\ (sv.infos > 0 => sv.wait = "none")
    BY DEF Inv, PendingInv, WorkerInv
  <2> QED BY <1>1, <2>1 DEF Pending
<1>3. ViewAgrees
  <2>1. toServer = <<>> => NoneOf(toServer, Reports)
    BY DEF NoneOf
  <2> QED BY <2>1 DEF ViewAgrees, Inv, ReportInv
<1>4. SettingsAgree
  <2>1. saved.opt # TestOption
    BY OptionsAssumption DEF Inv, SavedInv
  <2>2. (\A i \in DOMAIN toClient : toClient[i].type # "options") => NoneOf(toClient, {"options"})
    BY DEF NoneOf
  <2>3. Testing <=> InTest(sv)
    BY DEF Testing, InTest
  <2> QED BY <2>1, <2>2, <2>3 DEF SettingsAgree, Inv, ToldInv
<1>5. HangsOnlyHere
  <2> SUFFICES ASSUME linked, sv.lock, ~strayed, ~early, toClient = <<>>, toServer = <<>>,
                      cur \in {"none", "closed", "ready", "short"}
               PROVE  \/ sv.wait = "unlock" /\ sv.state = "stopped" /\ cur = "none"
                      \/ sv.infos > 0 /\ cur \in {"closed", "ready"}
                      \/ sv.wait \in {"unlock", "accept"} /\ sv.state = "stopped" /\ cur = "short"
    BY DEF HangsOnlyHere, Quiet, Inv, TypeOK, StrayStates
  <2>1. \A K : NoneOf(toServer, K) /\ NoneOf(toClient, K)
    BY DEF NoneOf
  <2>2. sv.wait # "none" \/ sv.infos > 0
    BY DEF Inv, PendingInv, Pending
  <2>3. sv.wait = "unlock" => cur \in {"none", "short"}
    BY <2>1 DEF Inv, OwedInv, CommandOwed, Starting
  <2>4. sv.wait \in {"accept", "case"} => cur = "short"
    BY <2>1 DEF Inv, OwedInv, StartOwed, Starting
  <2>5. sv.wait \notin {"restart", "selftest", "next"}
    BY <2>1 DEF Inv, OwedInv, StopOwed
  <2>6. sv.infos > 0 => cur # "none"
    BY <2>1 DEF Inv, OwedInv, Started
  <2>7. sv.wait = "case" \/ sv.infos > 0 => cur # "short"
    <3>1. sv.wait = "case" \/ sv.infos > 0 => curStart.opt = TestOption
      BY <2>1 DEF Inv, OwedInv, TestStart
    <3>2. cur = "short" => curStart.opt # TestOption
      BY OptionsAssumption DEF Inv, ShortInv
    <3> QED BY <3>1, <3>2
  <2>8. cur # "ready" => sv.state # "working"
    BY <2>1 DEF Inv, ReportInv
  <2> QED BY <1>1, <2>2, <2>3, <2>4, <2>5, <2>6, <2>7, <2>8 DEF ControlWorker
<1> QED BY <1>2, <1>3, <1>4, <1>5 DEF Inv

-----------------------------------------------------------------------------
(* Messages sent and received *)

LEMMA FollowedOfConcat ==
    ASSUME NEW M, NEW s \in Seq(M), NEW t \in Seq(M), NEW a, NEW b
    PROVE  /\ Followed(t, a, b) /\ ~NoneOf(t, {b}) => Followed(s \o t, a, b)
           /\ Followed(s, a, b) /\ NoneOf(t, {a}) => Followed(s \o t, a, b)
<1> DEFINE r == s \o t
           n == Len(s)
           k == Len(t)
<1>1. /\ n \in Nat /\ k \in Nat /\ DOMAIN s = 1..n /\ DOMAIN t = 1..k /\ DOMAIN r = 1..(n + k)
      /\ \A i \in 1..(n + k) : r[i] = IF i <= n THEN s[i] ELSE t[i - n]
  BY ConcatProperties, LenProperties
<1> HIDE DEF r, n, k
<1>2. /\ \A i \in 1..n : i \in DOMAIN r /\ r[i] = s[i]
      /\ \A i \in 1..k : i + n \in DOMAIN r /\ r[i + n] = t[i] /\ i + n > n
  <2>1. ASSUME NEW i \in 1..k
        PROVE  i + n \in 1..(n + k) /\ ~(i + n <= n) /\ (i + n) - n = i /\ i + n > n
    BY <1>1
  <2>2. ASSUME NEW i \in 1..n PROVE i \in 1..(n + k) /\ i <= n
    BY <1>1
  <2> QED BY <1>1, <2>1, <2>2
<1>3. ASSUME NEW i \in DOMAIN r PROVE (i \in 1..n) \/ (i > n /\ i - n \in 1..k /\ r[i] = t[i - n])
  BY <1>1
<1>4. ASSUME Followed(t, a, b), ~NoneOf(t, {b}), NEW i \in DOMAIN r, r[i].type = a
      PROVE  \E j \in DOMAIN r : j > i /\ r[j].type = b
  <2>1. CASE i \in 1..n
    <3>1. PICK j \in 1..k : t[j].type = b
      BY <1>1, <1>4 DEF NoneOf
    <3>2. j + n > i
      BY <1>1, <2>1
    <3> QED BY <1>2, <3>1, <3>2
  <2>2. CASE i > n /\ i - n \in 1..k /\ r[i] = t[i - n]
    <3>1. PICK j \in 1..k : j > i - n /\ t[j].type = b
      BY <1>1, <1>4, <2>2 DEF Followed
    <3>2. j + n > i
      BY <1>1, <2>2, <3>1
    <3> QED BY <1>2, <3>1, <3>2
  <2> QED BY <1>3, <2>1, <2>2
<1>5. ASSUME Followed(s, a, b), NoneOf(t, {a}), NEW i \in DOMAIN r, r[i].type = a
      PROVE  \E j \in DOMAIN r : j > i /\ r[j].type = b
  <2>1. i \in 1..n
    BY <1>1, <1>3, <1>5 DEF NoneOf
  <2>2. PICK j \in 1..n : j > i /\ s[j].type = b
    BY <1>1, <1>2, <1>5, <2>1 DEF Followed
  <2> QED BY <1>2, <2>2
<1> QED BY <1>4, <1>5 DEF Followed, r

LEMMA TailFacts ==
    ASSUME NEW M, NEW s \in Seq(M), s # <<>>
    PROVE  /\ Tail(s) \in Seq(M) /\ Head(s) \in M /\ Head(s) = s[1] /\ 1 \in DOMAIN s
           /\ \A i \in DOMAIN Tail(s) :
                i \in Nat \ {0} /\ i + 1 \in DOMAIN s /\ Tail(s)[i] = s[i + 1]
           /\ \A i \in DOMAIN s : (i = 1) \/ (i - 1 \in DOMAIN Tail(s) /\ i \in Nat /\ i > 1)
<1>1. Tail(s) \in Seq(M) /\ Head(s) \in M
  BY HeadTailProperties
<1>2. Len(Tail(s)) = Len(s) - 1 /\ \A i \in 1..Len(Tail(s)) : Tail(s)[i] = s[i + 1]
  BY HeadTailProperties
<1>3. DOMAIN s = 1..Len(s) /\ Len(s) \in Nat \ {0} /\ DOMAIN Tail(s) = 1..Len(Tail(s))
  BY <1>1, EmptySeq, LenProperties
<1>4. Head(s) = s[1]
  OBVIOUS
<1> QED BY <1>1, <1>2, <1>3, <1>4

LEMMA FollowedOfTail ==
    ASSUME NEW M, NEW s \in Seq(M), s # <<>>, NEW a, NEW b, a # b, Followed(s, a, b)
    PROVE  /\ Followed(Tail(s), a, b)
           /\ Head(s).type = a => ~NoneOf(Tail(s), {b})
<1> DEFINE t == Tail(s)
<1>1. /\ Head(s) = s[1] /\ 1 \in DOMAIN s
      /\ \A i \in DOMAIN t : i \in Nat \ {0} /\ i + 1 \in DOMAIN s /\ t[i] = s[i + 1]
      /\ \A i \in DOMAIN s : (i = 1) \/ (i - 1 \in DOMAIN t /\ i \in Nat /\ i > 1)
  BY TailFacts
<1> HIDE DEF t
<1>2. ASSUME NEW i \in DOMAIN t, t[i].type = a PROVE \E j \in DOMAIN t : j > i /\ t[j].type = b
  <2>1. PICK j \in DOMAIN s : j > i + 1 /\ s[j].type = b
    BY <1>1, <1>2 DEF Followed
  <2>2. j - 1 \in DOMAIN t /\ j - 1 > i /\ t[j - 1] = s[j]
    BY <1>1, <2>1
  <2> QED BY <2>1, <2>2
<1>3. ASSUME Head(s).type = a PROVE ~NoneOf(t, {b})
  <2>1. PICK j \in DOMAIN s : j > 1 /\ s[j].type = b
    BY <1>1, <1>3 DEF Followed
  <2>2. j - 1 \in DOMAIN t /\ t[j - 1] = s[j]
    BY <1>1, <2>1
  <2> QED BY <2>1, <2>2 DEF NoneOf
<1> QED BY <1>2, <1>3 DEF Followed, t

\* What is on the way to the machine after one handler.
LEMMA OutKinds ==
    ASSUME NEW w \in ControlWorker, NEW out \in Outs(w)
    PROVE  /\ out \in Seq(ToClient)
           /\ \A i \in DOMAIN out : out[i].type = "options" => out[i] = OptionsMessage(w)
           /\ LatestIn(out, {"options"}, {OptionsMessage(w)})
           /\ out \notin OptionsOuts(w) => NoneOf(out, {"options"})
           /\ out \in OptionsOuts(w) => ~NoneOf(out, {"options"})
           /\ out \in StartOuts(w) =>
                /\ ~NoneOf(out, {"start"}) /\ ~NoneOf(out, Commands)
                /\ Followed(out, "stop", "start")
                /\ LatestIn(out, {"start"}, {StartMessage(w)})
           /\ out \in StopOuts(w) => ~NoneOf(out, {"stop"}) /\ ~NoneOf(out, Commands)
<1> DEFINE a == OptionsMessage(w)
           b == StartMessage(w)
           c == StopMessage
<1>1. /\ a \in ToClient /\ b \in ToClient /\ c \in ToClient
      /\ a.type = "options" /\ b.type = "start" /\ c.type = "stop"
  BY MessageTypes
<1> HIDE DEF a, b, c
<1>2. /\ StartOuts(w) = {<<b>>, <<a, b>>} /\ StopOuts(w) = {<<c>>, <<a, c>>}
      /\ OptionsOuts(w) = {<<a>>, <<a, b>>, <<a, c>>}
  BY DEF StartOuts, StopOuts, OptionsOuts, a, b, c
<1>3. ASSUME NEW x, NEW y
      PROVE  /\ DOMAIN <<>> = {} /\ DOMAIN <<x>> = {1} /\ DOMAIN <<x, y>> = {1, 2}
             /\ <<x>>[1] = x /\ <<x, y>>[1] = x /\ <<x, y>>[2] = y
  OBVIOUS
<1>4. \/ out = <<>> /\ DOMAIN out = {}
      \/ \E x \in {a, b, c} : out = <<x>> /\ DOMAIN out = {1} /\ out[1] = x
      \/ \E y \in {b, c} : out = <<a, y>> /\ DOMAIN out = {1, 2} /\ out[1] = a /\ out[2] = y
  BY <1>2, <1>3 DEF Outs
<1>5. \A i \in DOMAIN out : out[i] \in {a, b, c}
  BY <1>4
<1>6. out \in Seq(ToClient)
  <2>1. ASSUME NEW x \in ToClient, NEW y \in ToClient
        PROVE  <<>> \in Seq(ToClient) /\ <<x>> \in Seq(ToClient) /\ <<x, y>> \in Seq(ToClient)
    OBVIOUS
  <2> QED BY <1>1, <1>4, <2>1
<1>7. /\ out \in OptionsOuts(w) => DOMAIN out # {} /\ out[1] = a /\ 1 \in DOMAIN out
      /\ out \in StartOuts(w) => /\ \E i \in DOMAIN out : out[i] = b
                                 /\ \A i \in DOMAIN out : out[i] # c
      /\ out \in StopOuts(w) => \E i \in DOMAIN out : out[i] = c
  <2>1. ASSUME out \in OptionsOuts(w) PROVE DOMAIN out # {} /\ out[1] = a /\ 1 \in DOMAIN out
    BY <1>2, <1>3, <2>1
  <2>2. ASSUME out \in StartOuts(w)
        PROVE  /\ \E i \in DOMAIN out : out[i] = b
               /\ \A i \in DOMAIN out : out[i] # c
    BY <1>1, <1>2, <1>3, <2>2
  <2>3. ASSUME out \in StopOuts(w) PROVE \E i \in DOMAIN out : out[i] = c
    BY <1>2, <1>3, <2>3
  <2> QED BY <2>1, <2>2, <2>3
<1>8. out \notin OptionsOuts(w) => \A i \in DOMAIN out : out[i] # a
  BY <1>1, <1>2, <1>4
<1>9. /\ \A i \in DOMAIN out : out[i].type = "options" => out[i] = a
      /\ LatestIn(out, {"options"}, {a})
  BY <1>1, <1>5 DEF LatestIn, LastAt
<1>10. /\ out \notin OptionsOuts(w) => NoneOf(out, {"options"})
       /\ out \in OptionsOuts(w) => ~NoneOf(out, {"options"})
  BY <1>1, <1>5, <1>7, <1>8 DEF NoneOf
<1>11. out \in StartOuts(w) => /\ ~NoneOf(out, {"start"}) /\ ~NoneOf(out, Commands)
                               /\ Followed(out, "stop", "start")
  BY <1>1, <1>5, <1>7 DEF NoneOf, Commands, Followed
<1>12. out \in StopOuts(w) => ~NoneOf(out, {"stop"}) /\ ~NoneOf(out, Commands)
  BY <1>1, <1>7 DEF NoneOf, Commands
<1>13. LatestIn(out, {"start"}, {b})
  BY <1>1, <1>5 DEF LatestIn, LastAt
<1> QED BY <1>6, <1>9, <1>10, <1>11, <1>12, <1>13 DEF a, b

\* The channel to the machine after a handler.
LEMMA SendingFacts ==
    ASSUME toClient \in Seq(ToClient), NEW r, Handled(r), Becomes(r)
    PROVE  /\ toClient' \in Seq(ToClient)
           /\ \A K : NoneOf(toClient', K) <=> NoneOf(toClient, K) /\ NoneOf(r.out, K)
           /\ r.out = <<>> => toClient' = toClient
           /\ r.out \notin OptionsOuts(r.w) => NoneOf(r.out, {"options"})
           /\ r.out \in OptionsOuts(r.w) =>
                /\ ~NoneOf(toClient', {"options"})
                /\ LatestIn(toClient', {"options"}, {OptionsMessage(r.w)})
           /\ \A T : r.out \notin OptionsOuts(r.w) /\ LatestIn(toClient, {"options"}, T) =>
                       LatestIn(toClient', {"options"}, T)
           /\ r.out \in StartOuts(r.w) =>
                /\ ~NoneOf(toClient', {"start"}) /\ ~NoneOf(toClient', Commands)
                /\ Followed(toClient', "stop", "start")
                /\ LatestIn(toClient', {"start"}, {StartMessage(r.w)})
           /\ r.out \in StopOuts(r.w) => ~NoneOf(toClient', {"stop"}) /\ ~NoneOf(toClient', Commands)
<1> DEFINE w == r.w
           o == r.out
<1>1. w \in ControlWorker /\ o \in Outs(w) /\ toClient' = toClient \o o
  BY DEF Handled, WorkerInv, Becomes
<1>2. /\ o \in Seq(ToClient)
      /\ LatestIn(o, {"options"}, {OptionsMessage(w)})
      /\ o \notin OptionsOuts(w) => NoneOf(o, {"options"})
      /\ o \in OptionsOuts(w) => ~NoneOf(o, {"options"})
      /\ o \in StartOuts(w) =>
           /\ ~NoneOf(o, {"start"}) /\ ~NoneOf(o, Commands)
           /\ Followed(o, "stop", "start")
           /\ LatestIn(o, {"start"}, {StartMessage(w)})
      /\ o \in StopOuts(w) => ~NoneOf(o, {"stop"}) /\ ~NoneOf(o, Commands)
  BY <1>1, OutKinds
<1> HIDE DEF w, o
<1>3. toClient' \in Seq(ToClient)
  BY <1>1, <1>2, ConcatProperties
<1>4. ASSUME NEW K PROVE NoneOf(toClient', K) <=> NoneOf(toClient, K) /\ NoneOf(o, K)
  BY <1>1, <1>2, LatestOfConcat
<1>5. o = <<>> => toClient' = toClient
  BY <1>1, ConcatEmptySeq
<1>6. o \in OptionsOuts(w) => LatestIn(toClient', {"options"}, {OptionsMessage(w)})
  BY <1>1, <1>2, LatestOfConcat
<1>7. ASSUME NEW T, o \notin OptionsOuts(w), LatestIn(toClient, {"options"}, T)
      PROVE  LatestIn(toClient', {"options"}, T)
  <2>1. LatestIn(o, {"options"}, T)
    BY <1>2, <1>7 DEF NoneOf, LatestIn, LastAt
  <2> QED BY <1>1, <1>2, <1>7, <2>1, LatestOfConcat
<1>8. o \in StartOuts(w) => Followed(toClient', "stop", "start")
  BY <1>1, <1>2, FollowedOfConcat
<1>9. o \in StartOuts(w) => LatestIn(toClient', {"start"}, {StartMessage(w)})
  BY <1>1, <1>2, LatestOfConcat
<1> QED BY <1>2, <1>3, <1>4, <1>5, <1>6, <1>7, <1>8, <1>9 DEF w, o

\* The options a handler sends are the user's.
LEMMA SendingSaved ==
    ASSUME toClient \in Seq(ToClient), NEW r, Handled(r), Becomes(r),
           \A i \in DOMAIN toClient :
             toClient[i].type = "options" => toClient[i].saved.opt \in Options
    PROVE  \A i \in DOMAIN toClient' :
             toClient'[i].type = "options" => toClient'[i].saved.opt \in Options
<1> DEFINE w == r.w
           o == r.out
           n == Len(toClient)
           k == Len(o)
<1>1. w \in ControlWorker /\ o \in Outs(w) /\ toClient' = toClient \o o
  BY DEF Handled, WorkerInv, Becomes
<1>2. /\ o \in Seq(ToClient)
      /\ \A i \in DOMAIN o : o[i].type = "options" => o[i] = OptionsMessage(w)
      /\ o \notin OptionsOuts(w) => NoneOf(o, {"options"})
  BY <1>1, OutKinds
<1>3. o \in OptionsOuts(w) => w.opt \in Options
  BY DEF Handled, WorkerInv
<1>4. OptionsMessage(w).saved.opt = w.opt
  BY <1>1, MessageTypes
<1> HIDE DEF w, o
<1>5. \A i \in DOMAIN o : o[i].type = "options" => o[i].saved.opt \in Options
  BY <1>2, <1>3, <1>4 DEF NoneOf
<1>6. /\ n \in Nat /\ k \in Nat /\ DOMAIN toClient = 1..n /\ DOMAIN o = 1..k
      /\ DOMAIN toClient' = 1..(n + k)
      /\ \A i \in 1..(n + k) : toClient'[i] = IF i <= n THEN toClient[i] ELSE o[i - n]
  BY <1>1, <1>2, ConcatProperties, LenProperties
<1> HIDE DEF n, k
<1>7. ASSUME NEW i \in DOMAIN toClient', toClient'[i].type = "options"
      PROVE  toClient'[i].saved.opt \in Options
  <2>1. CASE i <= n
    BY <1>6, <1>7, <2>1
  <2>2. CASE i > n
    <3>1. i - n \in DOMAIN o /\ toClient'[i] = o[i - n]
      BY <1>6, <2>2
    <3> QED BY <1>5, <1>7, <3>1
  <2> QED BY <1>6, <2>1, <2>2
<1> QED BY <1>7

\* What a handler leaves owed.
LEMMA OwedKept ==
    ASSUME toClient \in Seq(ToClient), WorkerInv(sv), OwedInv, Pending(sv),
           linked, ~early, ~strayed, cur' = cur, curStart' = curStart,
           NEW r, Outcome(sv, r), Becomes(r),
           Consumes(r) \/ (NoneOf(toServer', Reports) => NoneOf(toServer, Reports)),
           ~Consumes(r) /\ NoneOf(toServer', Reports) /\ (r.w.state = "working" \/ sv.infos > 0) =>
             cur \in Running
    PROVE  OwedInv'
<1> USE DEF Outcome
<1>1. sv' = r.w /\ Handled(r) /\ Causes(sv, r)
  BY DEF Becomes
<1>2. /\ r.out = <<>> => toClient' = toClient
      /\ r.out \in StartOuts(r.w) =>
           /\ ~NoneOf(toClient', {"start"}) /\ ~NoneOf(toClient', Commands)
           /\ Followed(toClient', "stop", "start")
           /\ LatestIn(toClient', {"start"}, {StartMessage(r.w)})
      /\ r.out \in StopOuts(r.w) => ~NoneOf(toClient', {"stop"}) /\ ~NoneOf(toClient', Commands)
  BY <1>1, SendingFacts
<1>3. ASSUME sv'.wait \in {"accept", "case"} PROVE StartOwed' /\ Started'
  <2>1. CASE r.out \in StartOuts(r.w)
    BY <1>2, <2>1 DEF StartOwed, Started
  <2>2. CASE r.out \notin StartOuts(r.w)
    <3>1. r.out = <<>> /\ r.w.wait = sv.wait /\ ~Consumes(r)
      BY <1>1, <1>3, <2>2 DEF Causes, Consumes
    <3>2. StartOwed /\ Started
      BY <1>1, <1>3, <3>1 DEF OwedInv
    <3> QED BY <1>2, <3>1, <3>2 DEF StartOwed, Started
  <2> QED BY <2>1, <2>2
<1>4. ASSUME sv'.wait \in {"restart", "selftest", "next"} PROVE StopOwed'
  <2>1. ~Consumes(r)
    BY <1>1, <1>4 DEF Consumes
  <2>2. CASE r.out \in StopOuts(r.w) /\ (r.w.state = "working" \/ sv.infos > 0)
    BY <1>2, <2>1, <2>2 DEF StopOwed
  <2>3. CASE r.out = <<>> /\ r.w.wait = sv.wait
    <3>1. StopOwed
      BY <1>1, <1>4, <2>3 DEF OwedInv
    <3> QED BY <1>2, <2>1, <2>3, <3>1 DEF StopOwed
  <2> QED BY <1>1, <1>4, <2>2, <2>3 DEF Causes
<1>5. ASSUME sv'.infos > 0 PROVE Started'
  <2>1. r.out = <<>> /\ (sv.infos > 0 \/ sv.wait = "case")
    BY <1>1, <1>5 DEF Causes
  <2>2. Started
    BY <2>1 DEF OwedInv
  <2> QED BY <1>2, <2>1, <2>2 DEF Started
<1>6. ASSUME sv'.wait = "unlock" PROVE CommandOwed'
  <2>1. CASE r.out \in StartOuts(r.w) \cup StopOuts(r.w)
    BY <1>2, <2>1 DEF CommandOwed
  <2>2. CASE r.out \notin StartOuts(r.w) \cup StopOuts(r.w)
    <3>1. r.out = <<>> /\ r.w.wait = sv.wait /\ ~Consumes(r)
      BY <1>1, <1>6, <2>2 DEF Causes, Consumes
    <3>2. CommandOwed
      BY <1>1, <1>6, <3>1 DEF OwedInv
    <3> QED BY <1>2, <3>1, <3>2 DEF CommandOwed
  <2> QED BY <2>1, <2>2
<1>7. ASSUME sv'.wait = "case" \/ sv'.infos > 0 PROVE TestStart'
  <2>1. CASE r.out \in StartOuts(r.w) /\ sv'.wait = "case"
    <3>1. r.w \in ControlWorker /\ r.w.opt = TestOption
      BY <1>1, <2>1 DEF Handled, WorkerInv, InTest
    <3>2. StartMessage(r.w) \in ToClient /\ StartMessage(r.w).type = "start"
      BY <3>1, MessageTypes
    <3>3. StartMessage(r.w).start.opt = TestOption
      BY <3>1 DEF StartMessage
    <3>4. StartMessage(r.w) \in TestStarts
      BY <3>2, <3>3 DEF TestStarts
    <3> QED BY <1>2, <2>1, <3>4 DEF TestStart, LatestIn
  <2>2. CASE ~(r.out \in StartOuts(r.w) /\ sv'.wait = "case")
    <3>1. r.out = <<>> /\ (sv.wait = "case" \/ sv.infos > 0)
      BY <1>1, <1>7, <2>2 DEF Causes
    <3>2. TestStart
      BY <3>1 DEF OwedInv
    <3> QED BY <1>2, <3>1, <3>2 DEF TestStart
  <2> QED BY <2>1, <2>2
<1> QED BY <1>3, <1>4, <1>5, <1>6, <1>7 DEF OwedInv

\* What a handler leaves the machine told.
LEMMA ToldKept ==
    ASSUME toClient \in Seq(ToClient), ToldInv, linked, sv.greeted, ~early, saved' = saved,
           NEW r, Handled(r), Tells(sv, r), Becomes(r)
    PROVE  ToldInv'
<1>1. sv' = r.w
  BY DEF Becomes
<1>2. SUFFICES ASSUME ~InTest(r.w)
               PROVE  /\ NoneOf(toClient', {"options"}) => saved = Settings(r.w)
                      /\ LatestIn(toClient', {"options"}, {OptionsMessage(r.w)})
  BY <1>1 DEF ToldInv
<1>3. CASE r.out \in OptionsOuts(r.w)
  BY <1>3, SendingFacts
<1>4. CASE r.out \notin OptionsOuts(r.w)
  <2>1. Settings(r.w) = Settings(sv) /\ ~InTest(sv)
    BY <1>2, <1>4 DEF Tells
  <2>2. OptionsMessage(r.w) = OptionsMessage(sv)
    BY <2>1 DEF OptionsMessage
  <2>3. /\ NoneOf(toClient, {"options"}) => saved = Settings(sv)
        /\ LatestIn(toClient, {"options"}, {OptionsMessage(sv)})
    BY <2>1 DEF ToldInv
  <2>4. NoneOf(toClient', {"options"}) => NoneOf(toClient, {"options"})
    BY SendingFacts
  <2>5. LatestIn(toClient', {"options"}, {OptionsMessage(sv)})
    BY <1>4, <2>3, SendingFacts
  <2> QED BY <2>1, <2>2, <2>3, <2>4, <2>5
<1> QED BY <1>3, <1>4

-----------------------------------------------------------------------------
(* Every step keeps the invariant *)

\* A command of the page.
LEMMA CommandKeeps ==
    ASSUME Inv, Page
    PROVE  Inv'
<1>1. /\ Command
      /\ \E r : /\ \/ r = StartHandler \/ r = StopHandler \/ r = SelftestHandler
                   \/ \E o \in Options : \/ r = OptionsHandler(o)
                                         \/ r = ControlOptions(Result(SetWorker(o), <<>>))
                /\ Becomes(r)
  BY Zenon DEF Page, ControlStartCommand, ControlStopCommand, ControlOptionsCommand,
               ControlNameCommand, ControlSelftestCommand
<1>2. PICK r : /\ \/ r = StartHandler \/ r = StopHandler \/ r = SelftestHandler
                  \/ \E o \in Options : \/ r = OptionsHandler(o)
                                        \/ r = ControlOptions(Result(SetWorker(o), <<>>))
               /\ Becomes(r)
  BY <1>1
<1>3. /\ linked /\ linked' = linked /\ sv.lock = FALSE /\ early' = (early \/ ~sv.greeted)
      /\ toServer' = toServer /\ online' = online /\ saved' = saved /\ losses' = losses
      /\ cur' = cur /\ curStart' = curStart /\ strays' = strays /\ strayed' = strayed
  BY <1>1 DEF Command, Accepts, clientVars, Inv, WorkerInv, ControlWorker
<1>4. TypeOK /\ WorkerInv(sv) /\ toClient \in Seq(ToClient)
  BY DEF Inv, TypeOK
<1>5. /\ Outcome(sv, r) /\ Handled(r) /\ WorkerInv(r.w) /\ r.w \in ControlWorker
      /\ r.w.state = sv.state /\ r.w.greeted = sv.greeted
      /\ sv.greeted => Tells(sv, r)
      /\ sv' = r.w
  BY <1>2, <1>3, <1>4, CommandFacts DEF Outcome, Handled, WorkerInv, Becomes
<1>6. TypeOK'
  <2>1. toClient' \in Seq(ToClient)
    BY <1>2, <1>4, <1>5, SendingFacts
  <2> QED BY <1>3, <1>4, <1>5, <2>1 DEF TypeOK
<1>7. WorkerInv(sv)'
  BY <1>5
<1>8. LinkInv'
  BY <1>3 DEF Inv, LinkInv
<1>9. SavedInv'
  <2>1. \A i \in DOMAIN toClient' :
          toClient'[i].type = "options" => toClient'[i].saved.opt \in Options
    BY <1>2, <1>4, <1>5, SendingSaved DEF Inv, SavedInv
  <2> QED BY <1>3, <1>5, <2>1 DEF Inv, SavedInv
<1>10. GreetInv'
  BY <1>3, <1>5 DEF Inv, GreetInv
<1>11. ASSUME ~early' PROVE ~early /\ sv.greeted /\ Pending(sv)
  BY <1>3, <1>11 DEF Inv, PendingInv
<1>12. PendingInv'
  BY <1>5, <1>11 DEF PendingInv, Outcome
<1>13. ToldInv'
  <2>1. SUFFICES ASSUME ~early' PROVE ToldInv'
    BY DEF ToldInv
  <2> QED BY <1>2, <1>3, <1>4, <1>5, <1>11, <2>1, ToldKept DEF Inv
<1>14. ReportInv'
  BY <1>3, <1>5 DEF Inv, ReportInv
<1>15. InfoInv' /\ ShortInv'
  BY <1>3 DEF Inv, InfoInv, ShortInv
<1>16. OwedInv'
  <2>1. SUFFICES ASSUME ~early', ~strayed' PROVE OwedInv'
    BY DEF OwedInv
  <2>2. sv.infos > 0 => FALSE
    BY <1>3, <1>4 DEF WorkerInv
  <2>3. NoneOf(toServer', Reports) /\ r.w.state = "working" => cur \in Running
    BY <1>3, <1>5, <2>1 DEF Inv, ReportInv, Running
  <2> QED BY <1>2, <1>3, <1>4, <1>5, <1>11, <2>1, <2>2, <2>3, OwedKept DEF Inv
<1> QED BY <1>6, <1>7, <1>8, <1>9, <1>10, <1>12, <1>13, <1>14, <1>15, <1>16 DEF Inv

\* The server receives the settings of the machine.
LEMMA OptionsReceived ==
    ASSUME Inv, linked, toServer # <<>>, Head(toServer).type = "options",
           Becomes(AppOptions(Worker, Head(toServer).saved)),
           toServer' = Tail(toServer),
           UNCHANGED <<linked, online, saved, losses, early, clientVars>>
    PROVE  Inv'
<1> DEFINE r == AppOptions(Worker, Head(toServer).saved)
           m == Head(toServer).saved
<1>1. /\ TypeOK /\ WorkerInv(sv) /\ toClient \in Seq(ToClient) /\ toServer \in Seq(ToServer)
  BY DEF Inv, TypeOK
<1>2. /\ Tail(toServer) \in Seq(ToServer) /\ Head(toServer) \in ToServer
      /\ Head(toServer) = toServer[1] /\ 1 \in DOMAIN toServer
      /\ \A i \in DOMAIN Tail(toServer) :
           i \in Nat \ {0} /\ i + 1 \in DOMAIN toServer /\ Tail(toServer)[i] = toServer[i + 1]
      /\ \A i \in DOMAIN toServer :
           (i = 1) \/ (i - 1 \in DOMAIN Tail(toServer) /\ i \in Nat /\ i > 1)
  BY <1>1, TailFacts
<1>3. sv.greeted = FALSE /\ m.opt \in Options /\ m \in Saved
  BY <1>1, <1>2 DEF Inv, SavedInv, WorkerInv, ControlWorker, ToServer
<1>4. /\ Handled(r) /\ r.w.state = sv.state /\ r.w.greeted = TRUE
      /\ InTest(r.w) \/ r.out \in OptionsOuts(r.w) \/ Settings(r.w) = m
      /\ sv.wait = "none" => Pending(r.w) /\ Causes(sv, r)
  BY <1>1, <1>3, AppOptionsFacts DEF Worker
<1> HIDE DEF r
<1>5. Becomes(r) /\ sv' = r.w /\ WorkerInv(r.w) /\ r.w \in ControlWorker
  BY <1>4 DEF r, Becomes, Handled, WorkerInv
<1>6. cur' = cur /\ curStart' = curStart /\ strays' = strays /\ strayed' = strayed
  BY DEF clientVars
<1>7. TypeOK'
  <2>1. toClient' \in Seq(ToClient)
    BY <1>1, <1>4, <1>5, SendingFacts
  <2> QED BY <1>1, <1>2, <1>5, <1>6, <2>1 DEF TypeOK
<1>8. LinkInv'
  BY <1>6 DEF Inv, LinkInv
<1>9. SavedInv'
  <2>1. \A i \in DOMAIN toClient' :
          toClient'[i].type = "options" => toClient'[i].saved.opt \in Options
    BY <1>1, <1>4, <1>5, SendingSaved DEF Inv, SavedInv
  <2>2. \A i \in DOMAIN Tail(toServer) : Tail(toServer)[i].type # "options"
    BY <1>2 DEF Inv, SavedInv
  <2> QED BY <2>1, <2>2 DEF Inv, SavedInv
<1>10. GreetInv'
  BY <1>4, <1>5 DEF GreetInv
<1>11. ~early => sv = NewControlWorker /\ toClient = <<>> /\ m = saved
  BY <1>2, <1>3 DEF Inv, GreetInv
<1>12. ~early => sv.wait = "none" /\ sv.infos = 0
  BY <1>11 DEF NewControlWorker
<1>13. PendingInv'
  BY <1>4, <1>5, <1>12 DEF PendingInv
<1>14. ToldInv'
  <2>1. SUFFICES ASSUME ~early, ~InTest(r.w)
                 PROVE  /\ NoneOf(toClient', {"options"}) => saved = Settings(r.w)
                        /\ LatestIn(toClient', {"options"}, {OptionsMessage(r.w)})
    BY <1>5 DEF ToldInv
  <2>2. CASE r.out \in OptionsOuts(r.w)
    BY <1>1, <1>4, <1>5, <2>2, SendingFacts
  <2>3. CASE r.out \notin OptionsOuts(r.w)
    <3>1. LatestIn(toClient, {"options"}, {OptionsMessage(r.w)})
      BY <1>11, <2>1 DEF LatestIn
    <3> QED BY <1>1, <1>4, <1>5, <1>11, <2>1, <2>3, <3>1, SendingFacts
  <2> QED BY <2>2, <2>3
<1>15. NoneOf(Tail(toServer), Reports) => NoneOf(toServer, Reports)
  BY <1>1, LatestOfTail DEF Reports
<1>16. ReportInv'
  <2>1. /\ Followed(toServer, "close", "workers_info") =>
             Followed(Tail(toServer), "close", "workers_info")
        /\ Followed(toServer, "workers_info", "close") =>
             Followed(Tail(toServer), "workers_info", "close")
    BY <1>1, FollowedOfTail
  <2> QED BY <1>4, <1>5, <1>6, <1>15, <2>1 DEF Inv, ReportInv
<1>17. InfoInv' /\ ShortInv'
  <2>1. Followed(toServer, "info", "close") => Followed(Tail(toServer), "info", "close")
    BY <1>1, FollowedOfTail
  <2> QED BY <1>6, <2>1 DEF Inv, InfoInv, ShortInv
<1>18. OwedInv'
  <2>1. SUFFICES ASSUME ~early, ~strayed, linked PROVE OwedInv'
    BY <1>6 DEF OwedInv
  <2>2. Pending(sv)
    BY <2>1 DEF Inv, PendingInv
  <2>3. Outcome(sv, r)
    BY <1>4, <1>12, <2>1 DEF Outcome
  <2>4. NoneOf(toServer', Reports) /\ r.w.state = "working" => cur \in Running
    BY <1>4, <1>15, <2>1 DEF Inv, ReportInv, Running
  <2> QED BY <1>1, <1>5, <1>6, <1>12, <1>15, <2>1, <2>2, <2>3, <2>4, OwedKept DEF Inv
<1> QED BY <1>5, <1>7, <1>8, <1>9, <1>10, <1>13, <1>14, <1>16, <1>17, <1>18 DEF Inv

\* What the server makes of a report or a measurement m.
EventCase(m, r) ==
    \/ m.type = "workers_info" /\ r = AppWorkersInfo(Worker)
    \/ m.type = "close" /\ r = AppClose(Worker)
    \/ m.type = "info" /\ r = AppInfo(Worker)

EventOutcome(m, r) ==
    /\ Outcome(sv, r) /\ Tells(sv, r) /\ r.w.greeted = TRUE
    /\ \/ m.type = "workers_info" /\ r.w.state = "working" /\ Consumes(r)
       \/ m.type = "close" /\ r.w.state = "stopped" /\ Consumes(r)
       \/ m.type = "info" /\ r.w.state = sv.state

\* The handlers of both.
LEMMA EventFacts ==
    ASSUME WorkerInv(sv), sv.greeted = TRUE,
           NEW m, NEW r, EventCase(m, r)
    PROVE  EventOutcome(m, r)
<1> USE DEF EventOutcome, EventCase
<1>1. Worker = Result(sv, <<>>) /\ Worker.w = sv /\ Worker.out = <<>>
  BY ResultFields DEF Worker
<1>2. CASE m.type = "workers_info"
  <2>1. r = AppWorkersInfo(Worker)
    BY <1>2
  <2>2. AppWorkersInfo(Worker) = NextEmit(Result([sv EXCEPT !.state = "working"], <<>>), TRUE)
    BY <1>1, Zenon DEF AppWorkersInfo
  <2>3. r = NextEmit(Result([sv EXCEPT !.state = "working"], <<>>), TRUE)
    BY <2>1, <2>2, Zenon
  <2>4. /\ Outcome(sv, r) /\ Tells(sv, r) /\ Consumes(r)
        /\ r.w.state = "working" /\ r.w.greeted = TRUE
    BY <2>3, ReportFacts
  <2> QED BY <1>2, <2>4
<1>3. CASE m.type = "close"
  <2>1. r = AppClose(Worker)
    BY <1>3
  <2>2. AppClose(Worker) = NextEmit(Result([sv EXCEPT !.state = "stopped"], <<>>), FALSE)
    BY <1>1, Zenon DEF AppClose
  <2>3. r = NextEmit(Result([sv EXCEPT !.state = "stopped"], <<>>), FALSE)
    BY <2>1, <2>2, Zenon
  <2>4. /\ Outcome(sv, r) /\ Tells(sv, r) /\ Consumes(r)
        /\ r.w.state = "stopped" /\ r.w.greeted = TRUE
    BY <2>3, ReportFacts
  <2> QED BY <1>3, <2>4
<1>4. CASE m.type = "info"
  <2>1. r = AppInfo(Result(sv, <<>>))
    BY <1>1, <1>4
  <2>2. Outcome(sv, r) /\ Tells(sv, r) /\ r.w.state = sv.state /\ r.w.greeted = sv.greeted
    BY <2>1, InfoFacts
  <2> QED BY <1>4, <2>2
<1> QED BY <1>2, <1>3, <1>4

\* The server receives a report or a measurement.
LEMMA EventReceived ==
    ASSUME Inv, linked, toServer # <<>>,
           \/ Head(toServer).type = "workers_info" /\ Becomes(AppWorkersInfo(Worker))
           \/ Head(toServer).type = "close" /\ Becomes(AppClose(Worker))
           \/ Head(toServer).type = "info" /\ Becomes(AppInfo(Worker)),
           toServer' = Tail(toServer),
           UNCHANGED <<linked, online, saved, losses, early, clientVars>>
    PROVE  Inv'
<1> DEFINE m == Head(toServer)
           t == Tail(toServer)
<1>1. /\ TypeOK /\ WorkerInv(sv) /\ toClient \in Seq(ToClient) /\ toServer \in Seq(ToServer)
  BY DEF Inv, TypeOK
<1>2. /\ t \in Seq(ToServer) /\ m = toServer[1] /\ 1 \in DOMAIN toServer
      /\ \A i \in DOMAIN t : i \in Nat \ {0} /\ i + 1 \in DOMAIN toServer /\ t[i] = toServer[i + 1]
  BY <1>1, TailFacts
<1>3. /\ m.type \in {"workers_info", "close", "info"}
      /\ sv.greeted = TRUE
  <2>1. m.type # "options"
    OBVIOUS
  <2>2. sv.greeted
    BY <1>2, <2>1 DEF Inv, GreetInv
  <2> QED BY <1>1, <2>2 DEF WorkerInv, ControlWorker
<1>4. PICK r : /\ Becomes(r)
               /\ \/ m.type = "workers_info" /\ r = AppWorkersInfo(Worker)
                  \/ m.type = "close" /\ r = AppClose(Worker)
                  \/ m.type = "info" /\ r = AppInfo(Worker)
  OBVIOUS
<1>5. /\ Outcome(sv, r) /\ Tells(sv, r) /\ r.w.greeted = TRUE
      /\ \/ m.type = "workers_info" /\ r.w.state = "working" /\ Consumes(r)
         \/ m.type = "close" /\ r.w.state = "stopped" /\ Consumes(r)
         \/ m.type = "info" /\ r.w.state = sv.state
  <2> HIDE DEF m
  <2>1. EventCase(m, r)
    BY <1>4 DEF EventCase
  <2>2. EventOutcome(m, r)
    BY <1>1, <1>3, <2>1, EventFacts
  <2> QED BY <1>3, <2>2 DEF EventOutcome
<1>6. Handled(r) /\ sv' = r.w /\ WorkerInv(r.w) /\ r.w \in ControlWorker
  BY <1>4, <1>5 DEF Outcome, Becomes, Handled, WorkerInv
<1>7. cur' = cur /\ curStart' = curStart /\ strays' = strays /\ strayed' = strayed /\ saved' = saved
  BY DEF clientVars
<1>8. TypeOK'
  <2>1. toClient' \in Seq(ToClient)
    BY <1>1, <1>4, <1>6, SendingFacts
  <2> QED BY <1>1, <1>2, <1>6, <1>7, <2>1 DEF TypeOK
<1>9. LinkInv'
  BY <1>7 DEF Inv, LinkInv
<1>10. SavedInv'
  <2>1. \A i \in DOMAIN toClient' :
          toClient'[i].type = "options" => toClient'[i].saved.opt \in Options
    BY <1>1, <1>4, <1>6, SendingSaved DEF Inv, SavedInv
  <2>2. \A i \in DOMAIN t : t[i].type # "options"
    BY <1>2 DEF Inv, SavedInv
  <2> QED BY <1>7, <2>1, <2>2 DEF Inv, SavedInv
<1>11. GreetInv'
  BY <1>5, <1>6 DEF GreetInv
<1>12. PendingInv'
  BY <1>5, <1>6 DEF Inv, PendingInv, Outcome
<1>13. ToldInv'
  <2>1. SUFFICES ASSUME ~early' PROVE ToldInv'
    BY DEF ToldInv
  <2>2. ToldInv
    BY DEF Inv
  <2> QED BY <1>1, <1>3, <1>4, <1>5, <1>6, <1>7, <2>1, <2>2, ToldKept
<1>14. ASSUME ~strayed
       PROVE  /\ NoneOf(t, Reports) => (r.w.state = "working" <=> cur = "ready")
              /\ IF cur = "ready" THEN Followed(t, "close", "workers_info")
                 ELSE Followed(t, "workers_info", "close")
  <2>1. /\ NoneOf(toServer, Reports) => (sv.state = "working" <=> cur = "ready")
        /\ IF cur = "ready" THEN Followed(toServer, "close", "workers_info")
           ELSE Followed(toServer, "workers_info", "close")
    BY <1>14 DEF Inv, ReportInv
  <2>2. m.type = "info" /\ NoneOf(t, Reports) => NoneOf(toServer, Reports)
    <3>1. m.type = "info" => m.type \notin Reports
      BY DEF Reports
    <3> QED BY <1>1, <3>1, LatestOfTail
  <2>3. NoneOf(t, Reports) => NoneOf(t, {"workers_info"}) /\ NoneOf(t, {"close"})
    BY DEF NoneOf, Reports
  <2>4. CASE cur = "ready"
    <3>1. Followed(t, "close", "workers_info") /\ (m.type = "close" => ~NoneOf(t, {"workers_info"}))
      BY <1>1, <2>1, <2>4, FollowedOfTail
    <3> QED BY <1>5, <2>1, <2>2, <2>3, <2>4, <3>1
  <2>5. CASE cur # "ready"
    <3>1. Followed(t, "workers_info", "close") /\ (m.type = "workers_info" => ~NoneOf(t, {"close"}))
      BY <1>1, <2>1, <2>5, FollowedOfTail
    <3> QED BY <1>5, <2>1, <2>2, <2>3, <2>5, <3>1
  <2> QED BY <2>4, <2>5
<1>15. ReportInv'
  BY <1>6, <1>7, <1>14 DEF ReportInv
<1>16. InfoInv' /\ ShortInv'
  <2>1. Followed(toServer, "info", "close") => Followed(t, "info", "close")
    BY <1>1, FollowedOfTail
  <2> QED BY <1>7, <2>1 DEF Inv, InfoInv, ShortInv
<1>17. OwedInv'
  <2>1. SUFFICES ASSUME ~early, ~strayed PROVE OwedInv'
    BY <1>7 DEF OwedInv
  <2>2. Pending(sv) /\ OwedInv
    BY <2>1 DEF Inv, PendingInv
  <2>3. ~Consumes(r) => m.type = "info"
    BY <1>5
  <2>4. Consumes(r) \/ (NoneOf(toServer', Reports) => NoneOf(toServer, Reports))
    <3>1. m.type = "info" => m.type \notin Reports
      BY DEF Reports
    <3> QED BY <1>1, <2>3, <3>1, LatestOfTail
\* A measurement without a report after it is of a program that runs.
  <2>5. m.type = "info" /\ NoneOf(t, Reports) => cur \in Running
    <3>1. SUFFICES ASSUME m.type = "info", NoneOf(t, Reports), Followed(toServer, "info", "close")
                   PROVE  FALSE
      BY <2>1 DEF Inv, InfoInv
    <3>2. ~NoneOf(t, {"close"})
      BY <1>1, <3>1, FollowedOfTail
    <3> QED BY <3>1, <3>2 DEF NoneOf, Reports
  <2> QED BY <1>1, <1>4, <1>5, <1>7, <2>1, <2>2, <2>3, <2>4, <2>5, OwedKept
<1> QED BY <1>6, <1>8, <1>9, <1>10, <1>11, <1>12, <1>13, <1>15, <1>16, <1>17 DEF Inv

LEMMA ServerReceiveKeeps ==
    ASSUME Inv, ServerReceive
    PROVE  Inv'
<1>1. /\ linked /\ toServer # <<>> /\ toServer' = Tail(toServer)
      /\ UNCHANGED <<linked, online, saved, losses, early, clientVars>>
  BY DEF ServerReceive
<1>2. \/ Head(toServer).type = "options" /\ Becomes(AppOptions(Worker, Head(toServer).saved))
      \/ Head(toServer).type = "workers_info" /\ Becomes(AppWorkersInfo(Worker))
      \/ Head(toServer).type = "info" /\ Becomes(AppInfo(Worker))
      \/ Head(toServer).type = "close" /\ Becomes(AppClose(Worker))
  BY Zenon DEF ServerReceive
<1>3. CASE Head(toServer).type = "options" /\ Becomes(AppOptions(Worker, Head(toServer).saved))
  BY <1>1, <1>3, OptionsReceived
<1>4. CASE \/ Head(toServer).type = "workers_info" /\ Becomes(AppWorkersInfo(Worker))
           \/ Head(toServer).type = "close" /\ Becomes(AppClose(Worker))
           \/ Head(toServer).type = "info" /\ Becomes(AppInfo(Worker))
  BY <1>1, <1>4, EventReceived
<1> QED BY <1>2, <1>3, <1>4, Zenon

-----------------------------------------------------------------------------
(* The steps of the machine *)

Report(type) == <<[type |-> type]>>

\* What a step of the machine sends fits the state its program is left in.
SendsFor(msgs) ==
    \/ msgs = <<>> /\ (cur' = "ready" <=> cur = "ready") /\ (cur \in Running => cur' \in Running)
    \/ msgs = Report("close") /\ cur' \notin Running
    \/ msgs = Report("workers_info") /\ cur' = "ready"
    \/ msgs = Report("info") /\ cur' = cur /\ cur \in Running

LEMMA ReportTypes ==
    ASSUME NEW type \in {"workers_info", "info", "close"}
    PROVE  /\ Report(type) \in Seq(ToServer) /\ Len(Report(type)) = 1 /\ DOMAIN Report(type) = {1}
           /\ Report(type)[1].type = type
BY DEF Report, ToServer

\* The channel to the server after the machine has sent msgs.
LEMMA SentFacts ==
    ASSUME Inv, linked, NEW msgs,
           msgs \in {<<>>, Report("close"), Report("workers_info"), Report("info")},
           Send(msgs)
    PROVE  /\ toServer' = toServer \o msgs /\ toServer' \in Seq(ToServer) /\ msgs \in Seq(ToServer)
           /\ \A K : NoneOf(toServer', K) <=> NoneOf(toServer, K) /\ NoneOf(msgs, K)
           /\ \A i \in DOMAIN toServer : i \in DOMAIN toServer' /\ toServer'[i] = toServer[i]
           /\ \A i \in DOMAIN toServer' :
                (i \in DOMAIN toServer)
                \/ (toServer'[i] = msgs[1] /\ msgs # <<>> /\ \A j \in DOMAIN toServer : j < i)
           /\ \A i \in DOMAIN toServer', j \in DOMAIN toServer' : j < i => j \in DOMAIN toServer
           /\ 1 \in DOMAIN toServer => toServer' # <<>> /\ toServer'[1] = toServer[1]
<1> DEFINE s == toServer
           n == Len(s)
           k == Len(msgs)
<1>1. toServer' = s \o msgs
  BY DEF Send, Sent
<1>2. s \in Seq(ToServer)
  BY DEF Inv, TypeOK
<1>3. /\ msgs \in Seq(ToServer) /\ k \in {0, 1} /\ (k = 1 <=> msgs # <<>>)
  <2>1. CASE msgs = <<>>
    BY <2>1
  <2>2. CASE msgs # <<>>
    BY <2>2, ReportTypes
  <2> QED BY <2>1, <2>2
<1>4. toServer' \in Seq(ToServer) /\ \A K : NoneOf(toServer', K) <=> NoneOf(s, K) /\ NoneOf(msgs, K)
  BY <1>1, <1>2, <1>3, ConcatProperties, LatestOfConcat
<1>5. /\ n \in Nat /\ DOMAIN s = 1..n /\ DOMAIN toServer' = 1..(n + k)
      /\ \A i \in 1..(n + k) : toServer'[i] = IF i <= n THEN s[i] ELSE msgs[i - n]
  BY <1>1, <1>2, <1>3, ConcatProperties, LenProperties
<1> HIDE DEF n, k
<1>6. \A i \in DOMAIN s : i \in DOMAIN toServer' /\ toServer'[i] = s[i]
  BY <1>3, <1>5
<1>7. ASSUME NEW i \in DOMAIN toServer', i \notin DOMAIN s
      PROVE  toServer'[i] = msgs[1] /\ msgs # <<>> /\ \A j \in DOMAIN s : j < i
  <2>1. k = 1 /\ i = n + 1
    BY <1>3, <1>5, <1>7
  <2> QED BY <1>3, <1>5, <2>1
<1>8. \A i \in DOMAIN toServer', j \in DOMAIN toServer' : j < i => j \in DOMAIN s
  BY <1>3, <1>5
<1>9. 1 \in DOMAIN s => toServer' # <<>> /\ toServer'[1] = s[1]
  BY <1>6
<1> QED BY <1>1, <1>3, <1>4, <1>6, <1>7, <1>8, <1>9

\* A step of the machine that fits its report keeps what relates the two ends.
LEMMA ReportSent ==
    ASSUME Inv, linked' = linked, sv' = sv, strayed' = strayed \/ strayed' = TRUE, NEW msgs,
           msgs \in {<<>>, Report("close"), Report("workers_info"), Report("info")},
           Send(msgs), strayed' = FALSE => SendsFor(msgs)
    PROVE  /\ toServer' \in Seq(ToServer) /\ (linked = FALSE => toServer' = <<>>)
           /\ \A i \in DOMAIN toServer' :
                toServer'[i].type = "options" =>
                  i = 1 /\ ~sv'.greeted /\ toServer'[i].saved.opt \in Options
           /\ linked /\ ~sv.greeted =>
                /\ toServer' # <<>> /\ toServer'[1].type = "options"
                /\ toServer'[1].saved = toServer[1].saved
           /\ ReportInv' /\ InfoInv'
<1>1. TypeOK /\ LinkInv /\ SavedInv /\ GreetInv /\ ReportInv /\ InfoInv /\ linked \in BOOLEAN
      /\ strayed \in BOOLEAN /\ toServer \in Seq(ToServer)
  BY DEF Inv, TypeOK
<1>2. CASE linked = FALSE
  <2>1. toServer' = toServer /\ toServer = <<>>
    BY <1>1, <1>2 DEF Send, Sent, LinkInv
  <2> QED BY <1>1, <1>2, <2>1 DEF ReportInv, InfoInv
<1>3. CASE linked = TRUE
  <2>1. /\ toServer' = toServer \o msgs /\ toServer' \in Seq(ToServer) /\ msgs \in Seq(ToServer)
        /\ \A K : NoneOf(toServer', K) <=> NoneOf(toServer, K) /\ NoneOf(msgs, K)
        /\ \A i \in DOMAIN toServer : i \in DOMAIN toServer' /\ toServer'[i] = toServer[i]
        /\ \A i \in DOMAIN toServer' :
             (i \in DOMAIN toServer)
             \/ (toServer'[i] = msgs[1] /\ msgs # <<>> /\ \A j \in DOMAIN toServer : j < i)
        /\ \A i \in DOMAIN toServer', j \in DOMAIN toServer' : j < i => j \in DOMAIN toServer
        /\ 1 \in DOMAIN toServer => toServer' # <<>> /\ toServer'[1] = toServer[1]
    BY <1>3, SentFacts
  <2>2. /\ msgs # <<>> => msgs[1].type \in {"workers_info", "info", "close"}
        /\ msgs = Report("close") => msgs[1].type = "close" /\ NoneOf(msgs, {"workers_info"})
        /\ msgs = Report("workers_info") => msgs[1].type = "workers_info" /\ NoneOf(msgs, {"close"})
        /\ msgs = Report("info") =>
             /\ msgs[1].type = "info" /\ NoneOf(msgs, Reports)
             /\ NoneOf(msgs, {"close"}) /\ NoneOf(msgs, {"workers_info"})
        /\ msgs = <<>> =>
             /\ NoneOf(msgs, Reports) /\ NoneOf(msgs, {"close"}) /\ NoneOf(msgs, {"workers_info"})
             /\ NoneOf(msgs, {"info"})
        /\ msgs \in {Report("close"), Report("workers_info")} => ~NoneOf(msgs, Reports)
    BY ReportTypes DEF NoneOf, Reports
  <2>3. \A i \in DOMAIN toServer' :
          toServer'[i].type = "options" =>
            i = 1 /\ ~sv'.greeted /\ toServer'[i].saved.opt \in Options
    BY <1>1, <2>1, <2>2 DEF SavedInv
  <2>4. ~sv.greeted =>
          /\ toServer' # <<>> /\ toServer'[1].type = "options"
          /\ toServer'[1].saved = toServer[1].saved
    <3>1. toServer # <<>> => 1 \in DOMAIN toServer
      BY <1>1, TailFacts
    <3> QED BY <1>1, <1>3, <2>1, <3>1 DEF GreetInv
  <2>5. ASSUME strayed' = FALSE
        PROVE  /\ NoneOf(toServer', Reports) => (sv.state = "working" <=> cur' = "ready")
               /\ IF cur' = "ready" THEN Followed(toServer', "close", "workers_info")
                  ELSE Followed(toServer', "workers_info", "close")
    <3>1. /\ NoneOf(toServer, Reports) => (sv.state = "working" <=> cur = "ready")
          /\ IF cur = "ready" THEN Followed(toServer, "close", "workers_info")
             ELSE Followed(toServer, "workers_info", "close")
      BY <1>1, <1>3, <2>5 DEF ReportInv
    <3>2. toServer' = toServer \o msgs /\ msgs \in Seq(ToServer)
      BY <2>1
    <3>3. CASE msgs \in {<<>>, Report("info")}
      <4>1. cur' = "ready" <=> cur = "ready"
        BY <2>2, <2>5, <3>3 DEF SendsFor
      <4>2. NoneOf(msgs, {"close"}) /\ NoneOf(msgs, {"workers_info"})
        BY <2>2, <3>3
      <4>3. IF cur = "ready" THEN Followed(toServer', "close", "workers_info")
            ELSE Followed(toServer', "workers_info", "close")
        BY <1>1, <3>1, <3>2, <4>2, FollowedOfConcat
      <4> QED BY <2>1, <3>1, <4>1, <4>3
    <3>4. CASE msgs = Report("close")
      <4>1. cur' # "ready"
        BY <2>2, <2>5, <3>4 DEF SendsFor, Running
      <4>2. Followed(msgs, "workers_info", "close") /\ ~NoneOf(msgs, {"close"})
        BY <2>2, <3>4, ReportTypes DEF NoneOf, Followed
      <4>3. Followed(toServer', "workers_info", "close")
        BY <1>1, <3>2, <4>2, FollowedOfConcat
      <4>4. ~NoneOf(toServer', Reports)
        BY <2>1, <2>2, <3>4
      <4> QED BY <4>1, <4>3, <4>4
    <3>5. CASE msgs = Report("workers_info")
      <4>1. cur' = "ready"
        BY <2>2, <2>5, <3>5 DEF SendsFor
      <4>2. Followed(msgs, "close", "workers_info") /\ ~NoneOf(msgs, {"workers_info"})
        BY <2>2, <3>5, ReportTypes DEF NoneOf, Followed
      <4>3. Followed(toServer', "close", "workers_info")
        BY <1>1, <3>2, <4>2, FollowedOfConcat
      <4>4. ~NoneOf(toServer', Reports)
        BY <2>1, <2>2, <3>5
      <4> QED BY <4>1, <4>3, <4>4
    <3> QED BY <3>3, <3>4, <3>5
  <2>6. ASSUME strayed' = FALSE, cur' \notin Running
        PROVE  Followed(toServer', "info", "close")
    <3>1. toServer' = toServer \o msgs /\ msgs \in Seq(ToServer)
      BY <2>1
    <3>2. CASE msgs = <<>> /\ cur \notin Running
      <4>1. Followed(toServer, "info", "close") /\ NoneOf(msgs, {"info"})
        BY <1>1, <1>3, <2>2, <2>6, <3>2 DEF InfoInv
      <4> QED BY <1>1, <3>1, <4>1, FollowedOfConcat
    <3>3. CASE msgs = Report("close")
      <4>1. Followed(msgs, "info", "close") /\ ~NoneOf(msgs, {"close"})
        BY <2>2, <3>3, ReportTypes DEF NoneOf, Followed
      <4> QED BY <1>1, <3>1, <4>1, FollowedOfConcat
    <3>4. \/ msgs = <<>> /\ cur \notin Running
          \/ msgs = Report("close")
      BY <2>6 DEF SendsFor, Running
    <3> QED BY <3>2, <3>3, <3>4
  <2> QED BY <1>1, <1>3, <2>1, <2>3, <2>4, <2>5, <2>6 DEF ReportInv, InfoInv
<1> QED BY <1>1, <1>2, <1>3

\* What the machine's own variables may become.
MachineOK ==
    /\ cur' \in {"none", "closed"} \cup StrayStates /\ curStart' \in StartInfo
    /\ cur' = "short" => curStart'.opt \in TooMany
    /\ strays' \in Seq([state : StrayStates, start : StartInfo]) /\ Len(strays') <= MaxStrays
    /\ (strayed' = strayed) \/ (strayed' = TRUE)
    /\ strayed' = FALSE => strays' = <<>>
    /\ ~online => cur' = "none"

\* What the settings file and the channel to the machine may become.
ChannelOK ==
    /\ toClient' \in Seq(ToClient) /\ saved' \in Saved /\ saved'.opt \in Options
    /\ \A i \in DOMAIN toClient' :
         toClient'[i].type = "options" => toClient'[i].saved.opt \in Options
    /\ toClient = <<>> => toClient' = <<>> /\ saved' = saved

Messages == {<<>>, Report("close"), Report("workers_info"), Report("info")}

\* A step of the machine keeps the rest of the invariant.
LEMMA MachineKeeps ==
    ASSUME Inv, UNCHANGED <<serverVars, online, losses, early>>, MachineOK, ChannelOK,
           NEW msgs \in Messages, Send(msgs), strayed' = FALSE => SendsFor(msgs),
           linked /\ ToldInv => ToldInv', linked /\ OwedInv => OwedInv'
    PROVE  Inv'
<1>1. linked' = linked /\ sv' = sv /\ online' = online /\ losses' = losses /\ early' = early
  BY DEF serverVars
<1>2. /\ TypeOK /\ WorkerInv(sv) /\ LinkInv /\ SavedInv /\ GreetInv /\ PendingInv
      /\ ToldInv /\ ReportInv /\ InfoInv /\ ShortInv /\ OwedInv
  BY DEF Inv
<1>3. /\ toServer' \in Seq(ToServer) /\ (linked = FALSE => toServer' = <<>>)
      /\ \A i \in DOMAIN toServer' :
           toServer'[i].type = "options" =>
             i = 1 /\ ~sv'.greeted /\ toServer'[i].saved.opt \in Options
      /\ linked /\ ~sv.greeted =>
           /\ toServer' # <<>> /\ toServer'[1].type = "options"
           /\ toServer'[1].saved = toServer[1].saved
      /\ ReportInv' /\ InfoInv'
  BY <1>1, ReportSent DEF MachineOK, Messages
<1>4. TypeOK'
  BY <1>1, <1>2, <1>3 DEF TypeOK, MachineOK, ChannelOK
<1>5. LinkInv'
  BY <1>1, <1>2, <1>3, <1>4 DEF LinkInv, MachineOK, ChannelOK, TypeOK
<1>6. SavedInv'
  BY <1>1, <1>2, <1>3 DEF SavedInv, ChannelOK
<1>7. GreetInv'
  BY <1>1, <1>2, <1>3 DEF GreetInv, ChannelOK
<1>8. PendingInv' /\ WorkerInv(sv)' /\ ShortInv'
  BY <1>1, <1>2 DEF PendingInv, ShortInv, MachineOK
<1>9. ToldInv' /\ OwedInv'
  <2>1. linked = FALSE => ToldInv' /\ OwedInv'
    BY <1>1 DEF ToldInv, OwedInv
  <2> QED BY <1>2, <2>1 DEF TypeOK
<1> QED BY <1>3, <1>4, <1>5, <1>6, <1>7, <1>8, <1>9 DEF Inv

\* Whether a report is on the way after the machine has sent msgs.
LEMMA ReportOnTheWay ==
    ASSUME Inv, linked, NEW msgs \in Messages, Send(msgs)
    PROVE  NoneOf(toServer', Reports) <=>
             NoneOf(toServer, Reports) /\ msgs \in {<<>>, Report("info")}
<1>1. NoneOf(toServer', Reports) <=> NoneOf(toServer, Reports) /\ NoneOf(msgs, Reports)
  BY SentFacts DEF Messages
<1>2. NoneOf(msgs, Reports) <=> msgs \in {<<>>, Report("info")}
  BY ReportTypes DEF Messages, NoneOf, Reports
<1> QED BY <1>1, <1>2

LEMMA NothingSent ==
    ASSUME Inv
    PROVE  Sent(<<>>) = toServer
BY ConcatEmptySeq DEF Sent, Inv, TypeOK

\* The steps of the machine's program.
LEMMA ProgramKeeps ==
    ASSUME Inv, Program
    PROVE  Inv'
<1>1. /\ UNCHANGED <<serverVars, toClient, online, saved, curStart, losses, early, strayed, strays>>
      /\ cur # "none" /\ cur' # "none"
      /\ cur' \in {"spawned", "ready", "short", "closed"}
  BY DEF Program, Listening, Ready, Short, Info, StartFails, ProgramDies, ControlStep, Running
<1>2. PICK msgs \in Messages :
        /\ Send(msgs) /\ SendsFor(msgs)
        /\ \/ cur' \in {"spawned", "short"}
           \/ msgs = Report("info") /\ cur' = cur
           \/ msgs \notin {<<>>, Report("info")}
        /\ msgs \in {<<>>, Report("info")} /\ cur \in Running => cur' \in Running
        /\ cur' = "short" => curStart.opt \in TooMany
  <2>1. CASE Listening
    <3>1. Send(<<>>) /\ cur = "binding" /\ cur' = "spawned"
      BY <2>1, NothingSent DEF Listening, Send
    <3>2. SendsFor(<<>>) /\ <<>> \in Messages /\ cur \notin Running
      BY <3>1 DEF SendsFor, Messages, Running
    <3> QED BY <3>1, <3>2
  <2>5. CASE Short
    <3>1. Send(<<>>) /\ cur = "spawned" /\ cur' = "short" /\ curStart.opt \in TooMany
      BY <2>5, NothingSent DEF Short, Send, RunsShort
    <3>2. SendsFor(<<>>) /\ <<>> \in Messages /\ cur \notin Running
      BY <3>1 DEF SendsFor, Messages, Running
    <3> QED BY <3>1, <3>2
  <2>2. CASE Ready
    <3>1. Send(Report("workers_info")) /\ cur' = "ready"
      BY <2>2 DEF Ready, Report
    <3>2. SendsFor(Report("workers_info")) /\ Report("workers_info") \in Messages
      BY <3>1 DEF SendsFor, Messages
    <3>3. Report("workers_info") \notin {<<>>, Report("info")}
      BY ReportTypes
    <3> QED BY <3>1, <3>2, <3>3
  <2>3. CASE Info
    <3>1. Send(Report("info")) /\ cur \in Running /\ cur' = cur
      BY <2>3 DEF Info, Report
    <3>2. SendsFor(Report("info")) /\ Report("info") \in Messages
      BY <3>1 DEF SendsFor, Messages
    <3>3. cur = "short" => curStart.opt \in TooMany
      BY DEF Inv, ShortInv
    <3> QED BY <3>1, <3>2, <3>3
  <2>4. CASE StartFails \/ ProgramDies
    <3>1. Send(Report("close")) /\ cur' = "closed"
      BY <2>4 DEF StartFails, ProgramDies, Report
    <3>2. SendsFor(Report("close")) /\ Report("close") \in Messages
      BY <3>1 DEF SendsFor, Messages, Running
    <3>3. Report("close") \notin {<<>>, Report("info")}
      BY ReportTypes
    <3> QED BY <3>1, <3>2, <3>3
  <2> QED BY <2>1, <2>2, <2>3, <2>4, <2>5 DEF Program
<1>3. TypeOK /\ LinkInv /\ SavedInv
  BY DEF Inv
<1>4. MachineOK
  BY <1>1, <1>2, <1>3 DEF MachineOK, TypeOK, LinkInv, StrayStates
<1>5. ChannelOK
  BY <1>1, <1>3 DEF ChannelOK, TypeOK, SavedInv
<1>6. ToldInv => ToldInv'
  BY <1>1 DEF ToldInv, serverVars
<1>7. ASSUME linked, OwedInv PROVE OwedInv'
  <2>1. NoneOf(toServer', Reports) <=>
          NoneOf(toServer, Reports) /\ msgs \in {<<>>, Report("info")}
    BY <1>2, <1>7, ReportOnTheWay
  <2>2. (StartOwed => StartOwed') /\ (CommandOwed => CommandOwed')
    BY <1>1, <1>2, <2>1 DEF StartOwed, CommandOwed, Starting
  <2>3. StopOwed => StopOwed'
    BY <1>1, <1>2, <2>1 DEF StopOwed
  <2>4. (Started => Started') /\ (TestStart => TestStart')
    BY <1>1 DEF Started, TestStart
  <2> QED BY <1>1, <1>7, <2>2, <2>3, <2>4 DEF OwedInv, serverVars
<1>8. UNCHANGED <<serverVars, online, losses, early>>
  BY <1>1
<1> QED BY <1>2, <1>4, <1>5, <1>6, <1>7, <1>8, MachineKeeps

\* What a command does to the program and reports.
LEMMA CommandReceived ==
    ASSUME Inv, toClient # <<>>,
           \/ Head(toClient).type = "start" /\ ClientStart(Head(toClient).start)
           \/ Head(toClient).type = "stop" /\ ClientStop
    PROVE  /\ saved' = saved /\ Send(CloseMessage) /\ CloseMessage \in Messages
           /\ strayed' = FALSE => SendsFor(CloseMessage) /\ cur # "binding"
           /\ CloseMessage \in {<<>>, Report("info")} => cur \in {"none", "closed"}
           /\ \/ /\ Head(toClient).type = "start" /\ cur' = "binding"
                 /\ curStart' = Head(toClient).start
              \/ Head(toClient).type = "stop" /\ cur' = "none" /\ curStart' = curStart
           /\ online => MachineOK
<1>1. TypeOK /\ LinkInv
  BY DEF Inv
<1>2. Head(toClient) \in ToClient
  BY <1>1, TailFacts DEF TypeOK
<1>3. Head(toClient).type = "start" => Head(toClient).start \in StartInfo
  BY <1>2 DEF ToClient
<1>4. /\ ControlClose /\ saved' = saved /\ Send(CloseMessage)
      /\ \/ /\ Head(toClient).type = "start" /\ cur' = "binding"
            /\ curStart' = Head(toClient).start
         \/ Head(toClient).type = "stop" /\ cur' = "none" /\ curStart' = curStart
      /\ curStart' \in StartInfo
  BY <1>1, <1>3 DEF ClientStart, ClientStop, TypeOK
<1>5. CloseMessage = IF cur \in {"none", "closed"} THEN <<>> ELSE Report("close")
  BY DEF CloseMessage, Report
<1>6. CloseMessage \in Messages /\ SendsFor(CloseMessage)
  BY <1>4, <1>5 DEF Messages, SendsFor, Running
<1>7. CloseMessage \in {<<>>, Report("info")} => cur \in {"none", "closed"}
  BY <1>5, ReportTypes
<1>8. /\ strays' \in Seq([state : StrayStates, start : StartInfo]) /\ Len(strays') <= MaxStrays
      /\ cur = "binding" => strayed' = TRUE
      /\ cur # "binding" => strays' = strays /\ strayed' = strayed
  <2>1. CASE cur = "binding"
    <3>1. [state |-> "binding", start |-> curStart] \in [state : StrayStates, start : StartInfo]
      BY <1>1 DEF TypeOK, StrayStates
    <3>2. /\ Len(strays) < MaxStrays
          /\ strays' = Append(strays, [state |-> "binding", start |-> curStart])
          /\ strayed' = TRUE
      BY <1>4, <2>1 DEF ControlClose
    <3> HIDE DEF StartInfo, StrayStates
    <3>3. /\ strays' \in Seq([state : StrayStates, start : StartInfo])
          /\ Len(strays') = Len(strays) + 1
      BY <1>1, <3>1, <3>2, AppendProperties DEF TypeOK
    <3> QED BY <1>1, <2>1, <3>2, <3>3, BoundsAssumption, LenProperties DEF TypeOK
  <2>2. CASE cur # "binding"
    BY <1>1, <1>4, <2>2 DEF ControlClose, TypeOK
  <2> QED BY <2>1, <2>2
<1>9. online => MachineOK
  BY <1>1, <1>4, <1>8 DEF MachineOK, LinkInv, TypeOK, StrayStates
<1> QED BY <1>4, <1>6, <1>7, <1>8, <1>9

\* The machine receives a command or settings.
LEMMA ClientReceiveKeeps ==
    ASSUME Inv, ClientReceive
    PROVE  Inv'
<1> DEFINE m == Head(toClient)
           t == Tail(toClient)
<1>1. /\ TypeOK /\ LinkInv /\ SavedInv /\ toClient \in Seq(ToClient)
  BY DEF Inv, TypeOK
<1>2. /\ online /\ toClient # <<>> /\ toClient' = t
      /\ UNCHANGED <<serverVars, online, losses, early>>
      /\ \/ m.type = "start" /\ ClientStart(m.start)
         \/ m.type = "stop" /\ ClientStop
         \/ m.type = "options" /\ ClientOptions(m.saved)
  BY DEF ClientReceive
<1>3. /\ t \in Seq(ToClient) /\ m = toClient[1] /\ 1 \in DOMAIN toClient /\ m \in ToClient
      /\ \A i \in DOMAIN t : i \in Nat \ {0} /\ i + 1 \in DOMAIN toClient /\ t[i] = toClient[i + 1]
  BY <1>1, <1>2, TailFacts
<1>4. /\ \A K : NoneOf(toClient, K) <=> m.type \notin K /\ NoneOf(t, K)
      /\ \A K, T : LatestIn(toClient, K, T) => LatestIn(t, K, T)
      /\ \A K, T : m.type \in K /\ NoneOf(t, K) /\ LatestIn(toClient, K, T) => m \in T
  BY <1>1, <1>2, LatestOfTail
<1>5. Followed(toClient, "stop", "start") =>
        Followed(t, "stop", "start") /\ (m.type = "stop" => ~NoneOf(t, {"start"}))
  BY <1>1, <1>2, FollowedOfTail
<1>6. \A i \in DOMAIN t : t[i].type = "options" => t[i].saved.opt \in Options
  BY <1>1, <1>3 DEF SavedInv
<1> HIDE DEF m, t
<1>7. CASE m.type \in {"start", "stop"}
  <2>1. /\ saved' = saved /\ Send(CloseMessage) /\ CloseMessage \in Messages
        /\ strayed' = FALSE => SendsFor(CloseMessage) /\ cur # "binding"
        /\ CloseMessage \in {<<>>, Report("info")} => cur \in {"none", "closed"}
        /\ \/ m.type = "start" /\ cur' = "binding" /\ curStart' = m.start
           \/ m.type = "stop" /\ cur' = "none" /\ curStart' = curStart
        /\ MachineOK
    BY <1>2, <1>7, CommandReceived DEF m
  <2>2. ChannelOK
    BY <1>1, <1>2, <1>3, <1>6, <2>1 DEF ChannelOK, TypeOK, SavedInv
  <2>3. ToldInv => ToldInv'
    <3>1. NoneOf(t, {"options"}) => NoneOf(toClient, {"options"})
      BY <1>4, <1>7
    <3> QED BY <1>2, <1>4, <2>1, <3>1 DEF ToldInv, serverVars
  <2>4. ASSUME linked, OwedInv PROVE OwedInv'
    <3>1. SUFFICES ASSUME ~early, ~strayed' PROVE OwedInv'
      BY <1>2 DEF OwedInv
    <3>2. ~strayed /\ strayed' = FALSE
      BY <1>1, <2>1, <3>1 DEF MachineOK, TypeOK
    <3>3. NoneOf(toServer', Reports) => NoneOf(toServer, Reports) /\ cur \in {"none", "closed"}
      BY <2>1, <2>4, ReportOnTheWay
    <3>4. StopOwed => StopOwed'
      BY <3>3 DEF StopOwed, Running
    <3>5. Started => Started'
      <4>1. NoneOf(t, Commands) => NoneOf(t, {"start"})
        BY DEF NoneOf, Commands
      <4> QED BY <1>2, <1>5, <2>1, <4>1 DEF Started
    <3>6. (Started => StartOwed') /\ CommandOwed'
      BY <1>2, <1>5, <2>1 DEF Started, StartOwed, CommandOwed, Starting
    <3>7. sv' = sv /\ linked' = linked
      BY <1>2 DEF serverVars
    <3>8. TestStart => TestStart'
      <4>1. SUFFICES ASSUME TestStart
                     PROVE  /\ NoneOf(t, {"start"}) => curStart'.opt = TestOption
                            /\ LatestIn(t, {"start"}, TestStarts)
        BY <1>2 DEF TestStart
      <4>2. LatestIn(t, {"start"}, TestStarts)
        BY <1>4, <4>1 DEF TestStart
      <4>3. CASE m.type = "start"
        <5>1. NoneOf(t, {"start"}) => m \in TestStarts
          BY <1>4, <4>1, <4>3 DEF TestStart
        <5> QED BY <2>1, <4>2, <4>3, <5>1 DEF TestStarts
      <4>4. CASE m.type = "stop"
        <5>1. NoneOf(t, {"start"}) => NoneOf(toClient, {"start"})
          BY <1>4, <4>4
        <5> QED BY <2>1, <4>1, <4>2, <4>4, <5>1 DEF TestStart
      <4> QED BY <1>7, <4>3, <4>4
    <3> QED BY <2>4, <3>1, <3>2, <3>4, <3>5, <3>6, <3>7, <3>8 DEF OwedInv
  <2> QED BY <1>2, <2>1, <2>2, <2>3, <2>4, MachineKeeps
<1>8. CASE m.type = "options"
  <2>1. /\ saved' = m.saved /\ toServer' = toServer
        /\ cur' = cur /\ curStart' = curStart /\ strays' = strays /\ strayed' = strayed
    BY <1>2, <1>8 DEF ClientOptions, clientVars
  <2>2. Send(<<>>) /\ SendsFor(<<>>) /\ <<>> \in Messages
    BY <2>1, NothingSent DEF Send, SendsFor, Messages
  <2>3. MachineOK
    BY <1>1, <2>1 DEF MachineOK, TypeOK, LinkInv, Inv, ShortInv
  <2>4. m.saved \in Saved /\ m.saved.opt \in Options
    BY <1>1, <1>3, <1>8 DEF SavedInv, ToClient
  <2>5. ChannelOK
    BY <1>1, <1>2, <1>3, <1>6, <2>1, <2>4 DEF ChannelOK, TypeOK, SavedInv
  <2>6. ToldInv => ToldInv'
    <3>1. SUFFICES ASSUME ToldInv, linked, sv.greeted, ~early, ~InTest(sv)
                   PROVE  /\ NoneOf(t, {"options"}) => saved' = Settings(sv)
                          /\ LatestIn(t, {"options"}, {OptionsMessage(sv)})
      BY <1>2 DEF ToldInv, serverVars
    <3>2. LatestIn(toClient, {"options"}, {OptionsMessage(sv)})
      BY <3>1 DEF ToldInv
    <3>3. NoneOf(t, {"options"}) => m = OptionsMessage(sv)
      BY <1>4, <1>8, <3>2
    <3> QED BY <1>4, <2>1, <3>2, <3>3 DEF OptionsMessage
  <2>7. ASSUME linked, OwedInv PROVE OwedInv'
    <3>1. /\ NoneOf(t, {"start"}) => NoneOf(toClient, {"start"})
          /\ NoneOf(t, Commands) => NoneOf(toClient, Commands)
          /\ NoneOf(t, {"stop"}) => NoneOf(toClient, {"stop"})
      BY <1>4, <1>8 DEF Commands
    <3>2. /\ (StartOwed => StartOwed') /\ (StopOwed => StopOwed') /\ (Started => Started')
          /\ (CommandOwed => CommandOwed')
      BY <1>2, <1>5, <2>1, <3>1 DEF StartOwed, StopOwed, Started, CommandOwed
    <3>4. TestStart => TestStart'
      BY <1>2, <1>4, <2>1, <3>1 DEF TestStart
    <3>3. sv' = sv /\ linked' = linked /\ early' = early
      BY <1>2 DEF serverVars
    <3> QED BY <2>1, <2>7, <3>2, <3>3, <3>4 DEF OwedInv
  <2> QED BY <1>2, <2>2, <2>3, <2>5, <2>6, <2>7, MachineKeeps
<1> QED BY <1>2, <1>7, <1>8

\* A program outside the current Control goes on.
LEMMA StrayKeeps ==
    ASSUME Inv, Stray
    PROVE  Inv'
<1> DEFINE S == [state : StrayStates, start : StartInfo]
<1>1. TypeOK /\ LinkInv /\ SavedInv /\ strays \in Seq(S) /\ Len(strays) <= MaxStrays
  BY DEF Inv, TypeOK
<1>2. PICK i \in DOMAIN strays : StrayStep(i)
  BY DEF Stray
<1>3. /\ UNCHANGED <<serverVars, online, losses, early>>
      /\ linked' = linked /\ sv' = sv /\ toClient' = toClient /\ saved' = saved
      /\ cur' = cur /\ curStart' = curStart /\ strayed' = strayed
  BY DEF Stray, ControlStep, serverVars
<1>4. strays # <<>> /\ strayed = TRUE
  BY <1>1, <1>2 DEF LinkInv, TypeOK
<1>5. \/ \E state \in StrayStates : strays' = [strays EXCEPT ![i].state = state]
      \/ strays' = strays
      \/ strays' = RemoveAt(strays, i)
  BY <1>2 DEF StrayStep, StrayStates
<1>6. strays' \in Seq(S) /\ Len(strays') <= MaxStrays
  <2>1. Len(strays) \in Nat /\ DOMAIN strays = 1..Len(strays) /\ i \in 1..Len(strays)
    BY <1>1, <1>2, LenProperties
  <2>2. strays[i] \in S
    BY <1>1, <1>2, ElementOfSeq, <2>1
  <2>3. CASE \E state \in StrayStates : strays' = [strays EXCEPT ![i].state = state]
    <3>1. PICK state \in StrayStates : strays' = [strays EXCEPT ![i].state = state]
      BY <2>3
    <3>2. [strays[i] EXCEPT !.state = state] \in S
      BY <2>2
    <3>3. strays' = [strays EXCEPT ![i] = [strays[i] EXCEPT !.state = state]]
      BY <3>1
    <3> HIDE DEF S
    <3>4. strays' \in Seq(S) /\ Len(strays') = Len(strays)
      BY <1>1, <2>1, <3>2, <3>3, ExceptSeq
    <3> QED BY <1>1, <3>4
  <2>4. CASE strays' = RemoveAt(strays, i)
    <3> DEFINE a == SubSeq(strays, 1, i - 1)
               b == SubSeq(strays, i + 1, Len(strays))
    <3> HIDE DEF S
    <3>1. /\ \A j \in 1..(i - 1) : strays[j] \in S
          /\ \A j \in (i + 1)..Len(strays) : strays[j] \in S
      BY <1>1, <2>1, ElementOfSeq
    <3>2. a \in Seq(S) /\ Len(a) = IF 1 <= i - 1 THEN (i - 1) - 1 + 1 ELSE 0
      BY <2>1, <3>1, SubSeqProperties
    <3>3. /\ b \in Seq(S)
          /\ Len(b) = IF i + 1 <= Len(strays) THEN Len(strays) - (i + 1) + 1 ELSE 0
      BY <2>1, <3>1, SubSeqProperties
    <3>4. strays' = a \o b
      BY <2>4 DEF RemoveAt
    <3> HIDE DEF a, b
    <3>5. strays' \in Seq(S) /\ Len(strays') = Len(a) + Len(b)
      BY <3>2, <3>3, <3>4, ConcatProperties
    <3>6. Len(a) + Len(b) <= Len(strays)
      BY <2>1, <3>2, <3>3
    <3>7. Len(strays') <= Len(strays) /\ MaxStrays \in Nat /\ Len(strays') \in Nat
      BY <3>5, <3>6, LenProperties, BoundsAssumption
    <3> QED BY <1>1, <2>1, <3>5, <3>7
  <2> QED BY <1>1, <1>5, <2>3, <2>4
<1>7. PICK msgs \in Messages : Send(msgs)
  <2>1. Send(<<>>) \/ Send(Report("workers_info")) \/ Send(Report("info"))
    BY <1>2, NothingSent DEF StrayStep, Send, Report
  <2> QED BY <2>1 DEF Messages
<1>8. MachineOK
  BY <1>1, <1>3, <1>4, <1>6 DEF MachineOK, TypeOK, LinkInv, Inv, ShortInv
<1>9. ChannelOK
  BY <1>1, <1>3 DEF ChannelOK, TypeOK, SavedInv
<1>10. (ToldInv => ToldInv') /\ (OwedInv => OwedInv')
  BY <1>3, <1>4 DEF ToldInv, OwedInv
<1> QED BY <1>3, <1>4, <1>7, <1>8, <1>9, <1>10, MachineKeeps

-----------------------------------------------------------------------------
(* The connection *)

LEMMA NewWorkerFacts ==
    /\ NewControlWorker \in ControlWorker /\ WorkerInv(NewControlWorker)
    /\ NewControlWorker.greeted = FALSE /\ Pending(NewControlWorker)
    /\ NewControlWorker.state = "stopped" /\ NewControlWorker.wait = "none"
    /\ NewControlWorker.infos = 0
<1>1. NewControlWorker \in ControlWorker
  BY OptionsAssumption, ProgramsAssumption
     DEF NewControlWorker, ControlWorker, AllOptions, Targets
<1> QED BY <1>1, OptionsAssumption DEF NewControlWorker, WorkerInv, Pending, InTest

\* The server forgets the machine.
LEMMA LoseLinkKeeps ==
    ASSUME Inv, LoseLink
    PROVE  Inv'
<1>1. /\ linked' = FALSE /\ sv' = NewControlWorker /\ toServer' = <<>> /\ early' = FALSE
      /\ toClient' = toClient /\ online' = online /\ saved' = saved /\ cur' = cur
      /\ curStart' = curStart /\ strays' = strays /\ strayed' = strayed
      /\ losses' = losses + 1 /\ losses < MaxLosses
  BY DEF LoseLink, clientVars
<1>2. TypeOK /\ LinkInv /\ SavedInv
  BY DEF Inv
<1>3. losses' \in 0..MaxLosses
  BY <1>1, <1>2, BoundsAssumption DEF TypeOK
<1>4. TypeOK'
  <2>1. toServer' \in Seq(ToServer)
    BY <1>1, EmptySeq
  <2> QED BY <1>1, <1>2, <1>3, <2>1, NewWorkerFacts DEF TypeOK
<1>5. WorkerInv(sv)'
  BY <1>1, NewWorkerFacts
<1>6. LinkInv' /\ SavedInv'
  BY <1>1, <1>2 DEF LinkInv, SavedInv
<1>7. GreetInv' /\ PendingInv' /\ ToldInv' /\ ReportInv' /\ InfoInv' /\ ShortInv'
      /\ OwedInv'
  BY <1>1 DEF Inv, GreetInv, PendingInv, ToldInv, ReportInv, InfoInv, ShortInv, OwedInv
<1> QED BY <1>4, <1>5, <1>6, <1>7 DEF Inv

\* The machine notices, and stops its program.
LEMMA NetCloseKeeps ==
    ASSUME Inv, NetClose
    PROVE  Inv'
<1>1. /\ linked = FALSE /\ linked' = FALSE /\ sv' = sv /\ toServer' = toServer /\ saved' = saved
      /\ losses' = losses /\ early' = early /\ curStart' = curStart
      /\ online' = FALSE /\ toClient' = <<>> /\ cur' = "none" /\ ControlClose
  BY DEF NetClose, serverVars, Inv, TypeOK
<1>2. TypeOK /\ LinkInv /\ SavedInv
  BY DEF Inv
<1>3. /\ strays' \in Seq([state : StrayStates, start : StartInfo]) /\ Len(strays') <= MaxStrays
      /\ strayed' \in BOOLEAN /\ (~strayed' => strays' = <<>>)
  <2>1. CASE cur = "binding"
    <3>1. [state |-> "binding", start |-> curStart] \in [state : StrayStates, start : StartInfo]
      BY <1>2 DEF TypeOK, StrayStates
    <3>2. /\ Len(strays) < MaxStrays
          /\ strays' = Append(strays, [state |-> "binding", start |-> curStart])
          /\ strayed' = TRUE
      BY <1>1, <2>1 DEF ControlClose
    <3> HIDE DEF StartInfo, StrayStates
    <3>3. /\ strays' \in Seq([state : StrayStates, start : StartInfo])
          /\ Len(strays') = Len(strays) + 1
      BY <1>2, <3>1, <3>2, AppendProperties DEF TypeOK
    <3> QED BY <1>2, <3>2, <3>3, BoundsAssumption, LenProperties DEF TypeOK
  <2>2. CASE cur # "binding"
    BY <1>1, <1>2, <2>2 DEF ControlClose, TypeOK, LinkInv
  <2> QED BY <2>1, <2>2
<1>4. TypeOK'
  <2>1. toClient' \in Seq(ToClient)
    BY <1>1, EmptySeq
  <2> QED BY <1>1, <1>2, <1>3, <2>1 DEF TypeOK
<1>5. WorkerInv(sv)'
  BY <1>1 DEF Inv
<1>6. LinkInv' /\ SavedInv'
  BY <1>1, <1>2, <1>3 DEF LinkInv, SavedInv
<1>7. GreetInv' /\ PendingInv' /\ ToldInv' /\ ReportInv' /\ InfoInv' /\ ShortInv'
      /\ OwedInv'
  BY <1>1 DEF Inv, GreetInv, PendingInv, ToldInv, ReportInv, InfoInv, ShortInv, OwedInv
<1> QED BY <1>4, <1>5, <1>6, <1>7 DEF Inv

\* It connects as a new machine, and says first what it has saved.
LEMMA NetConnectKeeps ==
    ASSUME Inv, NetConnect
    PROVE  Inv'
<1> DEFINE m == [type |-> "options", saved |-> saved]
<1>1. /\ online = FALSE /\ online' = TRUE /\ linked' = TRUE /\ sv' = NewControlWorker
      /\ toServer' = <<m>> /\ toClient' = toClient /\ saved' = saved /\ losses' = losses
      /\ early' = early /\ cur' = cur /\ curStart' = curStart /\ strays' = strays
      /\ strayed' = strayed
  BY DEF NetConnect, clientVars, Inv, TypeOK
<1>2. TypeOK /\ LinkInv /\ SavedInv
  BY DEF Inv
<1>3. m \in ToServer /\ m.type = "options" /\ m.saved = saved
  BY <1>2 DEF TypeOK, ToServer
<1> HIDE DEF m
<1>4. /\ toServer' \in Seq(ToServer) /\ toServer' # <<>> /\ toServer'[1] = m
      /\ \A i \in DOMAIN toServer' : i = 1 /\ toServer'[i] = m
  BY <1>1, <1>3
<1>5. linked = FALSE /\ early = FALSE /\ toClient = <<>> /\ cur = "none"
  BY <1>1, <1>2 DEF LinkInv, TypeOK
<1>6. TypeOK'
  BY <1>1, <1>2, <1>4, NewWorkerFacts DEF TypeOK
<1>7. WorkerInv(sv)' /\ PendingInv'
  BY <1>1, NewWorkerFacts DEF PendingInv
<1>8. LinkInv' /\ SavedInv'
  BY <1>1, <1>2, <1>3, <1>4, <1>5, NewWorkerFacts DEF LinkInv, SavedInv
<1>9. GreetInv'
  BY <1>1, <1>3, <1>4, <1>5 DEF GreetInv
<1>10. ToldInv' /\ OwedInv'
  BY <1>1, NewWorkerFacts DEF ToldInv, OwedInv
<1>11. ReportInv'
  <2>1. m.type # "workers_info" /\ cur' # "ready" /\ sv'.state # "working"
    BY <1>1, <1>3, <1>5, NewWorkerFacts
  <2>2. Followed(toServer', "workers_info", "close")
    BY <1>4, <2>1 DEF Followed
  <2> QED BY <2>1, <2>2 DEF ReportInv
<1>12. InfoInv' /\ ShortInv'
  BY <1>1, <1>3, <1>4, <1>5 DEF InfoInv, ShortInv, Followed
<1> QED BY <1>6, <1>7, <1>8, <1>9, <1>10, <1>11, <1>12 DEF Inv

-----------------------------------------------------------------------------
(* The theorems *)

LEMMA InitEstablishesInv ==
    ASSUME Init
    PROVE  Inv
<1>1. /\ linked = FALSE /\ sv = NewControlWorker /\ toClient = <<>> /\ toServer = <<>>
      /\ online = FALSE /\ cur = "none" /\ strays = <<>> /\ strayed = FALSE
      /\ losses = 0 /\ early = FALSE
      /\ saved = [opt |-> DefaultOption, target |-> "none", path |-> FALSE]
      /\ curStart = [opt |-> DefaultOption, path |-> FALSE]
  BY DEF Init
<1>2. saved \in Saved /\ saved.opt \in Options /\ curStart \in StartInfo
  BY <1>1, OptionsAssumption DEF Saved, StartInfo, AllOptions, Targets
<1>3. TypeOK
  <2>1. /\ toClient \in Seq(ToClient) /\ toServer \in Seq(ToServer)
        /\ strays \in Seq([state : StrayStates, start : StartInfo])
    BY <1>1, EmptySeq
  <2>2. Len(strays) <= MaxStrays /\ losses \in 0..MaxLosses
    BY <1>1, BoundsAssumption
  <2> QED BY <1>1, <1>2, <2>1, <2>2, NewWorkerFacts DEF TypeOK
<1>4. WorkerInv(sv) /\ LinkInv /\ SavedInv
  BY <1>1, <1>2, NewWorkerFacts DEF LinkInv, SavedInv
<1>5. GreetInv /\ PendingInv /\ ToldInv /\ ReportInv /\ InfoInv /\ ShortInv /\ OwedInv
  BY <1>1 DEF GreetInv, PendingInv, ToldInv, ReportInv, InfoInv, ShortInv, OwedInv
<1> QED BY <1>3, <1>4, <1>5 DEF Inv

LEMMA NextKeepsInv ==
    ASSUME Inv, [Next]_vars
    PROVE  Inv'
<1>1. CASE Page
  BY <1>1, CommandKeeps
<1>2. CASE ClientReceive
  BY <1>2, ClientReceiveKeeps
<1>3. CASE Program
  BY <1>3, ProgramKeeps
<1>4. CASE Stray
  BY <1>4, StrayKeeps
<1>5. CASE ServerReceive
  BY <1>5, ServerReceiveKeeps
<1>6. CASE LoseLink
  BY <1>6, LoseLinkKeeps
<1>7. CASE NetClose
  BY <1>7, NetCloseKeeps
<1>8. CASE NetConnect
  BY <1>8, NetConnectKeeps
<1>9. CASE UNCHANGED vars
  <2>1. /\ linked' = linked /\ sv' = sv /\ toClient' = toClient /\ toServer' = toServer
        /\ online' = online /\ saved' = saved /\ cur' = cur /\ curStart' = curStart
        /\ strays' = strays /\ losses' = losses /\ early' = early /\ strayed' = strayed
    BY <1>9 DEF vars
  <2>2. TypeOK' /\ WorkerInv(sv)' /\ LinkInv' /\ SavedInv' /\ GreetInv' /\ PendingInv'
    BY <2>1 DEF Inv, TypeOK, LinkInv, SavedInv, GreetInv, PendingInv
  <2>3. ToldInv' /\ ReportInv' /\ InfoInv' /\ ShortInv' /\ OwedInv'
    BY <2>1 DEF Inv, ToldInv, ReportInv, InfoInv, ShortInv, OwedInv, CommandOwed, StartOwed,
                StopOwed, Started, TestStart
  <2> QED BY <2>2, <2>3 DEF Inv
<1> QED BY <1>1, <1>2, <1>3, <1>4, <1>5, <1>6, <1>7, <1>8, <1>9 DEF Next

LEMMA InvHolds == Spec => []Inv
<1>1. Init => Inv
  BY InitEstablishesInv
<1>2. Inv /\ [Next]_vars => Inv'
  BY NextKeepsInv
<1> QED BY <1>1, <1>2, PTL DEF Spec

\* The two ends and the messages between them have the types of the code: in
\* particular no handler waits for a callback the code does not have, and a
\* test never counts below its first program (controlStartLongTest, line 226).
THEOREM TypeCorrect == Spec => []TypeOK
<1>1. Inv => TypeOK
  BY InvImplies
<1> QED BY <1>1, InvHolds, PTL

\* Through every chain of callbacks worker.lock is held exactly while one
\* thing is waited for (nextEmit, controlWaitStartOrClose and onInfo).
THEOREM LockIsForPending == Spec => []LockIsPending
<1>1. Inv => LockIsPending
  BY InvImplies
<1> QED BY <1>1, InvHolds, PTL

\* When nothing is on the way, the state ControlWorker has from
\* app:workers_info and app:close is that of the machine's program.
THEOREM ViewsAgree == Spec => []ViewAgrees
<1>1. Inv => ViewAgrees
  BY InvImplies
<1> QED BY <1>1, InvHolds, PTL

\* The settings file of the machine holds what the server holds, and never
\* the options of a selftest (controlOptions, setWorker, net_client_onOptions).
THEOREM SettingsAreSaved == Spec => []SettingsAgree
<1>1. Inv => SettingsAgree
  BY InvImplies
<1> QED BY <1>1, InvHolds, PTL

\* A worker that stays locked while nothing is on the way waits for a command
\* to a machine that has no program, measures a program, or waits for the
\* workers_info of one that never sends it because it runs fewer threads than
\* asked for (Control.js, line 331): no stop inside a restart or a test, and no
\* start of a test's program, is the one that hangs.
THEOREM HangsAreKnown == Spec => []HangsOnlyHere
<1>1. Inv => HangsOnlyHere
  BY InvImplies
<1> QED BY <1>1, InvHolds, PTL

=============================================================================

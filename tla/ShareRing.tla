------------------------------ MODULE ShareRing ------------------------------
(***************************************************************************)
(* The way of a found share from a mining thread to the control client:    *)
(* the ring global_workers_context_t.shares in memory shared by Startup    *)
(* and its one or two Wrapper processes.  Threads of both wrappers claim a *)
(* slot with an atomic increment, write the share and raise its flag;      *)
(* Startup's working loop takes the shares in claim order.                 *)
(*                                                                         *)
(* One action is one access to shared memory (a share is copied in two     *)
(* parts), in program order as x86 keeps it.  Any process may die between  *)
(* two accesses.  A share is named by the number of its claim.             *)
(***************************************************************************)
EXTENDS Integers, Sequences

CONSTANTS
    Threads,      \* mining threads
    Wrappers,     \* ids of the wrapper processes, the second one optional
    WrapperOf,    \* the process of a thread
    N,            \* WORKERSCTX_ENT_LIST_MAX, 4096 in the code
    MaxShares     \* bound: shares found altogether

ASSUME WrappersAssumption == Wrappers \in {{0}, {0, 1}}
ASSUME WrapperOfAssumption == WrapperOf \in [Threads -> Wrappers]
ASSUME NAssumption == N \in Nat \ {0}
ASSUME MaxSharesAssumption == MaxShares \in Nat

VARIABLES
    shareSeqWrite, shareSeqRead,
    part1, part2,   \* the two parts of the share in each slot
    ready,          \* the slots whose is_ready is set
    step,           \* of a thread: "hash", or how far submitShare got
    claim,          \* the slot number a thread was given
    startup,        \* "running" or "stopped"
    at,             \* where Startup is in loopWork and getShare
    got,            \* its copy ret_share
    delivered,      \* shares sent to the control client
    dead,           \* wrapper processes that ended
    lapped          \* history: a claim was made a whole ring ahead of the reader

slotVars == <<part1, part2, ready>>
threadVars == <<step, claim, shareSeqWrite, lapped>>
readerVars == <<shareSeqRead, at, got, delivered>>
processVars == <<startup, dead>>
vars == <<slotVars, threadVars, readerVars, processVars>>

NoShare == -1      \* what the zeroed memory holds

Slots == 0 .. N - 1
Slot(seq) == seq % N
Running(t) == WrapperOf[t] \notin dead

-----------------------------------------------------------------------------
(* Wrapper: Worker.submitShare *)

Claim(t) ==
    /\ Running(t) /\ step[t] = "hash"
    /\ shareSeqWrite < MaxShares
    /\ claim' = [claim EXCEPT ![t] = shareSeqWrite]
    /\ shareSeqWrite' = shareSeqWrite + 1
    /\ lapped' = (lapped \/ shareSeqWrite - shareSeqRead >= N)
    /\ step' = [step EXCEPT ![t] = "claimed"]
    /\ UNCHANGED <<slotVars, readerVars, processVars>>

WritePart1(t) ==
    /\ Running(t) /\ step[t] = "claimed"
    /\ part1' = [part1 EXCEPT ![Slot(claim[t])] = claim[t]]
    /\ step' = [step EXCEPT ![t] = "half"]
    /\ UNCHANGED <<part2, ready, claim, shareSeqWrite, lapped, readerVars, processVars>>

WritePart2(t) ==
    /\ Running(t) /\ step[t] = "half"
    /\ part2' = [part2 EXCEPT ![Slot(claim[t])] = claim[t]]
    /\ step' = [step EXCEPT ![t] = "written"]
    /\ UNCHANGED <<part1, ready, claim, shareSeqWrite, lapped, readerVars, processVars>>

\* Mutant: the flag is raised at the shared counter instead of the claim.
PublishAtCounter(t) ==
    /\ Running(t) /\ step[t] = "written"
    /\ ready' = ready \cup {Slot(shareSeqWrite)}
    /\ step' = [step EXCEPT ![t] = "hash"]
    /\ UNCHANGED <<part1, part2, claim, shareSeqWrite, lapped, readerVars, processVars>>

Publish(t) ==
    /\ Running(t) /\ step[t] = "written"
    /\ ready' = ready \cup {Slot(claim[t])}
    /\ step' = [step EXCEPT ![t] = "hash"]
    /\ UNCHANGED <<part1, part2, claim, shareSeqWrite, lapped, readerVars, processVars>>

-----------------------------------------------------------------------------
(* Startup: loopWork and getShare *)

\* An exception leaves loopWork: the destructors end the wrappers, then
\* Startup ends itself.
Unwind == startup' = "stopped" /\ dead' = Wrappers

\* netProcess or the sending of a share fails.
NetError ==
    /\ startup = "running" /\ at \in {"loop", "send"}
    /\ Unwind
    /\ UNCHANGED <<slotVars, threadVars, readerVars>>

\* Mutant: only the first process is looked at.
TryAliveFirst ==
    /\ startup = "running" /\ at = "loop"
    /\ IF 0 \in dead THEN Unwind /\ UNCHANGED at ELSE at' = "look" /\ UNCHANGED processVars
    /\ UNCHANGED <<slotVars, threadVars, shareSeqRead, got, delivered>>

TryAlive ==
    /\ startup = "running" /\ at = "loop"
    /\ IF dead # {} THEN Unwind /\ UNCHANGED at ELSE at' = "look" /\ UNCHANGED processVars
    /\ UNCHANGED <<slotVars, threadVars, shareSeqRead, got, delivered>>

\* Mutant: a share is taken only when another one follows it.
LookForTwo ==
    /\ startup = "running" /\ at = "look"
    /\ at' = IF shareSeqWrite - shareSeqRead <= 1 THEN "loop" ELSE "wait"
    /\ UNCHANGED <<slotVars, threadVars, shareSeqRead, got, delivered, processVars>>

Look ==
    /\ startup = "running" /\ at = "look"
    /\ at' = IF shareSeqRead = shareSeqWrite THEN "loop" ELSE "wait"
    /\ UNCHANGED <<slotVars, threadVars, shareSeqRead, got, delivered, processVars>>

\* The loop on is_ready ends; it looks neither at the network nor at the
\* processes meanwhile.
SeeReady ==
    /\ startup = "running" /\ at = "wait" /\ Slot(shareSeqRead) \in ready
    /\ at' = "copy"
    /\ UNCHANGED <<slotVars, threadVars, shareSeqRead, got, delivered, processVars>>

CopyPart1 ==
    /\ startup = "running" /\ at = "copy"
    /\ got' = <<part1[Slot(shareSeqRead)], NoShare>>
    /\ at' = "half"
    /\ UNCHANGED <<slotVars, threadVars, shareSeqRead, delivered, processVars>>

CopyPart2 ==
    /\ startup = "running" /\ at = "half"
    /\ got' = <<got[1], part2[Slot(shareSeqRead)]>>
    /\ at' = "clear"
    /\ UNCHANGED <<slotVars, threadVars, shareSeqRead, delivered, processVars>>

\* Mutant: the flag stays raised.
ClearNothing ==
    /\ startup = "running" /\ at = "clear"
    /\ at' = "advance"
    /\ UNCHANGED <<slotVars, threadVars, shareSeqRead, got, delivered, processVars>>

Clear ==
    /\ startup = "running" /\ at = "clear"
    /\ ready' = ready \ {Slot(shareSeqRead)}
    /\ at' = "advance"
    /\ UNCHANGED <<part1, part2, threadVars, shareSeqRead, got, delivered, processVars>>

Advance ==
    /\ startup = "running" /\ at = "advance"
    /\ shareSeqRead' = shareSeqRead + 1
    /\ at' = "send"
    /\ UNCHANGED <<slotVars, threadVars, got, delivered, processVars>>

Send ==
    /\ startup = "running" /\ at = "send"
    /\ delivered' = Append(delivered, got)
    /\ at' = "loop"
    /\ UNCHANGED <<slotVars, threadVars, shareSeqRead, got, processVars>>

-----------------------------------------------------------------------------
(* The processes *)

\* The control client, or anything else, ends Startup.
StartupKilled ==
    /\ startup = "running"
    /\ startup' = "stopped"
    /\ UNCHANGED <<slotVars, threadVars, readerVars, dead>>

WrapperDies(w) ==
    /\ w \notin dead
    /\ dead' = dead \cup {w}
    /\ UNCHANGED <<slotVars, threadVars, readerVars, startup>>

\* Mutant: only the first wrapper watches its parent.
ParentGoneFirst(w) ==
    /\ startup = "stopped" /\ w \notin dead /\ w = 0
    /\ dead' = dead \cup {w}
    /\ UNCHANGED <<slotVars, threadVars, readerVars, startup>>

\* The main thread of a wrapper sees that its parent is gone.
ParentGone(w) ==
    /\ startup = "stopped" /\ w \notin dead
    /\ dead' = dead \cup {w}
    /\ UNCHANGED <<slotVars, threadVars, readerVars, startup>>

-----------------------------------------------------------------------------
\* After startupInfo: the memory is zeroed and every thread is ready.
Init ==
    /\ shareSeqWrite = 0 /\ shareSeqRead = 0
    /\ part1 = [i \in Slots |-> NoShare]
    /\ part2 = [i \in Slots |-> NoShare]
    /\ ready = {}
    /\ step = [t \in Threads |-> "hash"]
    /\ claim = [t \in Threads |-> 0]
    /\ startup = "running" /\ at = "loop"
    /\ got = <<NoShare, NoShare>>
    /\ delivered = <<>>
    /\ dead = {}
    /\ lapped = FALSE

SubmitStep(t) == WritePart1(t) \/ WritePart2(t) \/ Publish(t)
ReaderStep == TryAlive \/ Look \/ SeeReady \/ CopyPart1 \/ CopyPart2 \/ Clear \/ Advance \/ Send

Next ==
    \/ \E t \in Threads : Claim(t) \/ SubmitStep(t)
    \/ ReaderStep \/ NetError \/ StartupKilled
    \/ \E w \in Wrappers : WrapperDies(w) \/ ParentGone(w)

Spec == Init /\ [][Next]_vars

\* The operating system runs every live thread: a share that is being
\* submitted is submitted, the loops of Startup and of the wrappers go on.
\* Finding a share, dying and being killed are not promised.
Fairness ==
    /\ \A t \in Threads : WF_vars(SubmitStep(t))
    /\ WF_vars(ReaderStep)
    /\ \A w \in Wrappers : WF_vars(ParentGone(w))

FairSpec == Spec /\ Fairness

-----------------------------------------------------------------------------
(* Properties *)

Submitting(t) == step[t] # "hash"

\* Every variable keeps its type; the reader never passes the writers.
TypeOK ==
    /\ shareSeqWrite \in 0 .. MaxShares
    /\ shareSeqRead \in 0 .. shareSeqWrite
    /\ part1 \in [Slots -> Int] /\ part2 \in [Slots -> Int]
    /\ ready \subseteq Slots
    /\ step \in [Threads -> {"hash", "claimed", "half", "written"}]
    /\ claim \in [Threads -> Nat]
    /\ startup \in {"running", "stopped"}
    /\ at \in {"loop", "look", "wait", "copy", "half", "clear", "advance", "send"}
    /\ got \in Int \X Int
    /\ delivered \in Seq(Int \X Int)
    /\ dead \subseteq Wrappers
    /\ lapped \in BOOLEAN

\* As long as no claim was a whole ring ahead of the reader, the control
\* client receives every share whole, once and in the order of the claims,
\* in whatever order the threads of both processes write and publish.
DeliveredIntact ==
    ~lapped => \A i \in DOMAIN delivered : delivered[i] = <<i - 1, i - 1>>

\* When getShare waits for a flag, some thread is still submitting that very
\* share: the flag is never lost.  (If the thread's process is dead the wait
\* has no end; that is the one way it can last.)
WaitIsForAClaim ==
    at = "wait" /\ ~lapped /\ Slot(shareSeqRead) \notin ready =>
        \E t \in Threads : Submitting(t) /\ claim[t] = shareSeqRead

\* A process that died inside submitShare, or a writer a whole ring ahead:
\* the two cases in which getShare may wait for ever.
Stuck == lapped \/ \E t \in Threads : Submitting(t) /\ ~Running(t)

\* Every claimed share is delivered, unless Startup stops or is stuck.
AllDelivered ==
    \A n \in 1 .. MaxShares :
        shareSeqWrite >= n ~> Len(delivered) >= n \/ startup = "stopped" \/ Stuck

\* The death of either wrapper stops Startup, unless it is stuck.
DeathNoticed == dead # {} ~> startup = "stopped" \/ Stuck

\* No wrapper outlives Startup, however Startup ended.
NoneOutlivesStartup == startup = "stopped" ~> dead = Wrappers

=============================================================================

------------------------------ MODULE MinerJobs ------------------------------
(***************************************************************************)
(* A job's way through a mining machine and a share's way back.  Control   *)
(* (ControlClient/Control.js) numbers the jobs of the server, keeps the    *)
(* newest few and sends each to Startup in a UDP datagram.  Startup writes *)
(* it to a ring in shared memory and counts jobSeq up.  The mining threads *)
(* of the wrapper processes, without any lock, look at jobSeq, copy the    *)
(* job, share its nonce counter, hash, and name the job's number in the    *)
(* shares they find.  How those travel to Startup is ShareRing; here they  *)
(* are a set.                                                              *)
(*                                                                         *)
(* A job is identified with its number.  blob and target stand for the     *)
(* job they were made for, nonces are counted from the job's first.        *)
(***************************************************************************)
EXTENDS Integers, Sequences, FiniteSets

CONSTANTS
    Threads,    \* mining threads of all wrapper processes
    N,          \* WORKERSCTX_ENT_LIST_MAX (4096)
    Window,     \* jobs a Control keeps (9)
    Buffer,     \* datagrams the socket of Startup holds; more are dropped
    MaxJobs,    \* bound: jobs of one Control
    MaxNonces,  \* bound: nonces taken from one slot
    MaxShares   \* bound: shares found

ASSUME RingAssumption == N \in Nat /\ N >= 2
ASSUME WindowAssumption == Window \in Nat \ {0} /\ Buffer \in Nat \ {0}
ASSUME MinerBoundsAssumption == MaxJobs \in Nat /\ MaxNonces \in Nat /\ MaxShares \in Nat

VARIABLES
    (* Control *)
    nextSeq,        \* Control.jobSeq
    kept,           \* keys of Control.jobs
    base,           \* number of the base job, 0 before the threads are ready
    toStartup,      \* datagrams with jobs
    (* the shared memory *)
    jobSeq,         \* global_workers_context_t.jobSeq
    slots,          \* global_workers_context_t.jobs
    writing,        \* the job Startup is in the middle of setting, 0 if none
    written,        \* how far it got: 0, 1 or 2 parts
    (* the threads *)
    pc,             \* the next step of Worker.loop
    jobSeqRead,     \* Worker.jobSeqRead
    share,          \* share.job_id and share.nonce, and what is hashed
    (* on the way back *)
    shares,         \* submitted, not delivered
    emitted,        \* shares Control passed on to the server
    (* history *)
    hashed,         \* pairs of a job and a nonce somebody hashes or hashed
    twice,          \* jobs of which a nonce was taken twice
    lapped          \* a slot was rewritten while a thread worked with it

controlVars == <<nextSeq, kept, base>>
ringVars == <<jobSeq, slots, writing, written>>
threadVars == <<pc, jobSeqRead, share>>
historyVars == <<hashed, twice, lapped>>
vars == <<controlVars, toStartup, ringVars, threadVars, shares, emitted, historyVars>>

Index(i) == i % N
EmptySlot == [job_id |-> 0, blob |-> 0, nonce |-> 0, target |-> 0]
NoShare == [job_id |-> 0, blob |-> 0, nonce |-> 0]

-----------------------------------------------------------------------------
(* Control *)

\* Mutant: the oldest jobs stay, the newest is deleted.
NewestFirst(S) == {s \in S : Cardinality({r \in S : r < s}) < Window}

\* The end of _setJob deletes the smallest numbers while ten or more are kept.
Newest(S) == {s \in S : Cardinality({r \in S : r > s}) < Window}

\* Datagrams beyond what the socket holds are dropped.
SvJob(datagrams) ==
    LET room == Buffer - Len(toStartup)
    IN toStartup' = IF Len(datagrams) <= room THEN toStartup \o datagrams
                    ELSE toStartup \o SubSeq(datagrams, 1, room)

\* _setJob: the job gets the next number.
SetJob ==
    /\ nextSeq <= MaxJobs
    /\ kept' = Newest(kept \cup {nextSeq})
    /\ nextSeq' = nextSeq + 1

\* A job of the server.  Until the threads are ready it is only kept.
ServerJob ==
    /\ base # 0 \/ nextSeq < MaxJobs
    /\ SetJob
    /\ SvJob(IF base # 0 THEN <<nextSeq>> ELSE <<>>)
    /\ UNCHANGED <<base, ringVars, threadVars, shares, emitted, historyVars>>

\* The last worker_info: App answers the event with the base job, which is
\* sent; then Control sends the newest job, the base job once more.
WorkersReady ==
    /\ base = 0
    /\ SetJob
    /\ base' = nextSeq
    /\ SvJob(<<nextSeq, nextSeq>>)
    /\ UNCHANGED <<ringVars, threadVars, shares, emitted, historyVars>>

\* cl_share: a share of a job that is not kept any more is ignored.
ClShare(s) ==
    /\ s \in shares
    /\ shares' = shares \ {s}
    /\ emitted' = IF s.job_id \in kept THEN emitted \cup {s} ELSE emitted
    /\ UNCHANGED <<controlVars, toStartup, ringVars, threadVars, historyVars>>

-----------------------------------------------------------------------------
(* Startup: WorkerMng.setJob *)

\* Steps at which a thread's pointer to its slot is still to be used.
Using == {"id", "blob", "nonce", "hash"}

StartSetJob ==
    /\ writing = 0 /\ toStartup # <<>>
    /\ writing' = Head(toStartup)
    /\ toStartup' = Tail(toStartup)
    /\ lapped' = (lapped \/ \E t \in Threads :
                     pc[t] \in Using /\ Index(jobSeqRead[t]) = Index(jobSeq + 1))
    /\ UNCHANGED <<controlVars, jobSeq, slots, written, threadVars, shares, emitted, hashed, twice>>

SlotUnchanged ==
    UNCHANGED <<controlVars, toStartup, threadVars, shares, emitted, historyVars>>

\* Mutant: the slot of the job being mined is written.
WriteSlotCurrent ==
    /\ writing # 0 /\ written < 2
    /\ written' = written + 1
    /\ slots' = IF written = 0
                THEN [slots EXCEPT ![Index(jobSeq)] =
                        [@ EXCEPT !.job_id = writing, !.blob = writing, !.nonce = 0]]
                ELSE [slots EXCEPT ![Index(jobSeq)].target = writing]
    /\ UNCHANGED <<jobSeq, writing>> /\ SlotUnchanged

\* The copy to the slot after the current one, in two parts.
WriteSlot ==
    /\ writing # 0 /\ written < 2
    /\ written' = written + 1
    /\ slots' = IF written = 0
                THEN [slots EXCEPT ![Index(jobSeq + 1)] =
                        [@ EXCEPT !.job_id = writing, !.blob = writing, !.nonce = 0]]
                ELSE [slots EXCEPT ![Index(jobSeq + 1)].target = writing]
    /\ UNCHANGED <<jobSeq, writing>> /\ SlotUnchanged

\* Mutant: jobSeq is counted up before the copy is complete.
PublishEarly ==
    /\ written \in {1, 2}
    /\ jobSeq' = jobSeq + 1
    /\ writing' = 0 /\ written' = 0
    /\ UNCHANGED slots /\ SlotUnchanged

Publish ==
    /\ written = 2
    /\ jobSeq' = jobSeq + 1
    /\ writing' = 0 /\ written' = 0
    /\ UNCHANGED slots /\ SlotUnchanged

-----------------------------------------------------------------------------
(* Worker.loop *)

SlotOf(t) == slots[Index(jobSeqRead[t])]

ThreadStep(t, to) ==
    /\ pc' = [pc EXCEPT ![t] = to]
    /\ UNCHANGED <<controlVars, toStartup, jobSeq, writing, written, emitted, lapped>>

\* getJob: one look at jobSeq.  Before the first job the thread sleeps.
GetJob(t) ==
    /\ pc[t] = "job" /\ jobSeq # 0
    /\ jobSeqRead' = [jobSeqRead EXCEPT ![t] = jobSeq]
    /\ ThreadStep(t, IF jobSeq = jobSeqRead[t] THEN "nonce" ELSE "id")
    /\ UNCHANGED <<slots, share, shares, hashed, twice>>

CopyId(t) ==
    /\ pc[t] = "id"
    /\ share' = [share EXCEPT ![t].job_id = SlotOf(t).job_id]
    /\ ThreadStep(t, "blob")
    /\ UNCHANGED <<slots, jobSeqRead, shares, hashed, twice>>

\* memToBe32 to job_be, and round again.
CopyBlob(t) ==
    /\ pc[t] = "blob"
    /\ share' = [share EXCEPT ![t].blob = SlotOf(t).blob]
    /\ ThreadStep(t, "job")
    /\ UNCHANGED <<slots, jobSeqRead, shares, hashed, twice>>

\* Mutant: every thread counts its own nonces.
TakeNonceOwn(t) ==
    LET nonce == share[t].nonce + 1
    IN /\ pc[t] = "nonce" /\ nonce < MaxNonces
       /\ share' = [share EXCEPT ![t].nonce = nonce]
       /\ hashed' = hashed \cup {<<share[t].blob, nonce>>}
       /\ twice' = IF <<share[t].blob, nonce>> \in hashed
                   THEN twice \cup {share[t].blob} ELSE twice
       /\ ThreadStep(t, "hash")
       /\ UNCHANGED <<slots, jobSeqRead, shares>>

\* __sync_fetch_and_add(&job->nonce, 1)
TakeNonce(t) ==
    /\ pc[t] = "nonce" /\ SlotOf(t).nonce < MaxNonces
    /\ share' = [share EXCEPT ![t].nonce = SlotOf(t).nonce]
    /\ slots' = [slots EXCEPT ![Index(jobSeqRead[t])].nonce = @ + 1]
    /\ hashed' = hashed \cup {<<share[t].blob, SlotOf(t).nonce>>}
    /\ twice' = IF <<share[t].blob, SlotOf(t).nonce>> \in hashed
                THEN twice \cup {share[t].blob} ELSE twice
    /\ ThreadStep(t, "hash")
    /\ UNCHANGED <<jobSeqRead, shares>>

\* Hashes beyond the bound are not followed.
BeyondBound(t) ==
    /\ pc[t] = "nonce" /\ SlotOf(t).nonce = MaxNonces
    /\ ThreadStep(t, "job")
    /\ UNCHANGED <<slots, jobSeqRead, share, shares, hashed, twice>>

\* hash, testShare against the target in the slot, submitShare.  No hash is
\* below the target of the base job, which is zero.
Hash(t, found) ==
    /\ pc[t] = "hash"
    /\ found => SlotOf(t).target # base /\ Cardinality(shares \cup emitted) < MaxShares
    /\ shares' = IF found
                 THEN shares \cup {[job_id |-> share[t].job_id, blob |-> share[t].blob,
                                    nonce |-> share[t].nonce, target |-> SlotOf(t).target]}
                 ELSE shares
    /\ ThreadStep(t, "job")
    /\ UNCHANGED <<slots, jobSeqRead, share, hashed, twice>>

-----------------------------------------------------------------------------
Init ==
    /\ nextSeq = 1 /\ kept = {} /\ base = 0 /\ toStartup = <<>>
    /\ jobSeq = 0 /\ slots = [i \in 0 .. N - 1 |-> EmptySlot]
    /\ writing = 0 /\ written = 0
    /\ pc = [t \in Threads |-> "job"]
    /\ jobSeqRead = [t \in Threads |-> 0]
    /\ share = [t \in Threads |-> NoShare]
    /\ shares = {} /\ emitted = {}
    /\ hashed = {} /\ twice = {} /\ lapped = FALSE

Next ==
    \/ ServerJob \/ WorkersReady
    \/ \E s \in shares : ClShare(s)
    \/ StartSetJob \/ WriteSlot \/ Publish
    \/ \E t \in Threads : GetJob(t) \/ CopyId(t) \/ CopyBlob(t) \/ TakeNonce(t) \/ BeyondBound(t)
    \/ \E t \in Threads, found \in BOOLEAN : Hash(t, found)

Spec == Init /\ [][Next]_vars

-----------------------------------------------------------------------------
(* Properties *)

\* The types; the socket and the window hold no more than they can.
TypeOK ==
    /\ nextSeq \in 1 .. MaxJobs + 1 /\ base \in 0 .. MaxJobs
    /\ kept \subseteq 1 .. MaxJobs /\ Cardinality(kept) <= Window
    /\ toStartup \in Seq(1 .. MaxJobs) /\ Len(toStartup) <= Buffer
    /\ jobSeq \in Nat /\ writing \in 0 .. MaxJobs /\ written \in 0 .. 2
    /\ slots \in [0 .. N - 1 -> [job_id : 0 .. MaxJobs, blob : 0 .. MaxJobs,
                                 nonce : 0 .. MaxNonces, target : 0 .. MaxJobs]]
    /\ pc \in [Threads -> Using \cup {"job"}]
    /\ jobSeqRead \in [Threads -> Nat]
    /\ share \in [Threads -> [job_id : 0 .. MaxJobs, blob : 0 .. MaxJobs, nonce : 0 .. MaxNonces]]

\* While the ring is not lapped, a share names the job whose header was hashed,
\* and was found with that job's target, however threads look at jobSeq,
\* copy and hash between the steps of Startup.
SharesNameTheirJob ==
    ~lapped => \A s \in shares \cup emitted : s.job_id = s.blob /\ s.target = s.blob

\* While the ring is not lapped, no two threads hash the same header, although
\* they share one counter and the job may change between any two of its uses.
\* The exception is the base job, which is sent twice.
HashedOnce == ~lapped => twice \subseteq {base}

\* A share is ignored only when it is so late that Control has numbered as
\* many newer jobs as it keeps; dropped datagrams and slow threads do not
\* make it earlier.
OnlyOldIgnored ==
    [][\A s \in shares \ shares' : s \in emitted' \/ nextSeq > s.job_id + Window]_vars

=============================================================================
